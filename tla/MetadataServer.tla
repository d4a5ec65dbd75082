--------------------------- MODULE MetadataServer ---------------------------
(***************************************************************************)
(* The metadata server of Hercules: stat_worker_helper (src/workers.c) and *)
(* the garbage collector thread, over the dataset records of one directory *)
(* of the hierarchical map.  Every client is attached by the dispatcher to *)
(* one thread of the server's pool; a thread serves one request at a time, *)
(* and the handlers of the pool exclude one another with operation_lock.   *)
(*                                                                         *)
(* A client has one request outstanding.  A "SET" (create) is answered     *)
(* first and carried out afterwards, so its client may already have sent   *)
(* its next request while the thread is still inserting the record.        *)
(***************************************************************************)
EXTENDS Integers, FiniteSets

CONSTANTS Keys,            \* the URIs of the datasets of a directory
          Clients,         \* the client processes, each with its thread
          Nobody,          \* operation_lock is free
          Operations,      \* the requests the clients make
          MaxOpen,         \* bound on n_open (an int in the code)
          MaxGarbage,      \* bound on the copies of a key in the vector
          SpuriousWakeups  \* may pthread_cond_wait return by itself?

\* The operations of the protocol.  READ1 and SET1 are READ_OP and SET with
\* their first parameter, "opened", equal to 1.
Gets == {"GETDIR", "READ", "READ1", "OPEN", "CLOSE", "DELETE", "RENAME"}
Sets == {"SET", "SET1"}

ASSUME OperationsAssumption == Operations \subseteq Gets \cup Sets
ASSUME BoundsAssumption == MaxOpen \in Nat /\ MaxGarbage \in Nat
ASSUME WakeupAssumption == SpuriousWakeups \in BOOLEAN
ASSUME NobodyAssumption == Nobody \notin Clients

VARIABLES
    status,          \* dataset_info.status of a stored record, or "NONE"
    n_open,          \* dataset_info.n_open of a stored record
    garbage,         \* copies of a key in buffer_garbage_collector
    operation_lock,  \* the thread (named by its client) that holds it
    found,           \* what the SET that holds it found in the map
    job,             \* the SET that a thread has answered and not finished
    inbox,           \* the request a client has sent and no thread has read
    unsent,          \* clients whose SET still has its structure to send
    payload,         \* dataset structures sent and not yet received
    reply,           \* the message on its way to a client
    call,            \* the request whose answer a client is waiting for
    up,              \* FALSE once the server process has been aborted
    fate,            \* history: "created" when a create of the dataset has
                     \* returned to its client, "removed" when its record
                     \* has ever been taken away, "new" before both
    held,            \* history: the clients whose open of a dataset has been
                     \* counted in n_open and whose close has not come yet
    miscounted       \* history: datasets closed by a client that was not
                     \* counted, or collected while a client held them

vars == <<status, n_open, garbage, operation_lock, found, job, inbox,
          unsent, payload, reply, call, up, fate, held, miscounted>>

opens == <<held, miscounted>>
records == <<status, n_open, garbage, fate, opens>>
threads == <<operation_lock, found, job>>

Statuses == {"NONE", "ATTACH", "DEST", "DIRTY"}

Requests == [op : Operations, key : Keys]
NoRequest == [op |-> "NOP"]
Answers == {"OK", "NO_KEY", "DATASET", "OPEN", "CLOSE", "DELETE",
            "NODELETE", "ERROR", "EMPTY_DIRECTORY", "LIST"}

Stored(k) == status[k] # "NONE"

Init ==
    /\ status = [k \in Keys |-> "NONE"]
    /\ n_open = [k \in Keys |-> 0]
    /\ garbage = [k \in Keys |-> 0]
    /\ operation_lock = Nobody
    /\ found = FALSE
    /\ job = [c \in Clients |-> NoRequest]
    /\ inbox = [c \in Clients |-> NoRequest]
    /\ unsent = {}
    /\ payload = [c \in Clients |-> 0]
    /\ reply = [c \in Clients |-> "none"]
    /\ call = [c \in Clients |-> NoRequest]
    /\ up = TRUE
    /\ fate = [k \in Keys |-> "new"]
    /\ held = [k \in Keys |-> {}]
    /\ miscounted = {}

-----------------------------------------------------------------------------
(***************************************************************************)
(* The client's half of a call (stat_dataset, create_dataset,              *)
(* close_dataset, delete_dataset, open_local_dataset, get_dir): it holds   *)
(* lock_network from the request to the answer.                            *)
(***************************************************************************)

\* The named bounds: every request under way is counted as if it succeeded.
UnderWay(k, ops) ==
    Cardinality({c \in Clients : call[c].op \in ops /\ call[c].key = k})
      + Cardinality({c \in Clients : job[c].op \in ops /\ job[c].key = k})

WithinBounds(r) ==
    /\ r.op \in {"OPEN", "READ1", "SET1"} =>
         n_open[r.key] + UnderWay(r.key, {"OPEN", "READ1", "SET1"}) < MaxOpen
    /\ r.op \in {"CLOSE", "DELETE"} =>
         garbage[r.key] + UnderWay(r.key, {"CLOSE", "DELETE"}) < MaxGarbage

\* send_req; a create still has its structure to send.
Send(c, r) ==
    /\ call[c] = NoRequest
    /\ WithinBounds(r)
    /\ call' = [call EXCEPT ![c] = r]
    /\ inbox' = [inbox EXCEPT ![c] = r]
    /\ unsent' = IF r.op \in Sets THEN unsent \cup {c} ELSE unsent
    /\ UNCHANGED <<records, threads, payload, reply, up>>

\* send_dynamic_stream of the new structure, a message of its own: the server
\* may have read the request, answered it and taken operation_lock by then.
SendStructure(c) ==
    /\ c \in unsent
    /\ unsent' = unsent \ {c}
    /\ payload' = [payload EXCEPT ![c] = @ + 1]
    /\ UNCHANGED <<records, threads, inbox, reply, call, up>>

\* The answer arrives and the call returns; a create reads the answer only
\* after it has sent the structure.
Receive(c) ==
    /\ reply[c] # "none"
    /\ c \notin unsent
    /\ reply' = [reply EXCEPT ![c] = "none"]
    /\ call' = [call EXCEPT ![c] = NoRequest]
    /\ fate' = [k \in Keys |->
                  IF call[c].op \in Sets /\ call[c].key = k /\ fate[k] = "new"
                  THEN "created" ELSE fate[k]]
    /\ UNCHANGED <<status, n_open, garbage, opens, threads, inbox, unsent,
                   payload, up>>

-----------------------------------------------------------------------------
(***************************************************************************)
(* The server's handlers.  A thread that is not busy with a SET reads the  *)
(* next request of its client.                                             *)
(***************************************************************************)

Polls(c, op) ==
    /\ up
    /\ job[c] = NoRequest
    /\ inbox[c].op = op

\* SendConfirmationMessage, send_dynamic_stream: the request is consumed.
Answer(c, m) ==
    /\ inbox' = [inbox EXCEPT ![c] = NoRequest]
    /\ reply' = [reply EXCEPT ![c] = m]

\* Handlers under operation_lock run to their end once they have it.
Locked == operation_lock = Nobody

SetRecord(k, s, n) ==
    /\ status' = [status EXCEPT ![k] = s]
    /\ n_open' = [n_open EXCEPT ![k] = n]

\* put_garbage_collector appends the key; a key may be there many times.
PutInGarbageCollector(k) == garbage' = [garbage EXCEPT ![k] = @ + 1]

\* delete_metadata_stat_worker frees the record and erases it from the map.
DeleteEntry(k) ==
    /\ SetRecord(k, "NONE", 0)
    /\ fate' = [fate EXCEPT ![k] = "removed"]

\* DIRTY, HierarchicalMapPutInGarbageCollector and then
\* HierarchicalMapDeleteEntry, in this order: the record is freed at once
\* and only its key stays behind, in the garbage vector.
Remove(k) ==
    /\ PutInGarbageCollector(k)
    /\ DeleteEntry(k)

\* Mutant of Revive: any record is made ATTACH again.
ReviveAny(k) ==
    /\ status' = [status EXCEPT ![k] = "ATTACH"]
    /\ UNCHANGED garbage

\* garbage_collector_pop erases one copy of the key, if there is one.
PopFromGarbageCollector(k) ==
    garbage' = [garbage EXCEPT ![k] = IF @ > 0 THEN @ - 1 ELSE @]

\* A DIRTY record that is opened or set again is ATTACH again and is taken
\* out of the garbage vector.
Revive(k) ==
    IF status[k] = "DIRTY"
    THEN PopFromGarbageCollector(k) /\ status' = [status EXCEPT ![k] = "ATTACH"]
    ELSE UNCHANGED <<status, garbage>>

\* The history of the opens that the server has counted.
Counted(k, c) ==
    /\ held' = [held EXCEPT ![k] = @ \cup {c}]
    /\ UNCHANGED miscounted

Closed(k, c) ==
    /\ held' = [held EXCEPT ![k] = @ \ {c}]
    /\ miscounted' = IF c \in held[k] THEN miscounted ELSE miscounted \cup {k}

\* HierarchicalMapListDir: the children of the directory.
ListDir == IF \E k \in Keys : Stored(k) THEN "LIST" ELSE "EMPTY_DIRECTORY"

\* GETDIR lists the children under the lock of the map only.
GETDIR(c) ==
    /\ Polls(c, "GETDIR")
    /\ Answer(c, ListDir)
    /\ UNCHANGED <<records, threads, unsent, payload, call, up>>

\* READ_OP; with operation = 1 the read is an open and is counted.
READ_OP(c, op) ==
    /\ Polls(c, op)
    /\ Locked
    /\ LET k == inbox[c].key
           readable == status[k] \notin {"NONE", "DIRTY"}
       IN  /\ Answer(c, IF readable THEN "DATASET" ELSE "NO_KEY")
           /\ n_open' = [n_open EXCEPT ![k] =
                            IF readable /\ op = "READ1" THEN @ + 1 ELSE @]
           /\ IF readable /\ op = "READ1" THEN Counted(k, c) ELSE UNCHANGED opens
    /\ UNCHANGED <<status, garbage, fate, threads, unsent, payload, call, up>>

\* Mutant of DELETE_OP: n_open is not looked at before the record is removed.
DELETE_OP_Open(c) ==
    /\ Polls(c, "DELETE")
    /\ Locked
    /\ LET k == inbox[c].key
       IN  IF Stored(k) THEN Remove(k) /\ Answer(c, "DELETE") /\ UNCHANGED opens
                        ELSE Answer(c, "NO_KEY") /\ UNCHANGED records
    /\ UNCHANGED <<threads, unsent, payload, call, up>>

\* Mutant of DELETE_OP: the removal is always left to the last close.
DELETE_OP_Later(c) ==
    /\ Polls(c, "DELETE")
    /\ Locked
    /\ LET k == inbox[c].key
       IN  IF Stored(k) THEN SetRecord(k, "DEST", n_open[k]) /\ Answer(c, "NODELETE")
                        ELSE Answer(c, "NO_KEY") /\ UNCHANGED <<status, n_open>>
    /\ UNCHANGED <<garbage, fate, opens, threads, unsent, payload, call, up>>

\* DELETE_OP with operation = 4 (unlink): marked for destruction, and
\* removed now if no process has the dataset open.
DELETE_OP(c) ==
    /\ Polls(c, "DELETE")
    /\ Locked
    /\ LET k == inbox[c].key
       IN  \/ /\ ~Stored(k)
              /\ Answer(c, "NO_KEY")
              /\ UNCHANGED records
           \/ /\ Stored(k) /\ n_open[k] = 0
              /\ Remove(k)
              /\ Answer(c, "DELETE")
              /\ UNCHANGED opens
           \/ /\ Stored(k) /\ n_open[k] # 0
              /\ SetRecord(k, "DEST", n_open[k])
              /\ Answer(c, "NODELETE")
              /\ UNCHANGED <<garbage, fate, opens>>
    /\ UNCHANGED <<threads, unsent, payload, call, up>>

\* Mutant of CLOSE_OP: n_open is decremented even when it is zero.
CLOSE_OP_Unguarded(c) ==
    /\ Polls(c, "CLOSE")
    /\ Locked
    /\ Stored(inbox[c].key)
    /\ SetRecord(inbox[c].key, status[inbox[c].key], n_open[inbox[c].key] - 1)
    /\ Closed(inbox[c].key, c)
    /\ Answer(c, "CLOSE")
    /\ UNCHANGED <<garbage, fate, threads, unsent, payload, call, up>>

\* CLOSE_OP: one opener less; the last close removes a dataset marked DEST.
CLOSE_OP(c) ==
    /\ Polls(c, "CLOSE")
    /\ Locked
    /\ LET k == inbox[c].key
           left == IF n_open[k] > 0 THEN n_open[k] - 1 ELSE n_open[k]
       IN  \/ /\ ~Stored(k)
              /\ Answer(c, "NO_KEY")
              /\ UNCHANGED records
           \/ /\ status[k] = "DEST" /\ left = 0
              /\ Remove(k)
              /\ Closed(k, c)
              /\ Answer(c, "DELETE")
           \/ /\ Stored(k) /\ ~(status[k] = "DEST" /\ left = 0)
              /\ SetRecord(k, status[k], left)
              /\ Closed(k, c)
              /\ Answer(c, "CLOSE")
              /\ UNCHANGED <<garbage, fate>>
    /\ UNCHANGED <<threads, unsent, payload, call, up>>

\* OPEN_OP: a DIRTY record comes back to life, any stored one is counted.
OPEN_OP(c) ==
    /\ Polls(c, "OPEN")
    /\ Locked
    /\ LET k == inbox[c].key
       IN  \/ /\ ~Stored(k)
              /\ Answer(c, "NO_KEY")
              /\ UNCHANGED records
           \/ /\ Stored(k)
              /\ Revive(k)
              /\ n_open' = [n_open EXCEPT ![k] = @ + 1]
              /\ Counted(k, c)
              /\ Answer(c, "OPEN")
              /\ UNCHANGED fate
    /\ UNCHANGED <<threads, unsent, payload, call, up>>

\* rename_data_srv_worker looks for '$' in every key of the directory.  A key
\* of the metadata server has none: substr throws and nothing catches it.
RenameAborts == \E k \in Keys : Stored(k)

\* RENAME_OP calls HierarchicalMapRenameRegularFile.  Only an empty directory
\* gives an answer; otherwise the process is aborted.
RENAME_OP(c) ==
    /\ Polls(c, "RENAME")
    /\ Locked
    /\ \/ /\ ~RenameAborts
          /\ Answer(c, "ERROR")
          /\ UNCHANGED up
       \/ /\ RenameAborts
          /\ up' = FALSE
          /\ inbox' = [inbox EXCEPT ![c] = NoRequest]
          /\ UNCHANGED reply
    /\ UNCHANGED <<records, threads, unsent, payload, call>>

\* Mutant of SET_Confirm: the request ends with its confirmation.
SET_ConfirmEnds(c) ==
    /\ \E op \in Sets : Polls(c, op)
    /\ Answer(c, "OK")
    /\ UNCHANGED <<records, threads, unsent, payload, call, up>>

\* SET_OP confirms the request before it does anything.
SET_Confirm(c) ==
    /\ \E op \in Sets : Polls(c, op)
    /\ Answer(c, "OK")
    /\ job' = [job EXCEPT ![c] = inbox[c]]
    /\ UNCHANGED <<records, operation_lock, found, unsent, payload, call, up>>

\* Mutant of SET_Lookup: a record marked DEST counts as absent.
SET_LookupLive(c) ==
    /\ up
    /\ job[c] # NoRequest
    /\ Locked
    /\ operation_lock' = c
    /\ found' = (status[job[c].key] = "ATTACH")
    /\ UNCHANGED <<records, job, inbox, unsent, payload, reply, call, up>>

\* It takes operation_lock, looks the key up and waits for the structure,
\* still holding the lock.
SET_Lookup(c) ==
    /\ up
    /\ job[c] # NoRequest
    /\ Locked
    /\ operation_lock' = c
    /\ found' = Stored(job[c].key)
    /\ IF Stored(job[c].key) THEN Revive(job[c].key)
                             ELSE UNCHANGED <<status, garbage>>
    /\ UNCHANGED <<n_open, fate, opens, job, inbox, unsent, payload, reply, call, up>>

\* Mutant of SET_Store: the branch that finds a record keeps the lock.
SET_StoreKeepsLock(c) ==
    /\ up
    /\ operation_lock = c /\ job[c] # NoRequest
    /\ payload[c] > 0
    /\ IF found THEN UNCHANGED <<status, n_open>>
                ELSE SetRecord(job[c].key, "ATTACH", 0)
    /\ UNCHANGED opens
    /\ payload' = [payload EXCEPT ![c] = @ - 1]
    /\ job' = [job EXCEPT ![c] = NoRequest]
    /\ operation_lock' = IF found THEN c ELSE Nobody
    /\ found' = FALSE
    /\ UNCHANGED <<garbage, fate, inbox, unsent, reply, call, up>>

\* The structure arrives.  If the lookup found no record it becomes the
\* record; otherwise only the intervals of the record are updated.
SET_Store(c) ==
    /\ up
    /\ operation_lock = c
    /\ payload[c] > 0
    /\ IF found THEN UNCHANGED <<status, n_open>>
                ELSE SetRecord(job[c].key, "ATTACH",
                               IF job[c].op = "SET1" THEN 1 ELSE 0)
    /\ IF ~found /\ job[c].op = "SET1" THEN Counted(job[c].key, c)
                                       ELSE UNCHANGED opens
    /\ payload' = [payload EXCEPT ![c] = @ - 1]
    /\ job' = [job EXCEPT ![c] = NoRequest]
    /\ operation_lock' = Nobody
    /\ found' = FALSE
    /\ UNCHANGED <<garbage, fate, inbox, unsent, reply, call, up>>

\* GarbageCollector and cleaning: the wait has no predicate, so a wake-up
\* nobody asked for runs a collection.  Every key of the vector loses its
\* record, whatever its status.  The collector does not take operation_lock:
\* it runs between the steps of a SET, but the other handlers are one step
\* also with respect to it.
CleanGarbageCollector ==
    /\ up
    /\ SpuriousWakeups
    /\ \E k \in Keys : garbage[k] > 0
    /\ status' = [k \in Keys |-> IF garbage[k] > 0 THEN "NONE" ELSE status[k]]
    /\ n_open' = [k \in Keys |-> IF garbage[k] > 0 THEN 0 ELSE n_open[k]]
    /\ garbage' = [k \in Keys |-> 0]
    /\ miscounted' = miscounted \cup {k \in Keys : garbage[k] > 0 /\ held[k] # {}}
    /\ UNCHANGED <<threads, inbox, unsent, payload, reply, call, up, fate, held>>

Handler(c) ==
    \/ GETDIR(c)
    \/ READ_OP(c, "READ")
    \/ READ_OP(c, "READ1")
    \/ DELETE_OP(c)
    \/ CLOSE_OP(c)
    \/ OPEN_OP(c)
    \/ RENAME_OP(c)
    \/ SET_Confirm(c)
    \/ SET_Lookup(c)
    \/ SET_Store(c)

Next ==
    \/ \E c \in Clients :
         \/ \E r \in Requests : Send(c, r)
         \/ SendStructure(c)
         \/ Receive(c)
         \/ Handler(c)
    \/ CleanGarbageCollector

Spec == Init /\ [][Next]_vars

\* Threads of the pool poll for ever, and a client sends the structure of its
\* create and waits for its answer, so these are weakly fair.  Taking
\* operation_lock is strongly fair: a thread blocked on the mutex does not
\* lose every race for it.
FairSpec ==
    /\ Spec
    /\ \A c \in Clients : /\ WF_vars(SendStructure(c))
                          /\ WF_vars(Receive(c))
                          /\ SF_vars(Handler(c))

-----------------------------------------------------------------------------
\* The type of every variable; CLOSE_OP never makes n_open negative.
TypeOK ==
    /\ status \in [Keys -> Statuses]
    /\ n_open \in [Keys -> Nat]
    /\ garbage \in [Keys -> Nat]
    /\ operation_lock \in Clients \cup {Nobody}
    /\ found \in BOOLEAN
    /\ job \in [Clients -> Requests \cup {NoRequest}]
    /\ inbox \in [Clients -> Requests \cup {NoRequest}]
    /\ unsent \subseteq Clients
    /\ payload \in [Clients -> Nat]
    /\ reply \in [Clients -> Answers \cup {"none"}]
    /\ call \in [Clients -> Requests \cup {NoRequest}]
    /\ up \in BOOLEAN
    /\ fate \in [Keys -> {"new", "created", "removed"}]
    /\ held \in [Keys -> SUBSET Clients]
    /\ miscounted \subseteq Keys

\* DELETE_OP marks a dataset DEST only to let its openers finish: a record
\* marked DEST always has an opener left, whose close will remove it.
DestHasOpener == \A k \in Keys : status[k] = "DEST" => n_open[k] > 0

\* n_open stands for "how many process has the file open": a dataset whose
\* open was counted stays until its opener closes it, whoever else unlinks,
\* closes or creates it.  Not so for a dataset that was closed by a client the
\* server had not counted (a SET1 that finds a record counts nobody, and
\* generalOpen gives a descriptor when imss_open fails), nor for one that a
\* collection took away because its key was still in the garbage vector.
HeldIsStored == \A k \in Keys \ miscounted : held[k] # {} => Stored(k)

\* Unlinking is irrevocable: while the record stays, DEST never turns back
\* into ATTACH, not even if another client opens or creates the dataset.
DestIsFinal ==
    [][\A k \in Keys : status[k] = "DEST" => status'[k] \in {"DEST", "NONE"}]_vars

\* A SET decides to insert before it waits for the structure; when it comes
\* to insert, the key is still absent, so no record is ever overwritten by
\* the create of another client.
InsertsOnlyIfAbsent ==
    operation_lock # Nobody =>
      /\ job[operation_lock] # NoRequest
      /\ ~found => ~Stored(job[operation_lock].key)

\* SET_OP answers first, but it answers for good: once a create has returned,
\* and until somebody removes the dataset, the record is stored or a thread
\* is still on its way to store it.
Coming(k) == \E c \in Clients : job[c] # NoRequest /\ job[c].key = k
CreatedIsComing == \A k \in Keys : fate[k] = "created" => Stored(k) \/ Coming(k)

\* Every call of a client returns: no request is left without an answer,
\* whatever the other clients do with operation_lock.
EveryCallReturns ==
    \A c \in Clients : call[c] # NoRequest ~> call[c] = NoRequest

\* create_dataset returns when it has "ack from the server": from then on
\* and until somebody removes it, any client finds the dataset.
CreatedIsVisible == \A k \in Keys : fate[k] = "created" => Stored(k)

=============================================================================

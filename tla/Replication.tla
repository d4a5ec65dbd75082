---------------------------- MODULE Replication -----------------------------
(***************************************************************************)
(* Client processes writing and reading blocks on several data servers:    *)
(* set_data, get_ndata and get_data_location (src/imss.c), and what        *)
(* srv_worker_helper (src/workers.c) answers.  BlockStore models the       *)
(* inside of one server; here a server handles a request in one step.      *)
(*                                                                         *)
(* The threads of a process share curr_dataset, the lock lock_network and  *)
(* one UCX tag: a thread that waits takes the first message for its        *)
(* process, whoever sent it and whatever it answers.                       *)
(***************************************************************************)
EXTENDS Placement, Sequences, FiniteSets

CONSTANTS Threads,
          process,             \* the process of a thread
          FilesOf,             \* the files a thread works on
          Writers,             \* the threads that call set_data
          Files, Blocks,
          crc16,               \* crc16 of a file's name
          hash,                \* the hash of a block's key
          Garbage,             \* checksums uninitialised memory may have
          policy,              \* POLICY
          ASYNC_IO,            \* TRUE for ASYNC
          matching_server_id,  \* the server on the node of a process, or -1
          NoData,              \* no block, or the answer NO_KEY_AVAIL
          NoCall,              \* the call of a thread that is in none
          MSG_OK_OP,           \* the confirmation of a server
          Undefined,           \* what fresh shared memory holds
          MaxWrites,           \* bound on the calls of set_data
          MaxReads             \* bound on the calls of get_ndata

Processes == {process[t] : t \in Threads}

ASSUME ThreadsAssumption ==
    /\ Writers \subseteq Threads
    /\ FilesOf \in [Threads -> SUBSET Files]
ASSUME NamesAssumption ==
    /\ Blocks \subseteq Nat /\ Garbage \subseteq Nat /\ Garbage # {}
    /\ crc16 \in [Files -> Nat]
    /\ hash \in [Files \X Blocks -> Nat]
ASSUME DeploymentAssumption ==
    /\ policy \in {"RR", "HASH", "CRC16b", "CRC64b", "LOCAL", "ZCOPY"}
    /\ ASYNC_IO \in BOOLEAN
    /\ matching_server_id \in [Processes -> Servers \cup {-1}]
    /\ MaxWrites \in Nat /\ MaxReads \in Nat

VARIABLES
    stored,        \* stored[s][k]: the block k on server s, or NoData
    requests,      \* requests[p][s]: sent by p and not yet read by s
    inbox,         \* inbox[p]: the messages that carry p's tag
    shm,           \* shm[p]: the shared memory p waits to see filled
    curr_dataset,  \* curr_dataset[p]: a file, global to the process
    lock_network,  \* lock_network[p]: the thread that holds it, or NoCall
    call,          \* call[t]: the operation a thread carries out, or NoCall
    result,        \* result[t]: what its last call returned
    writes, reads, \* the calls made so far
    took, window   \* history: see BlockRegister

servers == <<stored, requests>>
history == <<took, window>>
vars == <<servers, inbox, shm, curr_dataset, lock_network, call, result,
          writes, reads, history>>

Keys == Files \X Blocks
Values == [file : Files, n : 1 .. MaxWrites]
UseShm == policy \in {"LOCAL", "ZCOPY"}

Init ==
    /\ stored = [s \in Servers |-> [k \in Keys |-> NoData]]
    /\ requests = [p \in Processes |-> [s \in Servers |-> <<>>]]
    /\ inbox = [p \in Processes |-> <<>>]
    /\ shm = [p \in Processes |-> Undefined]
    /\ curr_dataset = [p \in Processes |-> NoCall]
    /\ lock_network = [p \in Processes |-> NoCall]
    /\ call = [t \in Threads |-> NoCall]
    /\ result = [t \in Threads |-> NoCall]
    /\ writes = 0
    /\ reads = 0
    /\ took = [t \in Threads |-> FALSE]
    /\ window = [t \in Threads |-> {}]

-----------------------------------------------------------------------------
At(t, pc) == call[t] # NoCall /\ call[t].pc = pc
IsSet(t) == call[t].op = "SET"

\* The server the block of a file is looked for on.
Location(f, b, g) ==
    find_server(num_storages, b, crc16[f], hash[<<f, b>>], g, policy)

\* The first server that set_data writes and get_ndata asks.
Primary(k) == Location(k[1], k[2], 0)
HomeOf(k) == {ReplicaServer(Primary(k), i) : i \in Replicas}

\* A call starts and get_data_location makes the file the current one.
Start(t, op, f, b) ==
    LET v == IF op = "SET" THEN [file |-> f, n |-> writes + 1] ELSE NoData
    IN  /\ call[t] = NoCall
        /\ call' = [call EXCEPT ![t] = [op |-> op, key |-> <<f, b>>, value |-> v,
                                        pc |-> "find", n_server |-> 0, i |-> 0]]
        /\ curr_dataset' = [curr_dataset EXCEPT ![process[t]] = f]
        /\ window' = [window EXCEPT ![t] = IF op = "GET"
                                           THEN {stored[Primary(<<f, b>>)][<<f, b>>]}
                                           ELSE {}]
        /\ UNCHANGED <<servers, inbox, shm, lock_network, result, took>>

set_data(t, f, b) ==
    /\ t \in Writers /\ writes < MaxWrites
    /\ writes' = writes + 1
    /\ Start(t, "SET", f, b)
    /\ UNCHANGED reads

get_ndata(t, f, b) ==
    /\ reads < MaxReads
    /\ reads' = reads + 1
    /\ Start(t, "GET", f, b)
    /\ UNCHANGED writes

\* Mutant of get_data_location: a server number that is not reduced.
get_data_locationUnreduced(t, g) ==
    /\ At(t, "find")
    /\ call' = [call EXCEPT ![t].pc = "lock",
                            ![t].n_server = g + crc16[curr_dataset[process[t]]]
                                              + call[t].key[2]]
    /\ UNCHANGED <<servers, inbox, shm, curr_dataset, lock_network, result,
                   writes, reads, history>>

\* The end of get_data_location: find_server for whatever file is current.
get_data_location(t, g) ==
    /\ At(t, "find")
    /\ call' = [call EXCEPT ![t].pc = "lock",
                            ![t].n_server = Location(curr_dataset[process[t]],
                                                     call[t].key[2], g)]
    /\ UNCHANGED <<servers, inbox, shm, curr_dataset, lock_network, result,
                   writes, reads, history>>

Lock(t) ==
    /\ At(t, "lock")
    /\ lock_network[process[t]] = NoCall
    /\ lock_network' = [lock_network EXCEPT ![process[t]] = t]
    /\ call' = [call EXCEPT ![t].pc = "send"]
    /\ UNCHANGED <<servers, inbox, shm, curr_dataset, result, writes, reads, history>>

\* set_data compares the number of the replica with the server of its node,
\* get_ndata compares the server.
use_local(t) ==
    /\ UseShm
    /\ matching_server_id[process[t]] =
           IF IsSet(t) THEN call[t].i ELSE ReplicaServer(call[t].n_server, call[t].i)

\* The key carries the uri of the current dataset, read under the lock.
Request(t) ==
    [op |-> call[t].op, local |-> use_local(t), thread |-> t, value |-> call[t].value,
     key |-> <<curr_dataset[process[t]], call[t].key[2]>>]

\* Mutant of NextServer: the replicas are written from the last to the
\* first, and still read from the first.
NextServerReversed(t) ==
    ReplicaServer(call[t].n_server,
                  IF IsSet(t) THEN repl_factor - 1 - call[t].i ELSE call[t].i)

\* Mutant of NextServer: set_data counts the replicas from one.
NextServerFromOne(t) ==
    ReplicaServer(call[t].n_server, IF IsSet(t) THEN call[t].i + 1 ELSE call[t].i)

\* n_server_: the server of the replica the loop is at.
NextServer(t) == ReplicaServer(call[t].n_server, call[t].i)

\* Mutant of AfterSend: the write does not wait for its confirmation.
AfterSendAlwaysAsync(t) ==
    IF IsSet(t)
    THEN call' = [call EXCEPT ![t].i = @ + 1]
    ELSE call' = [call EXCEPT ![t].pc = "wait"]

\* An asynchronous write goes on to the next replica; nothing ever reads its
\* confirmation.  Everything else waits.
AfterSend(t) ==
    IF IsSet(t) /\ ASYNC_IO /\ ~use_local(t)
    THEN call' = [call EXCEPT ![t].i = @ + 1]
    ELSE call' = [call EXCEPT ![t].pc = "wait"]

\* The body of the loop over the replicas, up to the wait for the answer.
Send(t) ==
    LET p == process[t]
    IN  /\ At(t, "send")
        /\ call[t].i < repl_factor
        /\ requests' = [requests EXCEPT ![p][NextServer(t)] = Append(@, Request(t))]
        /\ shm' = IF ~IsSet(t) /\ use_local(t)
                  THEN [shm EXCEPT ![p] = Undefined] ELSE shm
        /\ AfterSend(t)
        /\ UNCHANGED <<stored, inbox, curr_dataset, lock_network, result, writes,
                       reads, history>>

\* Mutant of Return: an exit that forgets pthread_mutex_unlock.
ReturnKeepsLock(t, r) ==
    /\ result' = [result EXCEPT ![t] = r]
    /\ call' = [call EXCEPT ![t] = NoCall]
    /\ took' = [took EXCEPT ![t] = FALSE]
    /\ window' = [window EXCEPT ![t] = {}]
    /\ UNCHANGED lock_network

\* The exits of set_data and get_ndata once they hold the lock, but one: when
\* shmget fails for the shared memory of a local read (shm_id is -1), get_ndata
\* returns -2 and keeps the lock.  The model has no failing shmget.
Return(t, r) ==
    /\ result' = [result EXCEPT ![t] = r]
    /\ call' = [call EXCEPT ![t] = NoCall]
    /\ lock_network' = [lock_network EXCEPT ![process[t]] = NoCall]
    /\ took' = [took EXCEPT ![t] = FALSE]
    /\ window' = [window EXCEPT ![t] = {}]

NextReplica(t) ==
    /\ call' = [call EXCEPT ![t].pc = "send", ![t].i = @ + 1]
    /\ UNCHANGED <<lock_network, result, history>>

\* The loop is over: every copy was written, or no server has the block.
LoopEnd(t) ==
    /\ At(t, "send")
    /\ call[t].i = repl_factor
    /\ Return(t, IF IsSet(t) THEN MSG_OK_OP ELSE NoData)
    /\ UNCHANGED <<servers, inbox, shm, curr_dataset, writes, reads>>

\* Mutant of ReceiveSet: one confirmation is enough.
ReceiveSetFirstOnly(t) == Return(t, MSG_OK_OP)

\* set_data: any message is a confirmation (it would return on
\* NO_SPACE_LEFT, which BlockStore shows no server sends).
ReceiveSet(t) == NextReplica(t)

\* get_ndata: anything but NO_KEY_AVAIL is the block, or says that it is in
\* the shared memory.
ReceiveGet(t, m) ==
    IF m = NoData THEN NextReplica(t)
                  ELSE Return(t, IF use_local(t) THEN shm[process[t]] ELSE m)

\* get_recv_data_length and recv_data: the first message with the tag.
Receive(t) ==
    LET p == process[t]
        m == Head(inbox[p])
    IN  /\ At(t, "wait")
        /\ inbox[p] # <<>>
        /\ inbox' = [inbox EXCEPT ![p] = Tail(@)]
        /\ IF IsSet(t) THEN ReceiveSet(t) ELSE ReceiveGet(t, m)
        /\ UNCHANGED <<servers, shm, curr_dataset, writes, reads>>

-----------------------------------------------------------------------------
Answer(p, ms) == inbox' = [inbox EXCEPT ![p] = @ \o ms]

\* A block is stored; on its first server, that is when the write of a
\* register takes effect.
Store(s, r) ==
    /\ stored' = [stored EXCEPT ![s][r.key] = r.value]
    /\ IF s = Primary(r.key)
       THEN /\ took' = [took EXCEPT ![r.thread] = TRUE]
            /\ window' = [u \in Threads |->
                            IF call[u] # NoCall /\ ~IsSet(u) /\ call[u].key = r.key
                            THEN window[u] \cup {r.value} ELSE window[u]]
       ELSE UNCHANGED history

Dequeue(p, s) == requests' = [requests EXCEPT ![p][s] = Tail(@)]

HasRequest(p, s, op, local) ==
    /\ requests[p][s] # <<>>
    /\ Head(requests[p][s]).op = op
    /\ Head(requests[p][s]).local = local

ServerStep == UNCHANGED <<curr_dataset, lock_network, call, result, writes, reads>>

\* GET
READ_OP(p, s) ==
    /\ HasRequest(p, s, "GET", FALSE)
    /\ Answer(p, <<stored[s][Head(requests[p][s]).key]>>)
    /\ Dequeue(p, s)
    /\ ServerStep
    /\ UNCHANGED <<stored, shm, history>>

\* LOCALGETBLOCK: the block goes to the shared memory, the answer is OK.
READ_OP_shm(p, s) ==
    /\ HasRequest(p, s, "GET", TRUE)
    /\ LET v == stored[s][Head(requests[p][s]).key]
       IN  IF v = NoData THEN Answer(p, <<NoData>>) /\ UNCHANGED shm
                         ELSE /\ shm' = [shm EXCEPT ![p] = v]
                              /\ Answer(p, <<MSG_OK_OP>>)
    /\ Dequeue(p, s)
    /\ ServerStep
    /\ UNCHANGED <<stored, history>>

\* SET
WRITE_OP(p, s) ==
    /\ HasRequest(p, s, "SET", FALSE)
    /\ Store(s, Head(requests[p][s]))
    /\ Answer(p, <<MSG_OK_OP>>)
    /\ Dequeue(p, s)
    /\ ServerStep
    /\ UNCHANGED shm

SameNode(p, s) == matching_server_id[p] = s

\* LOCALSETBLOCK of a stored block: the server confirms twice.  The value is
\* what the shared memory holds when the server copies it; the client fills
\* that memory before the request, so the request stands for it.
WRITE_OP_shm(p, s) ==
    /\ HasRequest(p, s, "SET", TRUE)
    /\ SameNode(p, s)
    /\ stored[s][Head(requests[p][s]).key] # NoData
    /\ Store(s, Head(requests[p][s]))
    /\ Answer(p, <<MSG_OK_OP, MSG_OK_OP>>)
    /\ Dequeue(p, s)
    /\ ServerStep
    /\ UNCHANGED shm

\* LOCALSETBLOCK of a new block: the server confirms once it has attached
\* the shared memory, and copies and stores the block afterwards.
WRITE_OP_shm_Attach(p, s) ==
    /\ HasRequest(p, s, "SET", TRUE)
    /\ SameNode(p, s)
    /\ stored[s][Head(requests[p][s]).key] = NoData
    /\ Answer(p, <<MSG_OK_OP>>)
    /\ requests' = [requests EXCEPT ![p][s] = <<[Head(@) EXCEPT !.op = "COPY"]>> \o Tail(@)]
    /\ ServerStep
    /\ UNCHANGED <<stored, shm, history>>

WRITE_OP_shm_Copy(p, s) ==
    /\ HasRequest(p, s, "COPY", TRUE)
    /\ Store(s, Head(requests[p][s]))
    /\ Answer(p, <<MSG_OK_OP>>)
    /\ Dequeue(p, s)
    /\ ServerStep
    /\ UNCHANGED shm

\* LOCALSETBLOCK on another node: shmat fails and there is no answer.
WRITE_OP_shm_Fails(p, s) ==
    /\ HasRequest(p, s, "SET", TRUE)
    /\ ~SameNode(p, s)
    /\ Dequeue(p, s)
    /\ ServerStep
    /\ UNCHANGED <<stored, inbox, shm, history>>

-----------------------------------------------------------------------------
\* The program goes on inside the library.
ClientStep(t) ==
    \/ \E g \in IF policy \in {"CRC16b", "CRC64b"} THEN Garbage ELSE {0} :
           get_data_location(t, g)
    \/ Lock(t)
    \/ Send(t)
    \/ LoopEnd(t)
    \/ Receive(t)

Serve(p, s) ==
    \/ READ_OP(p, s)
    \/ READ_OP_shm(p, s)
    \/ WRITE_OP(p, s)
    \/ WRITE_OP_shm(p, s)
    \/ WRITE_OP_shm_Attach(p, s)
    \/ WRITE_OP_shm_Copy(p, s)
    \/ WRITE_OP_shm_Fails(p, s)

Next ==
    \/ \E t \in Threads : \E f \in FilesOf[t], b \in Blocks :
           set_data(t, f, b) \/ get_ndata(t, f, b)
    \/ \E t \in Threads : ClientStep(t)
    \/ \E p \in Processes, s \in Servers : Serve(p, s)

Spec == Init /\ [][Next]_vars

\* Threads that can run do, and servers read the requests they were sent.
FairSpec ==
    /\ Spec
    /\ \A t \in Threads : WF_vars(ClientStep(t))
    /\ \A p \in Processes, s \in Servers : WF_vars(Serve(p, s))

-----------------------------------------------------------------------------
Ops == {"SET", "GET"}
Messages == Values \cup {NoData, MSG_OK_OP}
Calls == [op : Ops, key : Keys, value : Values \cup {NoData}, n_server : Servers,
          i : 0 .. repl_factor, pc : {"find", "lock", "send", "wait"}]
Requests == [op : Ops \cup {"COPY"}, local : BOOLEAN, thread : Threads, key : Keys,
             value : Values \cup {NoData}]

\* The type of every variable; the first conjunct says that set_data and
\* get_ndata never compute a server that does not exist.
TypeOK ==
    /\ call \in [Threads -> Calls \cup {NoCall}]
    /\ stored \in [Servers -> [Keys -> Values \cup {NoData}]]
    /\ \A p \in Processes, s \in Servers : requests[p][s] \in Seq(Requests)
    /\ \A p \in Processes : inbox[p] \in Seq(Messages)
    /\ shm \in [Processes -> Values \cup {Undefined}]
    /\ curr_dataset \in [Processes -> Files \cup {NoCall}]
    /\ lock_network \in [Processes -> Threads \cup {NoCall}]
    /\ result \in [Threads -> Messages \cup {NoCall, Undefined}]
    /\ writes \in 0 .. MaxWrites /\ reads \in 0 .. MaxReads
    /\ took \in [Threads -> BOOLEAN]
    /\ window \in [Threads -> SUBSET (Values \cup {NoData})]

\* What p has been sent or will be sent as an answer and has not received.
Pending(p) ==
    Len(inbox[p])
    + Cardinality({r \in Servers \X (1 .. MaxWrites + MaxReads) :
                       r[2] <= Len(requests[p][r[1]])})

Waiting(p) == {t \in Threads : process[t] = p /\ At(t, "wait")}

\* A message is matched to a request only because there is one at a time:
\* a process has as many answers to come as threads that wait for one, at
\* most one, and the answer is of the kind that this thread asked for
\* (get_recv_data_length and recv_data match on the tag alone).
AnswersMatch ==
    \A p \in Processes :
        /\ Pending(p) = Cardinality(Waiting(p))
        /\ Cardinality(Waiting(p)) <= 1
        /\ \A t \in Waiting(p) :
               inbox[p] # <<>> => (Head(inbox[p]) = MSG_OK_OP) = IsSet(t)

\* A server holds a block only if get_ndata may ask it for that block, and
\* what it holds was written to that file (placement in set_data and
\* get_ndata agree).
StoredAtHome ==
    \A s \in Servers, k \in Keys :
        stored[s][k] # NoData => s \in HomeOf(k) /\ stored[s][k].file = k[1]

\* When no set_data of a block is under way, the block is on all of its
\* servers or on none: a set_data that has returned has left every copy that
\* get_ndata may need, whoever else was writing the block.
ReplicasComplete ==
    \A k \in Keys :
        (\A t \in Threads : call[t] # NoCall /\ IsSet(t) => call[t].key # k)
            => \A s, r \in HomeOf(k) : stored[s][k] = NoData => stored[r][k] = NoData

Register == INSTANCE BlockRegister
    WITH block <- [k \in Keys |-> stored[Primary(k)][k]],
         call <- [t \in Threads |->
                    IF call[t] = NoCall THEN NoCall
                    ELSE [op |-> call[t].op, key |-> call[t].key,
                          value |-> call[t].value]],
         Values <- Values \cup {NoData}

\* set_data and get_ndata make each block a register: a write takes effect
\* when its first server stores it, and a read returns what the first server
\* had at some moment of the call, also when another replica answers it.
RegisterSpec == Register!Spec

\* Every call of set_data and get_ndata returns.
CallsReturn == \A t \in Threads : (call[t] # NoCall) ~> (call[t] = NoCall)
=============================================================================

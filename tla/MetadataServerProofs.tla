------------------------ MODULE MetadataServerProofs ------------------------
(***************************************************************************)
(* Safety of MetadataServer for any sets of datasets and clients, any      *)
(* bounds and with or without spurious wake-ups.                           *)
(***************************************************************************)
EXTENDS MetadataServer, FiniteSetTheorems, TLAPS

\* DIRTY is written to a record that is freed in the same critical section.
DirtyIsNeverStored == \A k \in Keys : status[k] # "DIRTY"

\* The inductive invariant: types, no DIRTY record, every DEST record has an
\* opener, and the SET that holds operation_lock inserts an absent key.
IInv ==
    /\ TypeOK
    /\ DestHasOpener
    /\ DirtyIsNeverStored
    /\ InsertsOnlyIfAbsent

\* A request that a thread has read with one of the protocol's operations is
\* a request, not the empty slot, so its key is a dataset.
LEMMA PolledKey ==
    ASSUME TypeOK, NEW c \in Clients, NEW op, op # "NOP", Polls(c, op)
    PROVE  inbox[c] \in Requests /\ inbox[c].key \in Keys
BY DEF TypeOK, Polls, Requests, NoRequest

\* Initially nothing is stored and nobody holds operation_lock.
LEMMA InitIInv == Init => IInv
<1> SUFFICES ASSUME Init PROVE IInv
  BY Zenon
<1>1. TypeOK
  BY Zenon DEF Init, TypeOK, Statuses
<1>2. DestHasOpener /\ DirtyIsNeverStored
  BY Zenon DEF Init, DestHasOpener, DirtyIsNeverStored
<1>3. InsertsOnlyIfAbsent
  BY Zenon DEF Init, InsertsOnlyIfAbsent
<1> QED
  BY <1>1, <1>2, <1>3, Zenon DEF IInv

\* Each action preserves the types.
LEMMA TypeStep == TypeOK /\ [Next]_vars => TypeOK'
<1> SUFFICES ASSUME TypeOK, [Next]_vars PROVE TypeOK'
  BY Zenon
<1> USE DEF opens
<1>1. ASSUME NEW c \in Clients, NEW r \in Requests, Send(c, r) PROVE TypeOK'
  BY <1>1, Zenon DEF TypeOK, Send, records, opens, threads
<1>2. ASSUME NEW c \in Clients, SendStructure(c) \/ Receive(c) PROVE TypeOK'
  <2>1. CASE SendStructure(c)
    BY <2>1 DEF TypeOK, SendStructure, records, opens, threads
  <2>2. CASE Receive(c)
    BY <2>2, Zenon DEF TypeOK, Receive, opens, threads
  <2> QED
    BY <1>2, <2>1, <2>2, Zenon
<1>3. ASSUME NEW c \in Clients, GETDIR(c) PROVE TypeOK'
  BY <1>3, Zenon DEF TypeOK, GETDIR, ListDir, Answer, Answers, records, threads
<1>4. ASSUME NEW c \in Clients, NEW op \in {"READ", "READ1"}, READ_OP(c, op)
      PROVE  TypeOK'
  BY <1>4, PolledKey DEF TypeOK, READ_OP, Counted, Answer, Answers, threads
<1>5. ASSUME NEW c \in Clients, DELETE_OP(c) PROVE TypeOK'
  <2> DEFINE k == inbox[c].key
  <2>1. k \in Keys
    BY <1>5, PolledKey, Zenon DEF DELETE_OP
  <2> QED
    BY <1>5, <2>1 DEF TypeOK, DELETE_OP, Remove, PutInGarbageCollector,
                      DeleteEntry, SetRecord, Answer, Answers,
                      Statuses, records, threads
<1>6. ASSUME NEW c \in Clients, CLOSE_OP(c) PROVE TypeOK'
  <2> DEFINE k == inbox[c].key
  <2>1. k \in Keys
    BY <1>6, PolledKey, Zenon DEF CLOSE_OP
  <2>2. UNCHANGED opens \/ Closed(k, c)
    BY <1>6, Zenon DEF CLOSE_OP, records
  <2>3. held' \in [Keys -> SUBSET Clients] /\ miscounted' \subseteq Keys
    BY <2>1, <2>2 DEF TypeOK, Closed
  <2>4. /\ status' \in [Keys -> Statuses] /\ n_open' \in [Keys -> Nat]
        /\ garbage' \in [Keys -> Nat]
        /\ fate' \in [Keys -> {"new", "created", "removed"}]
    BY <1>6, <2>1 DEF TypeOK, CLOSE_OP, Remove, PutInGarbageCollector,
                      DeleteEntry, SetRecord, Statuses, records
  <2>5. \E m \in Answers : Answer(c, m)
    BY <1>6, Zenon DEF CLOSE_OP, Answers
  <2> QED
    BY <1>6, <2>3, <2>4, <2>5 DEF TypeOK, CLOSE_OP, Answer, threads
<1>7. ASSUME NEW c \in Clients, OPEN_OP(c) PROVE TypeOK'
  <2> DEFINE k == inbox[c].key
  <2>1. k \in Keys
    BY <1>7, PolledKey, Zenon DEF OPEN_OP
  <2> QED
    BY <1>7, <2>1 DEF TypeOK, OPEN_OP, Counted, Revive, PopFromGarbageCollector, Answer, Answers, Statuses,
                      records, threads
<1>8. ASSUME NEW c \in Clients, RENAME_OP(c) PROVE TypeOK'
  BY <1>8, ZenonT(30) DEF TypeOK, RENAME_OP, Answer, Answers, records, threads
<1>9. ASSUME NEW c \in Clients, SET_Confirm(c) PROVE TypeOK'
  BY <1>9, Zenon DEF TypeOK, SET_Confirm, Answer, Answers, records
<1>10. ASSUME NEW c \in Clients, SET_Lookup(c) PROVE TypeOK'
  <2>1. job[c].key \in Keys
    BY <1>10, Zenon DEF TypeOK, SET_Lookup, Requests
  <2> QED
    BY <1>10, <2>1 DEF TypeOK, SET_Lookup, Revive, PopFromGarbageCollector, Statuses, Stored
<1>11. ASSUME NEW c \in Clients, SET_Store(c) PROVE TypeOK'
  <2>1. payload' \in [Clients -> Nat]
    BY <1>11 DEF TypeOK, SET_Store
  <2>2. status' \in [Keys -> Statuses] /\ n_open' \in [Keys -> Nat]
    <3>1. CASE found
      BY <1>11, <3>1, Zenon DEF TypeOK, SET_Store
    <3>2. CASE ~found
      <4>1. "ATTACH" \in Statuses /\ (IF job[c].op = "SET1" THEN 1 ELSE 0) \in Nat
        BY Zenon DEF Statuses
      <4> QED
        BY <1>11, <3>2, <4>1, Zenon DEF TypeOK, SET_Store, SetRecord
    <3> QED
      BY <3>1, <3>2, Zenon
  <2>3. job' \in [Clients -> Requests \cup {NoRequest}]
    BY <1>11, Zenon DEF TypeOK, SET_Store
  <2>4. held' \in [Keys -> SUBSET Clients] /\ miscounted' \subseteq Keys
    BY <1>11 DEF TypeOK, SET_Store, Counted
  <2> QED
    BY <1>11, <2>1, <2>2, <2>3, <2>4, Zenon DEF TypeOK, SET_Store
<1>12. ASSUME CleanGarbageCollector PROVE TypeOK'
  BY <1>12, Zenon DEF TypeOK, CleanGarbageCollector, Statuses, threads
<1>13. ASSUME UNCHANGED vars PROVE TypeOK'
  BY <1>13, Zenon DEF TypeOK, vars
<1> QED
  BY <1>1, <1>2, <1>3, <1>4, <1>5, <1>6, <1>7, <1>8, <1>9, <1>10, <1>11,
     <1>12, <1>13, Zenon DEF Next, Handler

\* A DEST record keeps an opener and no record is left DIRTY: DELETE_OP marks
\* only what is open, CLOSE_OP removes what it closes last.
LEMMA RecordStep ==
    IInv /\ [Next]_vars => DestHasOpener' /\ DirtyIsNeverStored'
<1> SUFFICES ASSUME IInv, [Next]_vars
             PROVE  DestHasOpener' /\ DirtyIsNeverStored'
  BY Zenon
<1> USE DEF IInv, DestHasOpener, DirtyIsNeverStored
<1>1. ASSUME UNCHANGED <<status, n_open>>
      PROVE  DestHasOpener' /\ DirtyIsNeverStored'
  BY <1>1, Zenon
<1>2. ASSUME NEW c \in Clients, NEW op \in {"READ", "READ1"}, READ_OP(c, op)
      PROVE  DestHasOpener' /\ DirtyIsNeverStored'
  BY <1>2 DEF TypeOK, READ_OP
<1>3. ASSUME NEW c \in Clients, DELETE_OP(c)
      PROVE  DestHasOpener' /\ DirtyIsNeverStored'
  <2>1. inbox[c].key \in Keys
    BY <1>3, PolledKey, Zenon DEF DELETE_OP
  <2> QED
    BY <1>3, <2>1 DEF TypeOK, DELETE_OP, Remove, PutInGarbageCollector,
                      DeleteEntry, SetRecord, records
<1>4. ASSUME NEW c \in Clients, CLOSE_OP(c)
      PROVE  DestHasOpener' /\ DirtyIsNeverStored'
  <2>1. inbox[c].key \in Keys
    BY <1>4, PolledKey, Zenon DEF CLOSE_OP
  <2> QED
    BY <1>4, <2>1 DEF TypeOK, CLOSE_OP, Remove, PutInGarbageCollector,
                      DeleteEntry, SetRecord, records
<1>5. ASSUME NEW c \in Clients, OPEN_OP(c)
      PROVE  DestHasOpener' /\ DirtyIsNeverStored'
  <2>1. inbox[c].key \in Keys
    BY <1>5, PolledKey, Zenon DEF OPEN_OP
  <2> QED
    BY <1>5, <2>1 DEF TypeOK, OPEN_OP, Revive, PopFromGarbageCollector, records
<1>6. ASSUME NEW c \in Clients, SET_Lookup(c)
      PROVE  DestHasOpener' /\ DirtyIsNeverStored'
  BY <1>6, Zenon DEF TypeOK, SET_Lookup, Revive, PopFromGarbageCollector
<1>7. ASSUME NEW c \in Clients, SET_Store(c)
      PROVE  DestHasOpener' /\ DirtyIsNeverStored'
  BY <1>7, Zenon DEF TypeOK, SET_Store, SetRecord
<1>8. ASSUME CleanGarbageCollector
      PROVE  DestHasOpener' /\ DirtyIsNeverStored'
  BY <1>8, Zenon DEF TypeOK, CleanGarbageCollector
<1>9. ASSUME NEW c \in Clients,
             (\E r \in Requests : Send(c, r)) \/ SendStructure(c)
               \/ Receive(c) \/ GETDIR(c)
               \/ RENAME_OP(c) \/ SET_Confirm(c)
      PROVE  UNCHANGED <<status, n_open>>
  BY <1>9, Zenon DEF Send, SendStructure, Receive, GETDIR, RENAME_OP, SET_Confirm, records
<1>10. ASSUME UNCHANGED vars PROVE UNCHANGED <<status, n_open>>
  BY <1>10, Zenon DEF vars
<1> QED
  BY <1>1, <1>2, <1>3, <1>4, <1>5, <1>6, <1>7, <1>8, <1>9, <1>10, Zenon
     DEF Next, Handler

\* While a SET holds operation_lock no other thread inserts a record: the
\* others wait for the lock, or only confirm their own SET; the collector
\* only removes records.
LEMMA InsertionStep == IInv /\ [Next]_vars => InsertsOnlyIfAbsent'
<1> SUFFICES ASSUME IInv, [Next]_vars PROVE InsertsOnlyIfAbsent'
  BY Zenon
<1> USE DEF IInv, InsertsOnlyIfAbsent
<1>1. ASSUME UNCHANGED <<operation_lock, found, job, status>>
      PROVE  InsertsOnlyIfAbsent'
  BY <1>1, Zenon DEF Stored
<1>2. ASSUME Locked, UNCHANGED operation_lock PROVE InsertsOnlyIfAbsent'
  BY <1>2, Zenon DEF Locked
<1>3. ASSUME NEW c \in Clients, SET_Confirm(c) PROVE InsertsOnlyIfAbsent'
  <2>1. job[c] = NoRequest
    BY <1>3, Zenon DEF SET_Confirm, Polls
  <2>2. CASE operation_lock # Nobody
    <3>1. operation_lock # c
      BY <2>1, <2>2, Zenon
    <3>2. job'[operation_lock] = job[operation_lock]
      BY <1>3, <3>1 DEF SET_Confirm, TypeOK
    <3> QED
      BY <1>3, <2>2, <3>2, Zenon DEF SET_Confirm, records, Stored
  <2> QED
    BY <1>3, <2>2, Zenon DEF SET_Confirm
<1>4. ASSUME NEW c \in Clients, SET_Lookup(c) PROVE InsertsOnlyIfAbsent'
  BY <1>4, Zenon DEF SET_Lookup, Stored
<1>5. ASSUME NEW c \in Clients, SET_Store(c) PROVE InsertsOnlyIfAbsent'
  BY <1>5, Zenon DEF SET_Store
<1>6. ASSUME CleanGarbageCollector PROVE InsertsOnlyIfAbsent'
  <2>1. UNCHANGED threads
    BY <1>6, Zenon DEF CleanGarbageCollector
  <2>2. CASE operation_lock # Nobody
    <3>1. job[operation_lock].key \in Keys
      BY <2>2, Zenon DEF TypeOK, Requests
    <3>2. ~Stored(job[operation_lock].key) => ~Stored(job[operation_lock].key)'
      BY <1>6, <2>1, <3>1, Zenon DEF CleanGarbageCollector, Stored, threads
    <3> QED
      BY <2>1, <2>2, <3>2, Zenon DEF threads
  <2> QED
    BY <2>1, <2>2, Zenon DEF threads
<1>7. ASSUME NEW c \in Clients,
             (\E r \in Requests : Send(c, r)) \/ SendStructure(c)
               \/ Receive(c) \/ GETDIR(c)
      PROVE  UNCHANGED <<operation_lock, found, job, status>>
  BY <1>7, Zenon DEF Send, SendStructure, Receive, GETDIR, records, threads
<1>8. ASSUME NEW c \in Clients,
             \/ READ_OP(c, "READ") \/ READ_OP(c, "READ1") \/ DELETE_OP(c)
             \/ CLOSE_OP(c) \/ OPEN_OP(c) \/ RENAME_OP(c)
      PROVE  Locked /\ UNCHANGED operation_lock
  BY <1>8, Zenon DEF READ_OP, DELETE_OP, CLOSE_OP, OPEN_OP, RENAME_OP, threads
<1>9. ASSUME UNCHANGED vars
      PROVE  UNCHANGED <<operation_lock, found, job, status>>
  BY <1>9, Zenon DEF vars
<1> QED
  BY <1>1, <1>2, <1>3, <1>4, <1>5, <1>6, <1>7, <1>8, <1>9, Zenon DEF Next, Handler

\* The invariant is inductive.
LEMMA IInvStep == IInv /\ [Next]_vars => IInv'
BY TypeStep, RecordStep, InsertionStep, Zenon DEF IInv

\* The state of the metadata server is always well typed.
THEOREM TypeCorrect == Spec => []TypeOK
<1>1. IInv => TypeOK
  BY Zenon DEF IInv
<1> QED
  BY InitIInv, IInvStep, <1>1, PTL DEF Spec

\* A dataset that was unlinked while open always has an opener whose close
\* will remove it.
THEOREM DestHasOpenerAlways == Spec => []DestHasOpener
<1>1. IInv => DestHasOpener
  BY Zenon DEF IInv
<1> QED
  BY InitIInv, IInvStep, <1>1, PTL DEF Spec

\* No create overwrites the record of another create.
THEOREM InsertsOnlyIfAbsentAlways == Spec => []InsertsOnlyIfAbsent
<1>1. IInv => InsertsOnlyIfAbsent
  BY Zenon DEF IInv
<1> QED
  BY InitIInv, IInvStep, <1>1, PTL DEF Spec

\* Only a revived DIRTY record or an insertion writes ATTACH, and neither
\* happens to a DEST record.
LEMMA DestStep ==
    ASSUME IInv, [Next]_vars, NEW k \in Keys, status[k] = "DEST"
    PROVE  status'[k] \in {"DEST", "NONE"}
<1> USE DEF IInv, TypeOK
<1>1. ASSUME UNCHANGED status PROVE status'[k] \in {"DEST", "NONE"}
  BY <1>1, Zenon
<1>2. ASSUME NEW c \in Clients, DELETE_OP(c)
      PROVE  status'[k] \in {"DEST", "NONE"}
  BY <1>2, Zenon DEF DELETE_OP, Remove, PutInGarbageCollector,
                      DeleteEntry, SetRecord, records
<1>3. ASSUME NEW c \in Clients, CLOSE_OP(c)
      PROVE  status'[k] \in {"DEST", "NONE"}
  BY <1>3, Zenon DEF CLOSE_OP, Remove, PutInGarbageCollector,
                      DeleteEntry, SetRecord, records
<1>4. ASSUME NEW c \in Clients, OPEN_OP(c)
      PROVE  status'[k] \in {"DEST", "NONE"}
  BY <1>4, Zenon DEF OPEN_OP, Revive, PopFromGarbageCollector, records
<1>5. ASSUME NEW c \in Clients, SET_Lookup(c)
      PROVE  status'[k] \in {"DEST", "NONE"}
  BY <1>5, ZenonT(30) DEF SET_Lookup, Revive, PopFromGarbageCollector
<1>6. ASSUME NEW c \in Clients, SET_Store(c)
      PROVE  status'[k] \in {"DEST", "NONE"}
  <2>1. ~found => job[c].key # k
    BY <1>6, NobodyAssumption, Zenon DEF SET_Store, InsertsOnlyIfAbsent, Stored
  <2> QED
    BY <1>6, <2>1, Zenon DEF SET_Store, SetRecord
<1>7. ASSUME CleanGarbageCollector PROVE status'[k] \in {"DEST", "NONE"}
  BY <1>7, Zenon DEF CleanGarbageCollector
<1>8. ASSUME NEW c \in Clients,
             \/ (\E r \in Requests : Send(c, r)) \/ SendStructure(c)
             \/ Receive(c) \/ GETDIR(c)
             \/ READ_OP(c, "READ") \/ READ_OP(c, "READ1")
             \/ RENAME_OP(c) \/ SET_Confirm(c)
      PROVE  UNCHANGED status
  BY <1>8, Zenon DEF Send, SendStructure, Receive, GETDIR, READ_OP, RENAME_OP, SET_Confirm, records
<1>9. UNCHANGED vars => UNCHANGED status
  BY Zenon DEF vars
<1> QED
  BY <1>1, <1>2, <1>3, <1>4, <1>5, <1>6, <1>7, <1>8, <1>9, Zenon DEF Next, Handler

\* Unlinking is irrevocable, whatever other clients do with the dataset.
THEOREM DestIsFinalAlways == Spec => DestIsFinal
<1>1. IInv /\ [Next]_vars =>
        [\A k \in Keys : status[k] = "DEST" => status'[k] \in {"DEST", "NONE"}]_vars
  BY DestStep, Zenon
<1> QED
  BY InitIInv, IInvStep, <1>1, PTL DEF Spec, DestIsFinal

-----------------------------------------------------------------------------
(***************************************************************************)
(* A create that was confirmed is carried out.  CreatedIsComing is not     *)
(* inductive: the confirmation and the record are related through the      *)
(* message on its way to the client, the SET that holds operation_lock and *)
(* the garbage vector.                                                     *)
(***************************************************************************)

\* What the confirmation of a create promises about its dataset.
Kept(k) == fate[k] = "removed" \/ Stored(k) \/ Coming(k)

\* A client waits for one answer: its request has not been read, or its
\* answer is on the way, never both.
OneMessage ==
    \A c \in Clients :
      /\ inbox[c] # NoRequest => inbox[c] = call[c] /\ reply[c] = "none"
      /\ call[c] = NoRequest => reply[c] = "none"

AnsweredIsKept ==
    \A c \in Clients :
      reply[c] # "none" /\ call[c].op \in Sets => Kept(call[c].key)

GarbageIsRemoved == \A k \in Keys : garbage[k] > 0 => fate[k] = "removed"

FoundIsKept ==
    operation_lock # Nobody /\ found =>
      LET k == job[operation_lock].key IN fate[k] = "removed" \/ Stored(k)

CInv ==
    /\ IInv
    /\ OneMessage
    /\ AnsweredIsKept
    /\ GarbageIsRemoved
    /\ FoundIsKept
    /\ CreatedIsComing

\* Initially no message is on its way and no dataset has a history.
LEMMA InitCInv == Init => CInv
<1> SUFFICES ASSUME Init PROVE CInv
  BY Zenon
<1>1. OneMessage /\ AnsweredIsKept
  BY Zenon DEF Init, OneMessage, AnsweredIsKept
<1>2. GarbageIsRemoved /\ FoundIsKept
  BY DEF Init, GarbageIsRemoved, FoundIsKept
<1>3. CreatedIsComing
  BY SMTT(30) DEF Init, CreatedIsComing
<1> QED
  BY InitIInv, <1>1, <1>2, <1>3, Zenon DEF CInv

\* A thread reads a request before it answers, and a client sends its next
\* request after it has read the answer.
LEMMA MessageStep ==
    TypeOK /\ OneMessage /\ [Next]_vars => OneMessage'
<1> SUFFICES ASSUME TypeOK, OneMessage, [Next]_vars PROVE OneMessage'
  BY Zenon
<1> USE DEF TypeOK, OneMessage
<1>1. ASSUME NEW c \in Clients, NEW r \in Requests, Send(c, r) PROVE OneMessage'
  <2>1. r # NoRequest
    <3>1. r.op # "NOP"
      BY OperationsAssumption, Zenon DEF Requests, Gets, Sets
    <3> QED
      BY <3>1 DEF NoRequest
  <2>2. reply[c] = "none"
    BY <1>1, Zenon DEF Send
  <2> QED
    BY <1>1, <2>1, <2>2, Zenon DEF Send
<1>2. ASSUME NEW c \in Clients, Receive(c) PROVE OneMessage'
  BY <1>2, Zenon DEF Receive
<1>3. ASSUME NEW c \in Clients, NEW m, inbox[c] # NoRequest, Answer(c, m),
             UNCHANGED call
      PROVE  OneMessage'
  BY <1>3, Zenon DEF Answer
<1>4. ASSUME UNCHANGED <<inbox, reply, call>> PROVE OneMessage'
  BY <1>4, Zenon
<1>5. ASSUME NEW c \in Clients,
             \/ GETDIR(c) \/ READ_OP(c, "READ") \/ READ_OP(c, "READ1")
             \/ DELETE_OP(c) \/ CLOSE_OP(c) \/ OPEN_OP(c) \/ SET_Confirm(c)
      PROVE  inbox[c] # NoRequest /\ UNCHANGED call /\ \E m : Answer(c, m)
  <2>1. inbox[c] # NoRequest
    BY <1>5, SMTT(30) DEF GETDIR, READ_OP, DELETE_OP, CLOSE_OP, OPEN_OP, SET_Confirm,
                Polls, Sets, NoRequest
  <2>2. UNCHANGED call
    BY <1>5, Zenon DEF GETDIR, READ_OP, DELETE_OP, CLOSE_OP, OPEN_OP, SET_Confirm
  <2>3. \E m : Answer(c, m)
    BY <1>5, Zenon DEF GETDIR, READ_OP, DELETE_OP, CLOSE_OP, OPEN_OP, SET_Confirm
  <2> QED
    BY <2>1, <2>2, <2>3, SMTT(30)
<1>6. ASSUME NEW c \in Clients, RENAME_OP(c) PROVE OneMessage'
  <2>1. inbox[c] # NoRequest /\ UNCHANGED call
    BY <1>6 DEF RENAME_OP, Polls, NoRequest
  <2>2. CASE Answer(c, "ERROR")
    BY <1>3, <2>1, <2>2, Zenon
  <2>3. CASE inbox' = [inbox EXCEPT ![c] = NoRequest] /\ UNCHANGED reply
    BY <2>1, <2>3, Zenon
  <2> QED
    BY <1>6, <2>2, <2>3, Zenon DEF RENAME_OP
<1>7. ASSUME NEW c \in Clients, SendStructure(c) \/ SET_Lookup(c) \/ SET_Store(c)
      PROVE  UNCHANGED <<inbox, reply, call>>
  BY <1>7, Zenon DEF SendStructure, SET_Lookup, SET_Store
<1>8. CleanGarbageCollector \/ UNCHANGED vars => UNCHANGED <<inbox, reply, call>>
  BY Zenon DEF CleanGarbageCollector, vars
<1> QED
  BY <1>1, <1>2, <1>3, <1>4, <1>5, <1>6, <1>7, <1>8, Zenon DEF Next, Handler

\* Only a removal puts a key into the garbage vector, and a removal is never
\* forgotten.
LEMMA GarbageStep == IInv /\ GarbageIsRemoved /\ [Next]_vars => GarbageIsRemoved'
<1> SUFFICES ASSUME IInv, GarbageIsRemoved, [Next]_vars PROVE GarbageIsRemoved'
  BY Zenon
<1> USE DEF IInv, TypeOK, GarbageIsRemoved
<1>1. ASSUME UNCHANGED garbage,
             \A k \in Keys : fate[k] = "removed" => fate'[k] = "removed"
      PROVE  GarbageIsRemoved'
  BY <1>1, Zenon
<1>2. ASSUME NEW c \in Clients, Receive(c)
      PROVE  /\ UNCHANGED garbage
             /\ \A k \in Keys : fate[k] = "removed" => fate'[k] = "removed"
  BY <1>2, Zenon DEF Receive
<1>3. ASSUME NEW c \in Clients, DELETE_OP(c) PROVE GarbageIsRemoved'
  BY <1>3, ZenonT(30) DEF DELETE_OP, Remove, PutInGarbageCollector, DeleteEntry, SetRecord, records
<1>4. ASSUME NEW c \in Clients, CLOSE_OP(c) PROVE GarbageIsRemoved'
  BY <1>4, ZenonT(30) DEF CLOSE_OP, Remove, PutInGarbageCollector, DeleteEntry, SetRecord, records
<1>5. ASSUME NEW c \in Clients, OPEN_OP(c) \/ SET_Lookup(c) PROVE GarbageIsRemoved'
  <2>1. UNCHANGED garbage
    BY <1>5 DEF OPEN_OP, SET_Lookup, Revive, DirtyIsNeverStored, records, Polls,
                Requests, NoRequest
  <2>2. UNCHANGED fate
    BY <1>5, Zenon DEF OPEN_OP, SET_Lookup, records
  <2> QED
    BY <1>1, <2>1, <2>2, SMTT(30)
<1>6. ASSUME CleanGarbageCollector PROVE GarbageIsRemoved'
  BY <1>6 DEF CleanGarbageCollector
<1>7. ASSUME NEW c \in Clients,
             \/ (\E r \in Requests : Send(c, r)) \/ SendStructure(c)
             \/ GETDIR(c) \/ READ_OP(c, "READ") \/ READ_OP(c, "READ1")
             \/ RENAME_OP(c) \/ SET_Confirm(c) \/ SET_Store(c)
      PROVE  UNCHANGED <<garbage, fate>>
  BY <1>7, Zenon DEF Send, SendStructure, GETDIR, READ_OP, RENAME_OP, SET_Confirm, SET_Store, records
<1>8. UNCHANGED vars => UNCHANGED <<garbage, fate>>
  BY Zenon DEF vars
<1> QED
  BY <1>1, <1>2, <1>3, <1>4, <1>5, <1>6, <1>7, <1>8, Zenon DEF Next, Handler

\* A removal is never forgotten.
LEMMA RemovedStays ==
    ASSUME TypeOK, [Next]_vars, NEW k \in Keys, fate[k] = "removed"
    PROVE  fate'[k] = "removed"
<1> USE DEF TypeOK
<1>1. ASSUME NEW c \in Clients, Receive(c) PROVE fate'[k] = "removed"
  BY <1>1, Zenon DEF Receive
<1>2. ASSUME NEW c \in Clients, DELETE_OP(c) \/ CLOSE_OP(c) PROVE fate'[k] = "removed"
  BY <1>2, SMTT(30) DEF DELETE_OP, CLOSE_OP, Remove, DeleteEntry, records
<1>3. ASSUME NEW c \in Clients,
             \/ (\E r \in Requests : Send(c, r)) \/ SendStructure(c)
             \/ GETDIR(c) \/ READ_OP(c, "READ") \/ READ_OP(c, "READ1")
             \/ OPEN_OP(c) \/ RENAME_OP(c) \/ SET_Confirm(c)
             \/ SET_Lookup(c) \/ SET_Store(c)
      PROVE  UNCHANGED fate
  BY <1>3, Zenon DEF Send, SendStructure, GETDIR, READ_OP, OPEN_OP, RENAME_OP, SET_Confirm,
              SET_Lookup, SET_Store, records
<1>4. CleanGarbageCollector \/ UNCHANGED vars => UNCHANGED fate
  BY SMTT(30) DEF CleanGarbageCollector, vars
<1> QED
  BY <1>1, <1>2, <1>3, <1>4, Zenon DEF Next, Handler

\* A record leaves the map only through a removal, or through the collector,
\* which takes only what was removed before.
LEMMA StoredStays ==
    ASSUME IInv, GarbageIsRemoved, [Next]_vars, NEW k \in Keys, Stored(k)
    PROVE  Stored(k)' \/ fate'[k] = "removed"
<1> USE DEF IInv, TypeOK, Stored
<1>1. ASSUME UNCHANGED status PROVE Stored(k)'
  BY <1>1, Zenon
<1>2. ASSUME NEW c \in Clients, DELETE_OP(c) PROVE Stored(k)' \/ fate'[k] = "removed"
  BY <1>2, Zenon DEF DELETE_OP, Remove, PutInGarbageCollector, DeleteEntry, SetRecord, records
<1>3. ASSUME NEW c \in Clients, CLOSE_OP(c) PROVE Stored(k)' \/ fate'[k] = "removed"
  BY <1>3, Zenon DEF CLOSE_OP, Remove, PutInGarbageCollector, DeleteEntry, SetRecord, records
<1>4. ASSUME NEW c \in Clients, OPEN_OP(c) \/ SET_Lookup(c) PROVE Stored(k)'
  BY <1>4, ZenonT(30) DEF OPEN_OP, SET_Lookup, Revive, records
<1>5. ASSUME NEW c \in Clients, SET_Store(c) PROVE Stored(k)'
  BY <1>5, Zenon DEF SET_Store, SetRecord
<1>6. ASSUME CleanGarbageCollector PROVE Stored(k)' \/ fate'[k] = "removed"
  BY <1>6, SMTT(30) DEF CleanGarbageCollector, GarbageIsRemoved
<1>7. ASSUME NEW c \in Clients,
             \/ (\E r \in Requests : Send(c, r)) \/ SendStructure(c)
             \/ Receive(c) \/ GETDIR(c)
             \/ READ_OP(c, "READ") \/ READ_OP(c, "READ1")
             \/ RENAME_OP(c) \/ SET_Confirm(c)
      PROVE  UNCHANGED status
  BY <1>7, Zenon DEF Send, SendStructure, Receive, GETDIR, READ_OP, RENAME_OP, SET_Confirm, records
<1>8. UNCHANGED vars => UNCHANGED status
  BY Zenon DEF vars
<1> QED
  BY <1>1, <1>2, <1>3, <1>4, <1>5, <1>6, <1>7, <1>8, Zenon DEF Next, Handler

\* What the SET that holds operation_lock has found is still there, or was
\* removed in the meantime by the collector.
LEMMA FoundStep ==
    IInv /\ GarbageIsRemoved /\ FoundIsKept /\ [Next]_vars => FoundIsKept'
<1> SUFFICES ASSUME IInv, GarbageIsRemoved, FoundIsKept, [Next]_vars
             PROVE  FoundIsKept'
  BY Zenon
<1>1. ASSUME UNCHANGED <<operation_lock, found>>,
             job'[operation_lock] = job[operation_lock]
      PROVE  FoundIsKept'
  <2> SUFFICES ASSUME operation_lock # Nobody, found
               PROVE  \/ fate'[job[operation_lock].key] = "removed"
                      \/ status'[job[operation_lock].key] # "NONE"
    BY <1>1, Zenon DEF FoundIsKept, Stored
  <2>1. PICK k \in Keys : k = job[operation_lock].key
    BY Zenon DEF IInv, InsertsOnlyIfAbsent, TypeOK, Requests
  <2>2. fate[k] = "removed" \/ Stored(k)
    BY <2>1, Zenon DEF FoundIsKept
  <2>3. CASE fate[k] = "removed"
    BY <2>1, <2>3, RemovedStays, Zenon DEF IInv
  <2>4. CASE Stored(k)
    BY <2>1, <2>4, StoredStays, Zenon DEF Stored
  <2> QED
    BY <2>2, <2>3, <2>4, Zenon
<1>2. ASSUME NEW c \in Clients, SET_Confirm(c) PROVE FoundIsKept'
  <2>1. CASE operation_lock # Nobody
    <3>1. operation_lock # c
      BY <1>2, <2>1, Zenon DEF SET_Confirm, Polls, IInv, InsertsOnlyIfAbsent
    <3>2. job'[operation_lock] = job[operation_lock]
      BY <1>2, <3>1 DEF SET_Confirm, IInv, TypeOK
    <3> QED
      BY <1>1, <1>2, <3>2, Zenon DEF SET_Confirm
  <2> QED
    BY <1>2, <2>1, Zenon DEF SET_Confirm, FoundIsKept
<1>3. ASSUME NEW c \in Clients, SET_Lookup(c) PROVE FoundIsKept'
  <2> DEFINE k == job[c].key
  <2>1. k \in Keys
    BY <1>3, Zenon DEF SET_Lookup, IInv, TypeOK, Requests
  <2>2. found' => status'[k] # "NONE"
    BY <1>3, <2>1, Zenon DEF SET_Lookup, Revive, Stored, IInv, TypeOK
  <2>3. operation_lock' = c /\ UNCHANGED job
    BY <1>3, Zenon DEF SET_Lookup
  <2> QED
    BY <2>2, <2>3, Zenon DEF FoundIsKept, Stored
<1>4. ASSUME NEW c \in Clients, SET_Store(c) PROVE FoundIsKept'
  BY <1>4, Zenon DEF SET_Store, FoundIsKept
<1>5. ASSUME NEW c \in Clients,
             \/ (\E r \in Requests : Send(c, r)) \/ SendStructure(c)
             \/ Receive(c) \/ GETDIR(c)
             \/ READ_OP(c, "READ") \/ READ_OP(c, "READ1")
             \/ DELETE_OP(c) \/ CLOSE_OP(c) \/ OPEN_OP(c) \/ RENAME_OP(c)
      PROVE  UNCHANGED threads
  BY <1>5, Zenon DEF Send, SendStructure, Receive, GETDIR, READ_OP, DELETE_OP, CLOSE_OP, OPEN_OP, RENAME_OP
<1>6. CleanGarbageCollector \/ UNCHANGED vars => UNCHANGED threads
  BY Zenon DEF CleanGarbageCollector, vars, threads
<1>7. CASE UNCHANGED threads
  BY <1>1, <1>7, SMTT(30) DEF threads
<1> QED
  BY <1>2, <1>3, <1>4, <1>5, <1>6, <1>7, Zenon DEF Next, Handler

\* The SET that finishes has stored its record or has found it, and the
\* others go on: nothing that was promised is dropped.
LEMMA KeptStep ==
    ASSUME IInv, GarbageIsRemoved, FoundIsKept, [Next]_vars,
           NEW k \in Keys, Kept(k)
    PROVE  Kept(k)'
<1>1. CASE fate[k] = "removed"
  BY <1>1, RemovedStays, SMTT(30) DEF IInv, Kept
<1>2. CASE Stored(k)
  BY <1>2, StoredStays, Zenon DEF Kept
<1>3. CASE Coming(k) /\ ~Stored(k) /\ fate[k] # "removed"
  <2>1. PICK d \in Clients : job[d] # NoRequest /\ job[d].key = k
    BY <1>3, Zenon DEF Coming
  <2>2. ASSUME job'[d] = job[d] PROVE Kept(k)'
    BY <2>1, <2>2, Zenon DEF Kept, Coming
  <2>3. ASSUME NEW c \in Clients, SET_Store(c) PROVE Kept(k)'
    <3>1. CASE c # d
      BY <2>2, <2>3, <3>1, Zenon DEF SET_Store, IInv, TypeOK
    <3>2. CASE c = d
      <4>1. operation_lock = d /\ operation_lock # Nobody
        BY <2>3, <3>2, NobodyAssumption, SMTT(30) DEF SET_Store
      <4>2. ~found
        BY <1>3, <2>1, <4>1, Zenon DEF FoundIsKept
      <4>3. status'[k] # "NONE"
        BY <2>1, <2>3, <3>2, <4>2, Zenon DEF SET_Store, SetRecord, IInv, TypeOK
      <4> QED
        BY <4>3, Zenon DEF Kept, Stored
    <3> QED
      BY <3>1, <3>2, Zenon
  <2>4. ASSUME NEW c \in Clients, SET_Confirm(c) PROVE job'[d] = job[d]
    BY <2>1, <2>4, Zenon DEF SET_Confirm, Polls, IInv, TypeOK
  <2>5. ASSUME NEW c \in Clients,
               \/ (\E r \in Requests : Send(c, r)) \/ SendStructure(c)
               \/ Receive(c) \/ GETDIR(c)
               \/ READ_OP(c, "READ") \/ READ_OP(c, "READ1")
               \/ DELETE_OP(c) \/ CLOSE_OP(c) \/ OPEN_OP(c) \/ RENAME_OP(c)
               \/ SET_Lookup(c)
        PROVE  UNCHANGED job
    BY <2>5, Zenon DEF Send, SendStructure, Receive, GETDIR, READ_OP, DELETE_OP, CLOSE_OP, OPEN_OP,
                RENAME_OP, SET_Lookup, threads
  <2>6. CleanGarbageCollector \/ UNCHANGED vars => UNCHANGED job
    BY Zenon DEF CleanGarbageCollector, vars, threads
  <2> QED
    BY <2>2, <2>3, <2>4, <2>5, <2>6, Zenon DEF Next, Handler
<1> QED
  BY <1>1, <1>2, <1>3, SMTT(30) DEF Kept

\* Only the answer to a create promises a record, and it is sent when the
\* thread has taken the request on.
LEMMA AnsweredStep == CInv /\ [Next]_vars => AnsweredIsKept'
<1> SUFFICES ASSUME CInv, [Next]_vars PROVE AnsweredIsKept'
  BY Zenon
<1> USE DEF CInv
<1>1. ASSUME NEW d \in Clients, reply[d] # "none", call[d].op \in Sets
      PROVE  \E k \in Keys : k = call[d].key /\ Kept(k)'
  <2>1. PICK k \in Keys : k = call[d].key
    BY <1>1 DEF Sets, IInv, TypeOK, Requests, NoRequest
  <2>2. Kept(k)
    BY <1>1, <2>1, SMTT(30) DEF AnsweredIsKept
  <2> QED
    BY <2>1, <2>2, KeptStep, Zenon
<1>2. ASSUME \A d \in Clients :
               reply'[d] # "none" /\ call'[d].op \in Sets =>
                 reply[d] = reply'[d] /\ call[d] = call'[d]
      PROVE  AnsweredIsKept'
  BY <1>1, <1>2, SMTT(30) DEF AnsweredIsKept, Kept, Stored, Coming
<1>3. ASSUME NEW c \in Clients, SET_Confirm(c) PROVE AnsweredIsKept'
  <2>1. inbox[c] # NoRequest
    BY <1>3, SMTT(30) DEF SET_Confirm, Polls, Sets, NoRequest
  <2>2. inbox[c] = call[c] /\ call' = call
    BY <1>3, <2>1, Zenon DEF SET_Confirm, OneMessage
  <2>3. job'[c] = call'[c] /\ job'[c] # NoRequest
    BY <1>3, <2>1, <2>2, Zenon DEF SET_Confirm, IInv, TypeOK
  <2>4. \A d \in Clients \ {c} : reply'[d] = reply[d]
    BY <1>3, Zenon DEF SET_Confirm, Answer, IInv, TypeOK
  <2> QED
    BY <1>1, <2>2, <2>3, <2>4 DEF AnsweredIsKept, Kept, Stored, Coming
<1>4. ASSUME NEW c \in Clients, NEW op \in Gets, Polls(c, op), UNCHANGED call,
             \A d \in Clients \ {c} : reply'[d] = reply[d]
      PROVE  AnsweredIsKept'
  <2>1. inbox[c] # NoRequest
    BY <1>4 DEF Polls, Gets, NoRequest
  <2>2. call'[c].op \notin Sets
    BY <1>4, <2>1, Zenon DEF Polls, OneMessage, Gets, Sets
  <2> QED
    BY <1>2, <1>4, <2>2, Zenon
<1>5. ASSUME NEW c \in Clients,
             \/ GETDIR(c) \/ READ_OP(c, "READ") \/ READ_OP(c, "READ1")
             \/ DELETE_OP(c) \/ CLOSE_OP(c) \/ OPEN_OP(c) \/ RENAME_OP(c)
      PROVE  AnsweredIsKept'
  <2>1. \E op \in Gets : Polls(c, op)
    BY <1>5, Zenon DEF GETDIR, READ_OP, DELETE_OP, CLOSE_OP, OPEN_OP, RENAME_OP, Gets
  <2>2. UNCHANGED call
    BY <1>5, Zenon DEF GETDIR, READ_OP, DELETE_OP, CLOSE_OP, OPEN_OP, RENAME_OP
  <2>3. UNCHANGED reply \/ \E a : reply' = [reply EXCEPT ![c] = a]
    BY <1>5, Zenon DEF GETDIR, READ_OP, DELETE_OP, CLOSE_OP, OPEN_OP, RENAME_OP, Answer
  <2>4. \A d \in Clients \ {c} : reply'[d] = reply[d]
    BY <2>3, Zenon DEF IInv, TypeOK
  <2> QED
    BY <1>4, <2>1, <2>2, <2>4, Zenon
<1>6. ASSUME NEW c \in Clients, NEW r \in Requests, Send(c, r)
      PROVE  AnsweredIsKept'
  <2>1. reply[c] = "none"
    BY <1>6, Zenon DEF Send, OneMessage
  <2> QED
    BY <1>2, <1>6, <2>1, SMTT(30) DEF Send, IInv, TypeOK
<1>7. ASSUME NEW c \in Clients, Receive(c) PROVE AnsweredIsKept'
  BY <1>2, <1>7, SMTT(30) DEF Receive, IInv, TypeOK, NoRequest, Sets
<1>8. ASSUME NEW c \in Clients, SendStructure(c) \/ SET_Lookup(c) \/ SET_Store(c)
      PROVE  UNCHANGED <<reply, call>>
  BY <1>8, Zenon DEF SendStructure, SET_Lookup, SET_Store
<1>9. CleanGarbageCollector \/ UNCHANGED vars => UNCHANGED <<reply, call>>
  BY Zenon DEF CleanGarbageCollector, vars
<1>10. CASE UNCHANGED <<reply, call>>
  BY <1>2, <1>10, Zenon
<1> QED
  BY <1>3, <1>5, <1>6, <1>7, <1>8, <1>9, <1>10, Zenon DEF Next, Handler

\* A dataset counts as created when the confirmation is read.
LEMMA CreatedStep == CInv /\ [Next]_vars => CreatedIsComing'
<1> SUFFICES ASSUME CInv, [Next]_vars, NEW k \in Keys, fate'[k] = "created"
             PROVE  Kept(k)'
  BY Zenon DEF CreatedIsComing, Kept
<1> USE DEF CInv
<1>1. CASE fate[k] = "created"
  BY <1>1, KeptStep, Zenon DEF CreatedIsComing, Kept
<1>2. CASE fate[k] # "created"
  <2>1. ASSUME NEW c \in Clients, Receive(c) PROVE Kept(k)'
    <3>1. reply[c] # "none" /\ call[c].op \in Sets /\ call[c].key = k
      BY <1>2, <2>1, Zenon DEF Receive
    <3> QED
      BY <3>1, KeptStep, Zenon DEF AnsweredIsKept
  <2>2. ASSUME NEW c \in Clients, DELETE_OP(c) \/ CLOSE_OP(c) PROVE FALSE
    BY <1>2, <2>2, Zenon DEF DELETE_OP, CLOSE_OP, Remove, DeleteEntry, records, IInv, TypeOK
  <2>3. ASSUME NEW c \in Clients,
               \/ (\E r \in Requests : Send(c, r)) \/ SendStructure(c)
               \/ GETDIR(c) \/ READ_OP(c, "READ") \/ READ_OP(c, "READ1")
               \/ OPEN_OP(c) \/ RENAME_OP(c) \/ SET_Confirm(c)
               \/ SET_Lookup(c) \/ SET_Store(c)
        PROVE  UNCHANGED fate
    BY <2>3, Zenon DEF Send, SendStructure, GETDIR, READ_OP, OPEN_OP, RENAME_OP, SET_Confirm,
                SET_Lookup, SET_Store, records
  <2>4. CleanGarbageCollector \/ UNCHANGED vars => UNCHANGED fate
    BY Zenon DEF CleanGarbageCollector, vars
  <2> QED
    BY <1>2, <2>1, <2>2, <2>3, <2>4, Zenon DEF Next, Handler
<1> QED
  BY <1>1, <1>2, Zenon

\* The strengthened invariant is inductive.
LEMMA CInvStep == CInv /\ [Next]_vars => CInv'
<1> SUFFICES ASSUME CInv, [Next]_vars PROVE CInv'
  BY Zenon
<1>1. IInv' /\ OneMessage' /\ GarbageIsRemoved' /\ FoundIsKept'
  BY IInvStep, MessageStep, GarbageStep, FoundStep, Zenon DEF CInv, IInv
<1> QED
  BY <1>1, AnsweredStep, CreatedStep, Zenon DEF CInv

\* SET_OP confirms a create before it has looked at the map, but what it
\* confirms is carried out: the record is there or a thread is storing it,
\* until the dataset is removed.
THEOREM CreatedIsComingAlways == Spec => []CreatedIsComing
<1>1. CInv => CreatedIsComing
  BY Zenon DEF CInv
<1> QED
  BY InitCInv, CInvStep, <1>1, PTL DEF Spec

-----------------------------------------------------------------------------
(***************************************************************************)
(* n_open counts the openers.  That a dataset somebody holds is stored is  *)
(* not inductive: a removal looks at n_open, so the invariant says that    *)
(* n_open is at least the number of the clients that hold the dataset.     *)
(***************************************************************************)

OpensCounted(k) ==
    k \notin miscounted =>
      /\ IsFiniteSet(held[k])
      /\ Cardinality(held[k]) <= n_open[k]
      /\ held[k] # {} => Stored(k)

HInv == IInv /\ \A k \in Keys : OpensCounted(k)

\* One more opener, counted.
LEMMA CountAdd ==
    ASSUME NEW S, NEW c, NEW n \in Nat, IsFiniteSet(S), Cardinality(S) <= n
    PROVE  IsFiniteSet(S \cup {c}) /\ Cardinality(S \cup {c}) <= n + 1
<1>1. Cardinality(S) \in Nat
  BY FS_CardinalityType, Zenon
<1> QED
  BY <1>1, FS_AddElement

\* One opener less, and if it was the last one nobody is left.
LEMMA CountRemove ==
    ASSUME NEW S, NEW c \in S, NEW n \in Nat, IsFiniteSet(S), Cardinality(S) <= n
    PROVE  /\ IsFiniteSet(S \ {c}) /\ n > 0 /\ Cardinality(S \ {c}) <= n - 1
           /\ n = 1 => S \ {c} = {}
<1>1. Cardinality(S) \in Nat /\ Cardinality(S) # 0
  BY FS_CardinalityType, FS_EmptySet, Zenon
<1>2. IsFiniteSet(S \ {c}) /\ Cardinality(S \ {c}) = Cardinality(S) - 1
  BY FS_RemoveElement, Zenon
<1>3. n = 1 => Cardinality(S \ {c}) = 0
  BY <1>1, <1>2
<1> QED
  BY <1>1, <1>2, <1>3, FS_EmptySet

\* A dataset that nobody is counted for is held by nobody.
LEMMA CountNone ==
    ASSUME NEW S, IsFiniteSet(S), Cardinality(S) <= 0
    PROVE  S = {}
BY FS_CardinalityType, FS_EmptySet, SMTT(30)

\* An open that is counted, of a record that stays.
LEMMA CountedStep ==
    ASSUME IInv, NEW k \in Keys, OpensCounted(k), NEW c \in Clients,
           NEW q \in Keys, Counted(q, c), Stored(k) => Stored(k)',
           Stored(q), n_open' = [n_open EXCEPT ![q] = @ + 1]
    PROVE  OpensCounted(k)'
<1> USE DEF IInv, TypeOK
<1> SUFFICES ASSUME k \notin miscounted
             PROVE  /\ IsFiniteSet(held'[k]) /\ Cardinality(held'[k]) <= n_open'[k]
                    /\ held'[k] # {} => Stored(k)'
  BY Zenon DEF OpensCounted, Counted, Stored
<1>1. /\ IsFiniteSet(held[k]) /\ Cardinality(held[k]) <= n_open[k]
      /\ held[k] # {} => Stored(k)
  BY SMTT(30) DEF OpensCounted
<1>2. CASE q = k
  <2>1. held'[k] = held[k] \cup {c} /\ n_open'[k] = n_open[k] + 1
    BY <1>2, Zenon DEF Counted
  <2>2. n_open[k] \in Nat
    BY Zenon
  <2> HIDE DEF IInv, TypeOK
  <2>3. IsFiniteSet(held[k] \cup {c}) /\ Cardinality(held[k] \cup {c}) <= n_open[k] + 1
    BY <1>1, <2>2, CountAdd, Zenon
  <2> QED
    BY <1>2, <2>1, <2>3, Zenon
<1>3. CASE q # k
  <2>1. held'[k] = held[k] /\ n_open'[k] = n_open[k]
    BY <1>3, Zenon DEF Counted
  <2> QED
    BY <1>1, <2>1, Zenon
<1> QED
  BY <1>2, <1>3, Zenon

\* DELETE_OP removes only what n_open says nobody has open.
LEMMA DeleteCounted ==
    ASSUME IInv, NEW k \in Keys, OpensCounted(k), NEW c \in Clients, DELETE_OP(c)
    PROVE  OpensCounted(k)'
<1> USE DEF IInv, TypeOK
<1>1. UNCHANGED opens
  BY Zenon DEF DELETE_OP, records
<1>2. inbox[c].key \in Keys
  BY PolledKey, Zenon DEF DELETE_OP
<1>3. n_open'[k] = n_open[k] /\ (status[k] # "NONE" => status'[k] # "NONE" \/ n_open[k] = 0)
  BY <1>2, SMTT(30) DEF DELETE_OP, Remove, DeleteEntry, SetRecord, records
<1>4. CASE k \notin miscounted
  <2>1. n_open[k] = 0 => held[k] = {}
    BY <1>4, CountNone, Zenon DEF OpensCounted
  <2> QED
    BY <1>1, <1>3, <1>4, <2>1, Zenon DEF OpensCounted, opens, Stored
<1>5. CASE k \in miscounted
  BY <1>1, <1>5, Zenon DEF OpensCounted, opens
<1> QED
  BY <1>4, <1>5, Zenon

\* CLOSE_OP takes its sender out of the count; it removes the record when
\* nobody is left in it.
LEMMA CloseCounted ==
    ASSUME IInv, NEW k \in Keys, OpensCounted(k), NEW c \in Clients, CLOSE_OP(c)
    PROVE  OpensCounted(k)'
<1> USE DEF IInv, TypeOK
<1> DEFINE q == inbox[c].key
<1>1. q \in Keys
  BY PolledKey, Zenon DEF CLOSE_OP
<1>2. CASE UNCHANGED records
  BY <1>2, SMTT(30) DEF OpensCounted, records, opens, Stored
<1>3. CASE Closed(q, c) /\ q # k
  <2>1. held'[k] = held[k] /\ (k \in miscounted => k \in miscounted')
    BY <1>1, <1>3, SMTT(30) DEF Closed
  <2>2. n_open'[k] = n_open[k] /\ status'[k] = status[k]
    BY <1>1, <1>3, SMTT(30) DEF CLOSE_OP, Remove, DeleteEntry, SetRecord, records
  <2>3. k \notin miscounted' => k \notin miscounted
    BY <2>1, ZenonT(30)
  <2> QED
    BY <2>1, <2>2, <2>3, Zenon DEF OpensCounted, Stored
<1>4. CASE Closed(q, c) /\ q = k
  <2> SUFFICES ASSUME k \notin miscounted'
               PROVE  /\ IsFiniteSet(held'[k]) /\ Cardinality(held'[k]) <= n_open'[k]
                      /\ held'[k] # {} => status'[k] # "NONE"
    BY Zenon DEF OpensCounted, Stored
  <2>1. c \in held[k] /\ k \notin miscounted /\ held'[k] = held[k] \ {c}
    BY <1>1, <1>4, SMTT(30) DEF Closed
  <2>2. IsFiniteSet(held[k]) /\ Cardinality(held[k]) <= n_open[k]
    BY <2>1, SMTT(30) DEF OpensCounted
  <2>3. /\ IsFiniteSet(held'[k]) /\ n_open[k] > 0 /\ Cardinality(held'[k]) <= n_open[k] - 1
        /\ n_open[k] = 1 => held'[k] = {}
    <3>1. n_open[k] \in Nat
      BY Zenon
    <3> HIDE DEF IInv, TypeOK
    <3>2. /\ IsFiniteSet(held[k] \ {c}) /\ n_open[k] > 0
          /\ Cardinality(held[k] \ {c}) <= n_open[k] - 1
          /\ n_open[k] = 1 => held[k] \ {c} = {}
      BY <2>1, <2>2, <3>1, CountRemove, ZenonT(30)
    <3> QED
      BY <2>1, <3>2, Zenon
  <2>4. status[k] # "NONE"
    BY <2>1, SMTT(30) DEF OpensCounted, Stored
  <2>5. n_open'[k] = n_open[k] - 1
        /\ (status'[k] # "NONE" \/ n_open[k] = 1)
    BY <1>1, <1>4, <2>3, <2>4 DEF CLOSE_OP, Remove, DeleteEntry, SetRecord, Stored
  <2> QED
    BY <2>3, <2>5, SMTT(30)
<1> QED
  BY <1>2, <1>3, <1>4, Zenon DEF CLOSE_OP

\* A create counts its client when it inserts the record, which nobody holds.
LEMMA StoreCounted ==
    ASSUME IInv, NEW k \in Keys, OpensCounted(k), NEW c \in Clients, SET_Store(c)
    PROVE  OpensCounted(k)'
<1> USE DEF IInv, TypeOK
<1> DEFINE q == job[c].key
<1>1. job[c] # NoRequest /\ (~found => ~Stored(q))
  BY NobodyAssumption, Zenon DEF SET_Store, InsertsOnlyIfAbsent
<1>2. q \in Keys
  BY <1>1, Zenon DEF Requests
<1>3. CASE found
  BY <1>3, Zenon DEF SET_Store, OpensCounted, opens, Stored
<1>4. CASE ~found /\ q # k
  <2>1. /\ held'[k] = held[k] /\ miscounted' = miscounted
        /\ n_open'[k] = n_open[k] /\ status'[k] = status[k]
    BY <1>2, <1>4, SMTT(30) DEF SET_Store, SetRecord, Counted, opens
  <2> QED
    BY <2>1, Zenon DEF OpensCounted, Stored
<1>5. CASE ~found /\ q = k
  <2>1. status'[k] # "NONE" /\ miscounted' = miscounted
    BY <1>2, <1>5, SMTT(30) DEF SET_Store, SetRecord, Counted, opens
  <2> SUFFICES ASSUME k \notin miscounted
               PROVE  IsFiniteSet(held'[k]) /\ Cardinality(held'[k]) <= n_open'[k]
    BY <2>1, Zenon DEF OpensCounted, Stored
  <2>2. held[k] = {}
    BY <1>1, <1>5, SMTT(30) DEF OpensCounted
  <2>3. CASE job[c].op = "SET1"
    <3>1. held'[k] = {} \cup {c} /\ n_open'[k] = 1
      BY <1>2, <1>5, <2>2, <2>3 DEF SET_Store, SetRecord, Counted
    <3>2. IsFiniteSet({}) /\ Cardinality({}) <= 0
      BY FS_EmptySet
    <3>3. IsFiniteSet({} \cup {c}) /\ Cardinality({} \cup {c}) <= 0 + 1
      BY <3>2, CountAdd, ZenonT(30)
    <3> QED
      BY <3>1, <3>3
  <2>4. CASE job[c].op # "SET1"
    <3>1. held'[k] = {} /\ n_open'[k] = 0
      BY <1>2, <1>5, <2>2, <2>4, ZenonT(30) DEF SET_Store, SetRecord, opens
    <3> QED
      BY <3>1, FS_EmptySet
  <2> QED
    BY <2>3, <2>4, Zenon
<1> QED
  BY <1>3, <1>4, <1>5, Zenon

\* The other steps: the opens are counted, the collector marks what it takes
\* from its holders, and nobody else touches n_open.
LEMMA HInvStep == HInv /\ [Next]_vars => HInv'
<1> SUFFICES ASSUME HInv, [Next]_vars, NEW k \in Keys PROVE OpensCounted(k)'
  BY IInvStep, Zenon DEF HInv
<1>0. IInv /\ OpensCounted(k)
  BY Zenon DEF HInv
<1> USE DEF IInv, TypeOK
<1>1. ASSUME UNCHANGED <<n_open, held, miscounted>>, Stored(k) => Stored(k)'
      PROVE  OpensCounted(k)'
  BY <1>0, <1>1, ZenonT(30) DEF OpensCounted, Stored
<1>2. ASSUME NEW c \in Clients, NEW op \in {"READ", "READ1"}, READ_OP(c, op)
      PROVE  OpensCounted(k)'
  <2> DEFINE q == inbox[c].key
             readable == status[q] \notin {"NONE", "DIRTY"}
  <2>1. q \in Keys
    BY <1>0, <1>2, PolledKey, SMTT(30) DEF READ_OP
  <2>2. UNCHANGED status
    BY <1>2, ZenonT(30) DEF READ_OP
  <2>3. CASE readable /\ op = "READ1"
    <3>1. Counted(q, c) /\ n_open' = [n_open EXCEPT ![q] = @ + 1]
      BY <1>2, <2>3, Zenon DEF READ_OP
    <3>2. Stored(q) /\ (Stored(k) => Stored(k)')
      BY <2>2, <2>3, Zenon DEF Stored
    <3> QED
      BY <1>0, <2>1, <3>1, <3>2, CountedStep, ZenonT(30)
  <2>4. CASE ~(readable /\ op = "READ1")
    <3>1. UNCHANGED opens /\ n_open' = [n_open EXCEPT ![q] = @]
      BY <1>2, <2>4, ZenonT(30) DEF READ_OP
    <3>2. n_open' = n_open
      BY <1>0, <3>1, Zenon
    <3> QED
      BY <1>1, <2>2, <3>1, <3>2, Zenon DEF opens, Stored
  <2> QED
    BY <2>3, <2>4, SMTT(30)
<1>3. ASSUME NEW c \in Clients, OPEN_OP(c) PROVE OpensCounted(k)'
  <2> DEFINE q == inbox[c].key
  <2>1. q \in Keys
    BY <1>0, <1>3, PolledKey, Zenon DEF OPEN_OP
  <2>2. Stored(k) => Stored(k)'
    BY <1>0, <1>3, <2>1, SMTT(30) DEF OPEN_OP, Revive, records, Stored
  <2>3. CASE Stored(q)
    <3>1. Counted(q, c) /\ n_open' = [n_open EXCEPT ![q] = @ + 1]
      BY <1>3, <2>3, Zenon DEF OPEN_OP
    <3> QED
      BY <1>0, <2>1, <2>2, <2>3, <3>1, CountedStep, Zenon
  <2>4. CASE ~Stored(q)
    BY <1>1, <1>3, <2>2, <2>4, Zenon DEF OPEN_OP, records, opens
  <2> QED
    BY <2>3, <2>4, Zenon
<1>4. ASSUME NEW c \in Clients, SET_Lookup(c)
      PROVE  UNCHANGED <<n_open, held, miscounted>> /\ (Stored(k) => Stored(k)')
  BY <1>0, <1>4, Zenon DEF SET_Lookup, Revive, opens, Stored
<1>5. ASSUME CleanGarbageCollector PROVE OpensCounted(k)'
  <2>1. held' = held /\ (k \notin miscounted' =>
                            k \notin miscounted /\ (garbage[k] = 0 \/ held[k] = {}))
    BY <1>0, <1>5, SMTT(30) DEF CleanGarbageCollector
  <2>2. CASE garbage[k] = 0
    <3>1. n_open'[k] = n_open[k] /\ status'[k] = status[k]
      BY <1>0, <1>5, <2>2 DEF CleanGarbageCollector
    <3> QED
      BY <1>0, <2>1, <3>1, ZenonT(30) DEF OpensCounted, Stored
  <2>3. CASE garbage[k] # 0
    <3>1. n_open'[k] = 0
      BY <1>0, <1>5, <2>3, SMTT(30) DEF CleanGarbageCollector
    <3> QED
      BY <2>1, <2>3, <3>1, FS_EmptySet DEF OpensCounted
  <2> QED
    BY <2>2, <2>3, Zenon
<1>6. ASSUME NEW c \in Clients,
             \/ (\E r \in Requests : Send(c, r)) \/ SendStructure(c)
             \/ Receive(c) \/ GETDIR(c) \/ RENAME_OP(c) \/ SET_Confirm(c)
      PROVE  UNCHANGED <<n_open, held, miscounted, status>>
  BY <1>6, Zenon DEF Send, SendStructure, Receive, GETDIR, RENAME_OP, SET_Confirm,
              records, opens
<1>7. ASSUME UNCHANGED vars PROVE UNCHANGED <<n_open, held, miscounted, status>>
  BY <1>7, Zenon DEF vars
<1>8. ASSUME UNCHANGED <<n_open, held, miscounted, status>> PROVE OpensCounted(k)'
  BY <1>1, <1>8, SMTT(30) DEF Stored
<1>9. ASSUME NEW c \in Clients, DELETE_OP(c) \/ CLOSE_OP(c) \/ SET_Store(c)
      PROVE  OpensCounted(k)'
  BY <1>0, <1>9, DeleteCounted, CloseCounted, StoreCounted, Zenon
<1> QED
  BY <1>1, <1>2, <1>3, <1>4, <1>5, <1>6, <1>7, <1>8, <1>9, Zenon DEF Next, Handler

\* What a client has opened is never taken away by the unlinks and closes of
\* others, for any number of clients: READ_OP, OPEN_OP and SET_OP count every
\* opener in n_open, and DELETE_OP and CLOSE_OP remove a record only when the
\* count says that nobody is left.
THEOREM HeldIsStoredAlways == Spec => []HeldIsStored
<1>1. Init => HInv
  BY InitIInv, FS_EmptySet, SMTT(30) DEF Init, HInv, OpensCounted
<1>2. HInv => HeldIsStored
  BY Zenon DEF HInv, OpensCounted, HeldIsStored
<1> QED
  BY <1>1, <1>2, HInvStep, PTL DEF Spec

=============================================================================

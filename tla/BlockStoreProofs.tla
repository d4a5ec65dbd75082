--------------------------- MODULE BlockStoreProofs ---------------------------
(***************************************************************************)
(* Safety of BlockStore for any files, blocks, clients and buffers.        *)
(***************************************************************************)
EXTENDS BlockStore, TLAPS

\* The types of the variables the proofs are about.
TypeCore ==
    /\ buffer \in [Keys -> Buffers \cup {NULL}]
    /\ mem \in [Buffers -> [Clients -> 0 .. MaxVersion]]
    /\ heap \in SUBSET Buffers
    /\ mem_pool \in SUBSET Buffers
    /\ job \in [Clients -> Jobs \cup {NoJob}]
    /\ version \in [Clients -> 0 .. MaxVersion]
    /\ acked \in [Keys -> [Clients -> 0 .. MaxVersion]]

\* What the record of a thread that is writing a data block holds.
LEMMA WriteJob ==
    ASSUME TypeCore, NEW c \in Clients, job[c].op = "WRITE"
    PROVE  /\ <<job[c].file, job[c].block>> \in Keys
           /\ job[c].seen \in Buffers \cup {NULL}
           /\ job[c].value \in 1 .. MaxVersion
BY DEF TypeCore, Jobs, NoJob, Keys

\* Receiving data changes one part of one buffer.
LEMMA WriteType ==
    ASSUME TypeCore, NEW b \in Buffers, NEW c \in Clients,
           NEW v \in 0 .. MaxVersion, Write(b, c, v)
    PROVE  /\ mem' \in [Buffers -> [Clients -> 0 .. MaxVersion]]
           /\ mem'[b][c] = v
           /\ \A d \in Buffers, e \in Clients :
                <<d, e>> # <<b, c>> => mem'[d][e] = mem[d][e]
BY Zenon DEF TypeCore, Write

\* Confirming a write changes one entry of the history.
LEMMA ConfirmType ==
    ASSUME TypeCore, NEW k \in Keys, NEW c \in Clients,
           NEW v \in 0 .. MaxVersion, Confirm(k, c, v)
    PROVE  /\ acked' \in [Keys -> [Clients -> 0 .. MaxVersion]]
           /\ acked'[k][c] = v
           /\ \A l \in Keys, e \in Clients :
                <<l, e>> # <<k, c>> => acked'[l][e] = acked[l][e]
BY Zenon DEF TypeCore, Confirm

\* The two outcomes of the race to create a block.
LEMMA InsertOutcome ==
    ASSUME TypeCore, NEW c \in Clients, WRITE_Insert(c)
    PROVE  \E b \in Buffers, k \in Keys :
             /\ k = <<job[c].file, job[c].block>>
             /\ NewBuffer(b)
             /\ mem_pool' = mem_pool \ {b}
             /\ \/ /\ buffer[k] = NULL
                   /\ buffer' = [buffer EXCEPT ![k] = b]
                   /\ heap' = heap \cup {b}
                   /\ Write(b, c, job[c].value)
                \/ /\ buffer[k] # NULL
                   /\ heap' = heap \ {b}
                   /\ Write(buffer[k], c, job[c].value)
                   /\ buffer' = buffer
             /\ Confirm(k, c, job[c].value)
             /\ job[c].value \in 1 .. MaxVersion
             /\ job' = [job EXCEPT ![c] = NoJob]
             /\ version' = version
BY WriteJob, Zenon DEF WRITE_Insert, InsertOrMerge, Put, Pop

\* Where the entries of a map are after a rename.
LEMMA RenameOutcome ==
    ASSUME TypeCore, NEW c \in Clients, NEW f \in Files, NEW g \in Files,
           RENAME_OP(c, f, g)
    PROVE  /\ f # g
           /\ buffer' \in [Keys -> Buffers \cup {NULL}]
           /\ \A n \in Blocks :
                /\ buffer'[<<f, n>>] = NULL
                /\ buffer'[<<g, n>>] = IF buffer[<<g, n>>] # NULL
                                      THEN buffer[<<g, n>>] ELSE buffer[<<f, n>>]
           /\ \A k \in Keys : k[1] \notin {f, g} => buffer'[k] = buffer[k]
<1>1. f # g /\ DOMAIN buffer' = Keys
  BY Zenon DEF RENAME_OP
<1>2. \A n \in Blocks :
        /\ buffer'[<<f, n>>] = NULL
        /\ buffer'[<<g, n>>] = Moved(buffer[<<g, n>>], buffer[<<f, n>>], NULL)
  BY <1>1, Zenon DEF RENAME_OP, Keys
<1>3. \A k \in Keys : k[1] \notin {f, g} => buffer'[k] = buffer[k]
  BY Zenon DEF RENAME_OP, Keys
<1>4. \A k \in Keys : buffer'[k] \in Buffers \cup {NULL}
  <2> TAKE k \in Keys
  <2>1. PICK h \in Files, n \in Blocks : k = <<h, n>>
    BY DEF Keys
  <2>2. /\ <<f, n>> \in Keys /\ <<g, n>> \in Keys
        /\ k[1] = h
    BY <2>1, Zenon DEF Keys
  <2> QED
    BY <1>2, <1>3, <2>1, <2>2, Zenon DEF Moved, TypeCore
<1>5. buffer' = [k \in Keys |-> buffer'[k]]
  BY Zenon DEF RENAME_OP
<1> QED
  BY <1>1, <1>2, <1>3, <1>4, <1>5, Zenon DEF Moved

\* A job keeps its shape when its file takes another name.
LEMMA RenamedType ==
    ASSUME NEW f \in Files, NEW g \in Files, NEW j \in Jobs \cup {NoJob}
    PROVE  Renamed(j, f, g) \in Jobs \cup {NoJob}
<1>1. CASE j.op = "WRITE"
  <2>1. [j EXCEPT !.file = g] \in Jobs
    BY <1>1 DEF Jobs, NoJob
  <2> QED
    BY <2>1, Zenon DEF Renamed
<1>2. CASE j.op = "WRITE0"
  <2>1. [j EXCEPT !.file = g] \in Jobs
    BY <1>2 DEF Jobs, NoJob
  <2> QED
    BY <2>1, Zenon DEF Renamed
<1>3. CASE j.op # "WRITE" /\ j.op # "WRITE0"
  BY <1>3, Zenon DEF Renamed
<1> QED
  BY <1>1, <1>2, <1>3, Zenon

\* Each action preserves the types.
LEMMA TypeCoreStep == TypeCore /\ [Next]_vars => TypeCore'
<1> SUFFICES ASSUME TypeCore, [Next]_vars PROVE TypeCore'
  BY Zenon
<1> USE BoundsAssumption
<1>1. ASSUME NEW c \in Clients, NEW k \in Keys, WRITE_Lookup(c, k)
      PROVE  TypeCore'
  <2>1. [op |-> "WRITE", file |-> k[1], block |-> k[2], seen |-> buffer[k],
         value |-> version[c] + 1] \in Jobs
    BY <1>1 DEF WRITE_Lookup, TypeCore, Jobs, Keys
  <2> QED
    BY <1>1, <2>1 DEF WRITE_Lookup, TypeCore, blocks
<1>2. ASSUME NEW c \in Clients, WRITE_Insert(c) PROVE TypeCore'
  <2>1. PICK b \in Buffers, k \in Keys :
           /\ mem_pool' = mem_pool \ {b}
           /\ \/ /\ buffer' = [buffer EXCEPT ![k] = b]
                 /\ heap' = heap \cup {b}
                 /\ Write(b, c, job[c].value)
              \/ /\ buffer[k] # NULL
                 /\ heap' = heap \ {b}
                 /\ Write(buffer[k], c, job[c].value)
                 /\ buffer' = buffer
           /\ Confirm(k, c, job[c].value)
           /\ job[c].value \in 1 .. MaxVersion
           /\ job' = [job EXCEPT ![c] = NoJob]
           /\ version' = version
    BY <1>2, InsertOutcome, Zenon
  <2>2. mem' \in [Buffers -> [Clients -> 0 .. MaxVersion]]
    <3>1. buffer[k] # NULL => buffer[k] \in Buffers
      BY Zenon DEF TypeCore
    <3>2. job[c].value \in 0 .. MaxVersion
      BY <2>1
    <3> QED
      BY <2>1, <3>1, <3>2, WriteType, Zenon
  <2>3. acked' \in [Keys -> [Clients -> 0 .. MaxVersion]]
    BY <2>1, ConfirmType
  <2> QED
    BY <2>1, <2>2, <2>3, Zenon DEF TypeCore
<1>3. ASSUME NEW c \in Clients, WRITE_Update(c) PROVE TypeCore'
  <2>1. /\ job[c].seen \in Buffers
        /\ job[c].value \in 0 .. MaxVersion
        /\ <<job[c].file, job[c].block>> \in Keys
    BY <1>3, WriteJob DEF WRITE_Update
  <2>2. mem' \in [Buffers -> [Clients -> 0 .. MaxVersion]]
    BY <1>3, <2>1, WriteType, Zenon DEF WRITE_Update
  <2>3. acked' \in [Keys -> [Clients -> 0 .. MaxVersion]]
    BY <1>3, <2>1, ConfirmType, Zenon DEF WRITE_Update
  <2> QED
    BY <1>3, <2>2, <2>3, Zenon DEF WRITE_Update, TypeCore
<1>4. ASSUME NEW c \in Clients, NEW f \in Files, NEW size \in 0 .. MaxSize,
             WRITE0_Lookup(c, f, size)
      PROVE  TypeCore'
  <2>1. [op |-> "WRITE0", file |-> f, seen |-> HasStat(f), value |-> size] \in Jobs
    BY Zenon DEF Jobs, HasStat
  <2> QED
    BY <1>4, <2>1, Zenon DEF WRITE0_Lookup, TypeCore, blocks, history
<1>5. ASSUME NEW c \in Clients, WRITE0_Insert(c) \/ WRITE0_Update(c)
      PROVE  TypeCore'
  BY <1>5, Zenon DEF WRITE0_Insert, WRITE0_Update, TypeCore, blocks
<1>6. ASSUME NEW c \in Clients, NEW f \in Files,
             (\E n \in 0 .. 1 : UNLINK_OP(c, f, n)) \/ DELETE_OP(c, f)
      PROVE  TypeCore'
  BY <1>6, Zenon DEF UNLINK_OP, DELETE_OP, TypeCore, blocks, history
<1>7. ASSUME NEW c \in Clients, NEW f \in Files, NEW g \in Files,
             RENAME_OP(c, f, g)
      PROVE  TypeCore'
  <2>1. buffer' \in [Keys -> Buffers \cup {NULL}]
    BY <1>7, RenameOutcome, Zenon
  <2>2. job' \in [Clients -> Jobs \cup {NoJob}]
    <3>1. \A d \in Clients : Renamed(job[d], f, g) \in Jobs \cup {NoJob}
      BY RenamedType, Zenon DEF TypeCore
    <3> QED
      BY <1>7, <3>1, Zenon DEF RENAME_OP
  <2>3. acked' \in [Keys -> [Clients -> 0 .. MaxVersion]]
    <3>1. \A k \in Keys : <<f, k[2]>> \in Keys
      BY Zenon DEF Keys
    <3>2. [d \in Clients |-> 0] \in [Clients -> 0 .. MaxVersion]
      OBVIOUS
    <3> QED
      BY <1>7, <3>1, <3>2, Zenon DEF RENAME_OP, TypeCore
  <2> QED
    BY <1>7, <2>1, <2>2, <2>3, Zenon DEF RENAME_OP, TypeCore
<1>8. ASSUME CleanGarbageCollector PROVE TypeCore'
  <2>1. mem_pool' \in SUBSET Buffers /\ heap' \in SUBSET Buffers
    BY <1>8 DEF CleanGarbageCollector, TypeCore, Stored
  <2>2. [c \in Clients |-> 0] \in [Clients -> 0 .. MaxVersion]
    OBVIOUS
  <2> QED
    BY <1>8, <2>1, <2>2, Zenon DEF CleanGarbageCollector, TypeCore
<1>9. ASSUME UNCHANGED vars PROVE TypeCore'
  BY <1>9, Zenon DEF vars, blocks, history, TypeCore
<1> QED
  BY <1>1, <1>2, <1>3, <1>4, <1>5, <1>6, <1>7, <1>8, <1>9, Zenon DEF Next

\* New memory is stored under no key.
LEMMA NewIsFree ==
    ASSUME TypeCore, OneOwner, NEW b \in Buffers, NewBuffer(b)
    PROVE  \A k \in Stored : buffer[k] # b
BY Zenon DEF NewBuffer, OneOwner

\* No step gives a buffer a second owner.
LEMMA OneOwnerStep == TypeCore /\ OneOwner /\ [Next]_vars => OneOwner'
<1> SUFFICES ASSUME TypeCore, OneOwner, [Next]_vars PROVE OneOwner'
  BY Zenon
<1>1. ASSUME UNCHANGED <<buffer, heap, mem_pool>> PROVE OneOwner'
  BY <1>1, Zenon DEF OneOwner, Stored
<1>2. ASSUME NEW c \in Clients, WRITE_Insert(c) PROVE OneOwner'
  <2>1. PICK b \in Buffers, k \in Keys :
           /\ NewBuffer(b)
           /\ mem_pool' = mem_pool \ {b}
           /\ \/ /\ buffer' = [buffer EXCEPT ![k] = b]
                 /\ heap' = heap \cup {b}
              \/ /\ heap' = heap \ {b}
                 /\ buffer' = buffer
    BY <1>2, InsertOutcome, Zenon
  <2>2. \A l \in Stored : buffer[l] # b
    BY <2>1, NewIsFree, Zenon
  <2>3. b \in Buffers /\ NULL \notin Buffers
    BY NullAssumption, Zenon
  <2>4. CASE buffer' = [buffer EXCEPT ![k] = b] /\ heap' = heap \cup {b}
    <3>1. Stored' = Stored \cup {k}
      BY <2>3, <2>4, ZenonT(30) DEF Stored, TypeCore
    <3>2. buffer'[k] = b /\ \A l \in Keys : l # k => buffer'[l] = buffer[l]
      BY <2>4, Zenon DEF TypeCore
    <3>3. \A l \in Stored' : l \in Keys /\ (l # k => l \in Stored)
      BY <3>1, Zenon DEF Stored
    <3> QED
      BY <2>1, <2>2, <2>4, <3>2, <3>3 DEF OneOwner
  <2>5. CASE heap' = heap \ {b} /\ buffer' = buffer
    BY <2>1, <2>2, <2>5, Zenon DEF OneOwner, Stored
  <2> QED
    BY <2>1, <2>4, <2>5, Zenon
<1>3. ASSUME NEW c \in Clients, NEW f \in Files, NEW g \in Files,
             RENAME_OP(c, f, g)
      PROVE  OneOwner'
  <2> DEFINE from(k) == IF k[1] = g /\ buffer[k] = NULL THEN <<f, k[2]>> ELSE k
  <2>1. \A k \in Stored' : from(k) \in Stored /\ buffer'[k] = buffer[from(k)]
                           /\ k[1] # f
    <3> TAKE k \in Stored'
    <3>1. PICK h \in Files, n \in Blocks : k = <<h, n>>
      BY DEF Stored, Keys
    <3>2. k \in Keys /\ <<f, n>> \in Keys /\ k[1] = h /\ k[2] = n
      BY <3>1, Zenon DEF Keys
    <3>3. buffer'[k] # NULL
      BY Zenon DEF Stored
    <3>4. /\ f # g
          /\ buffer'[<<f, n>>] = NULL
          /\ buffer'[<<g, n>>] = IF buffer[<<g, n>>] # NULL
                                THEN buffer[<<g, n>>] ELSE buffer[<<f, n>>]
          /\ h \notin {f, g} => buffer'[k] = buffer[k]
      BY <1>3, <3>2, RenameOutcome
    <3>5. h # f
      BY <3>1, <3>3, <3>4, Zenon
    <3>6. CASE h = g /\ buffer[k] = NULL
      <4>1. from(k) = <<f, n>> /\ buffer'[k] = buffer[<<f, n>>]
        BY <3>1, <3>2, <3>4, <3>6, Zenon
      <4> QED
        BY <3>2, <3>3, <3>5, <4>1, Zenon DEF Stored
    <3>7. CASE ~(h = g /\ buffer[k] = NULL)
      <4>1. from(k) = k /\ buffer'[k] = buffer[k]
        BY <3>1, <3>2, <3>4, <3>5, <3>7, Zenon
      <4> QED
        BY <3>2, <3>3, <3>5, <4>1, Zenon DEF Stored
    <3> QED
      BY <3>6, <3>7, Zenon
  <2>2. \A k, l \in Stored' : from(k) = from(l) => k = l
    <3> SUFFICES ASSUME NEW k \in Stored', NEW l \in Stored', from(k) = from(l)
                 PROVE  k = l
      BY Zenon
    <3>1. k \in Files \X Blocks /\ l \in Files \X Blocks
      BY Zenon DEF Stored, Keys
    <3>2. k = <<k[1], k[2]>> /\ l = <<l[1], l[2]>>
      BY <3>1
    <3>3. k[1] # f /\ l[1] # f
      BY <2>1, Zenon
    <3> QED
      BY <3>2, <3>3
  <2>3. UNCHANGED <<heap, mem_pool>>
    BY <1>3, Zenon DEF RENAME_OP
  <2> HIDE DEF from
  <2> QED
    BY <2>1, <2>2, <2>3 DEF OneOwner
<1>4. ASSUME CleanGarbageCollector PROVE OneOwner'
  <2> DEFINE dead == {f \in Files : garbage[f] > 0}
             erased == {buffer[k] : k \in {i \in Stored : i[1] \in dead}}
  <2>1. PICK kept \in SUBSET erased :
          mem_pool' = mem_pool \cup kept /\ heap' = heap \ (erased \ kept)
    BY <1>4, Zenon DEF CleanGarbageCollector
  <2>2. \A k \in Stored' : k \in Stored /\ buffer'[k] = buffer[k] /\ k[1] \notin dead
    BY <1>4, Zenon DEF CleanGarbageCollector, Stored
  <2>3. \A k \in Stored' : buffer[k] \notin erased
    BY <2>2, Zenon DEF OneOwner
  <2>4. erased \subseteq heap \ mem_pool
    BY Zenon DEF OneOwner
  <2> HIDE DEF erased, dead
  <2> QED
    BY <2>1, <2>2, <2>3, <2>4, Zenon DEF OneOwner
<1>5. ASSUME NEW c \in Clients,
             \/ \E k \in Keys : WRITE_Lookup(c, k)
             \/ WRITE_Update(c)
             \/ \E f \in Files : \E size \in 0 .. MaxSize : WRITE0_Lookup(c, f, size)
             \/ WRITE0_Insert(c) \/ WRITE0_Update(c)
             \/ \E f \in Files : \E n \in 0 .. 1 : UNLINK_OP(c, f, n)
             \/ \E f \in Files : DELETE_OP(c, f)
      PROVE  UNCHANGED <<buffer, heap, mem_pool>>
  BY <1>5, Zenon DEF WRITE_Lookup, WRITE_Update, WRITE0_Lookup, WRITE0_Insert,
              WRITE0_Update, UNLINK_OP, DELETE_OP, blocks
<1>6. UNCHANGED vars => UNCHANGED <<buffer, heap, mem_pool>>
  BY Zenon DEF vars, blocks
<1> QED
  BY <1>1, <1>2, <1>3, <1>4, <1>5, <1>6, Zenon DEF Next

\* Initially nothing is stored, allocated or confirmed.
LEMMA InitCore == Init => TypeCore /\ OneOwner /\ SeenIsCurrent /\ AckedIsStored
<1> SUFFICES ASSUME Init PROVE TypeCore /\ OneOwner /\ SeenIsCurrent /\ AckedIsStored
  BY Zenon
<1>1. TypeCore
  BY BoundsAssumption DEF Init, TypeCore
<1>2. OneOwner
  BY Zenon DEF Init, OneOwner, Stored
<1>3. SeenIsCurrent
  BY Zenon DEF Init, SeenIsCurrent, NoJob
<1>4. AckedIsStored
  BY DEF Init, AckedIsStored
<1> QED
  BY <1>1, <1>2, <1>3, <1>4, Zenon

\* No memory has two owners, with the collector and renames of any kind.
THEOREM OneOwnerAlways == Spec => []OneOwner
<1>1. Init => TypeCore /\ OneOwner
  BY InitCore, Zenon
<1>2. TypeCore /\ OneOwner /\ [Next]_vars => (TypeCore /\ OneOwner)'
  BY TypeCoreStep, OneOwnerStep, Zenon
<1> QED
  BY <1>1, <1>2, PTL DEF Spec

\* A rename to a name that is not in use moves every entry, and leaves the
\* entries of other names alone.
LEMMA QuietRename ==
    ASSUME TypeCore, ~BusyTargets, NEW c \in Clients, NEW f \in Files,
           NEW g \in Files, RENAME_OP(c, f, g)
    PROVE  /\ \A n \in Blocks :
                /\ buffer'[<<f, n>>] = NULL
                /\ \A d \in Clients : acked'[<<f, n>>][d] = 0
                /\ buffer'[<<g, n>>] = buffer[<<f, n>>]
                /\ acked'[<<g, n>>] = acked[<<f, n>>]
                /\ buffer[<<g, n>>] = NULL
           /\ \A h \in Files \ {f, g}, n \in Blocks :
                /\ buffer'[<<h, n>>] = buffer[<<h, n>>]
                /\ acked'[<<h, n>>] = acked[<<h, n>>]
<1>1. \A h \in Files, n \in Blocks :
        <<h, n>> \in Keys /\ <<h, n>>[1] = h /\ <<h, n>>[2] = n
  BY Zenon DEF Keys
<1>2. f # g /\ \A n \in Blocks : buffer[<<g, n>>] = NULL
  BY Zenon DEF RENAME_OP, HasBlocks
<1>3. /\ \A n \in Blocks, d \in Clients : acked'[<<f, n>>][d] = 0
      /\ \A n \in Blocks : acked'[<<g, n>>] = acked[<<f, n>>]
      /\ \A h \in Files \ {f, g}, n \in Blocks : acked'[<<h, n>>] = acked[<<h, n>>]
  BY <1>1, <1>2, Zenon DEF RENAME_OP
<1> QED
  BY <1>1, <1>2, <1>3, RenameOutcome

\* Without collections, and when the target of a rename is not in use, the
\* address a thread keeps stays the address of its block.
LEMMA SeenStep ==
    ASSUME TypeCore, SeenIsCurrent, ~SpuriousWakeups, ~BusyTargets, [Next]_vars
    PROVE  SeenIsCurrent'
<1> DEFINE key(d) == <<job[d].file, job[d].block>>
<1>1. ASSUME NEW c \in Clients, buffer' = buffer,
             job' = [job EXCEPT ![c] = job'[c]],
             job'[c].op = "WRITE" =>
               job'[c].seen = buffer[<<job'[c].file, job'[c].block>>]
      PROVE  SeenIsCurrent'
  BY <1>1, Zenon DEF SeenIsCurrent, TypeCore
<1>2. ASSUME NEW c \in Clients, NEW k \in Keys, WRITE_Lookup(c, k)
      PROVE  SeenIsCurrent'
  <2>1. k = <<k[1], k[2]>>
    BY DEF Keys
  <2> QED
    BY <1>1, <1>2, <2>1, Zenon DEF WRITE_Lookup, blocks, TypeCore
<1>3. ASSUME NEW c \in Clients, WRITE_Insert(c) PROVE SeenIsCurrent'
  <2>1. PICK b \in Buffers, k \in Keys :
           /\ \/ buffer[k] = NULL /\ buffer' = [buffer EXCEPT ![k] = b]
              \/ buffer' = buffer
           /\ job' = [job EXCEPT ![c] = NoJob]
    BY <1>3, InsertOutcome, Zenon
  <2> SUFFICES ASSUME NEW d \in Clients, job'[d].op = "WRITE",
                      job'[d].seen # NULL
               PROVE  job'[d].seen = buffer'[<<job'[d].file, job'[d].block>>]
    BY Zenon DEF SeenIsCurrent
  <2>2. d # c /\ job'[d] = job[d]
    BY <2>1, Zenon DEF TypeCore, NoJob
  <2>3. job[d].seen = buffer[key(d)] /\ key(d) \in Keys
    BY <2>2, WriteJob, Zenon DEF SeenIsCurrent
  <2>4. buffer'[key(d)] = buffer[key(d)]
    BY <2>1, <2>2, <2>3, Zenon DEF TypeCore
  <2> QED
    BY <2>2, <2>3, <2>4, Zenon
<1>4. ASSUME NEW c \in Clients,
             WRITE_Update(c) \/ WRITE0_Insert(c) \/ WRITE0_Update(c)
      PROVE  SeenIsCurrent'
  <2>1. buffer' = buffer /\ job' = [job EXCEPT ![c] = NoJob]
    BY <1>4, Zenon DEF WRITE_Update, WRITE0_Insert, WRITE0_Update, blocks
  <2>2. job'[c] = NoJob /\ NoJob.op # "WRITE"
    BY <2>1, Zenon DEF TypeCore, NoJob
  <2> QED
    BY <1>1, <2>1, <2>2, Zenon
<1>5. ASSUME NEW c \in Clients, NEW f \in Files, NEW size \in 0 .. MaxSize,
             WRITE0_Lookup(c, f, size)
      PROVE  SeenIsCurrent'
  BY <1>1, <1>5, Zenon DEF WRITE0_Lookup, blocks, TypeCore
<1>6. ASSUME UNCHANGED <<buffer, job>> PROVE SeenIsCurrent'
  BY <1>6, Zenon DEF SeenIsCurrent
<1>7. ASSUME NEW c \in Clients, NEW f \in Files,
             (\E n \in 0 .. 1 : UNLINK_OP(c, f, n)) \/ DELETE_OP(c, f)
      PROVE  SeenIsCurrent'
  BY <1>6, <1>7, Zenon DEF UNLINK_OP, DELETE_OP, blocks
<1>8. ASSUME NEW c \in Clients, NEW f \in Files, NEW g \in Files,
             RENAME_OP(c, f, g)
      PROVE  SeenIsCurrent'
  <2> SUFFICES ASSUME NEW d \in Clients, job'[d].op = "WRITE",
                      job'[d].seen # NULL
               PROVE  job'[d].seen = buffer'[<<job'[d].file, job'[d].block>>]
    BY Zenon DEF SeenIsCurrent
  <2>1. job'[d] = Renamed(job[d], f, g)
    BY <1>8, Zenon DEF RENAME_OP
  <2>2. job[d] \in [op : {"WRITE"}, file : Files, block : Blocks,
                    seen : Buffers \cup {NULL}, value : 1 .. MaxVersion]
    BY <2>1 DEF TypeCore, Renamed, Jobs, NoJob
  <2>3. /\ job'[d].seen = job[d].seen
        /\ job'[d].block = job[d].block
        /\ job'[d].file = IF job[d].file = f THEN g ELSE job[d].file
    BY <2>1, <2>2, Zenon DEF Renamed
  <2>4. job[d].seen = buffer[key(d)] /\ job[d].seen # NULL
    BY <2>2, <2>3, Zenon DEF SeenIsCurrent
  <2> DEFINE h == job[d].file
             n == job[d].block
  <2>5. h \in Files /\ n \in Blocks /\ buffer[<<h, n>>] # NULL
    BY <2>2, <2>4, Zenon
  <2> HIDE DEF h, n
  <2>6. /\ buffer'[<<g, n>>] = buffer[<<f, n>>]
        /\ buffer[<<g, n>>] = NULL
    BY <1>8, <2>5, QuietRename
  <2>7. h \notin {f, g} => buffer'[<<h, n>>] = buffer[<<h, n>>]
    BY <1>8, <2>5, QuietRename
  <2> QED
    BY <2>3, <2>4, <2>5, <2>6, <2>7, Zenon DEF h, n
<1>9. ~CleanGarbageCollector
  BY Zenon DEF CleanGarbageCollector
<1>10. CASE UNCHANGED vars
  BY <1>6, <1>10, Zenon DEF vars, blocks
<1> QED
  BY <1>2, <1>3, <1>4, <1>5, <1>7, <1>8, <1>9, <1>10, Zenon DEF Next

\* A write that changes its own part of the block stored under its key keeps
\* every confirmed part in place.
LEMMA MergeStep ==
    ASSUME TypeCore, OneOwner, AckedIsStored, NEW c \in Clients, NEW k \in Keys,
           NEW v \in 1 .. MaxVersion, buffer[k] # NULL, buffer' = buffer,
           Write(buffer[k], c, v), Confirm(k, c, v)
    PROVE  AckedIsStored'
<1> SUFFICES ASSUME NEW l \in Keys, NEW e \in Clients, acked'[l][e] > 0
             PROVE  buffer[l] # NULL /\ mem'[buffer[l]][e] = acked'[l][e]
  BY Zenon DEF AckedIsStored, READ_OP
<1>1. buffer[k] \in Buffers /\ v \in 0 .. MaxVersion
  BY DEF TypeCore
<1>2. CASE l = k /\ e = c
  BY <1>1, <1>2, WriteType, ConfirmType
<1>3. CASE ~(l = k /\ e = c)
  <2>1. acked'[l][e] = acked[l][e]
    BY <1>1, <1>3, ConfirmType
  <2>2. buffer[l] # NULL /\ mem[buffer[l]][e] = acked[l][e]
    BY <2>1, Zenon DEF AckedIsStored, READ_OP
  <2>3. buffer[l] \in Buffers /\ (buffer[l] = buffer[k] => l = k)
    BY <2>2, Zenon DEF TypeCore, OneOwner, Stored
  <2>4. mem'[buffer[l]][e] = mem[buffer[l]][e]
    BY <1>1, <1>3, <2>3, WriteType
  <2> QED
    BY <2>1, <2>2, <2>4, Zenon
<1> QED
  BY <1>2, <1>3, Zenon

\* A write that stores a new buffer under an absent key touches no block.
LEMMA NewBlockStep ==
    ASSUME TypeCore, OneOwner, AckedIsStored, NEW c \in Clients, NEW k \in Keys,
           NEW v \in 1 .. MaxVersion, NEW b \in Buffers, NewBuffer(b),
           buffer[k] = NULL, buffer' = [buffer EXCEPT ![k] = b],
           Write(b, c, v), Confirm(k, c, v)
    PROVE  AckedIsStored'
<1> SUFFICES ASSUME NEW l \in Keys, NEW e \in Clients, acked'[l][e] > 0
             PROVE  buffer'[l] # NULL /\ mem'[buffer'[l]][e] = acked'[l][e]
  BY Zenon DEF AckedIsStored, READ_OP
<1>1. v \in 0 .. MaxVersion /\ b # NULL
  BY NullAssumption
<1>2. CASE l = k /\ e = c
  <2>1. buffer'[l] = b
    BY <1>2, Zenon DEF TypeCore
  <2> QED
    BY <1>1, <1>2, <2>1, WriteType, ConfirmType
<1>3. CASE ~(l = k /\ e = c)
  <2>1. acked'[l][e] = acked[l][e]
    BY <1>1, <1>3, ConfirmType
  <2>2. buffer[l] # NULL /\ mem[buffer[l]][e] = acked[l][e]
    BY <2>1, Zenon DEF AckedIsStored, READ_OP
  <2>3. buffer'[l] = buffer[l] /\ buffer[l] \in Buffers
    BY <2>2, Zenon DEF TypeCore
  <2>4. buffer[l] # b
    BY <2>2, NewIsFree, Zenon DEF Stored
  <2>5. mem'[buffer[l]][e] = mem[buffer[l]][e]
    BY <1>1, <2>3, <2>4, WriteType
  <2> QED
    BY <2>1, <2>2, <2>3, <2>5, Zenon
<1> QED
  BY <1>2, <1>3, Zenon

\* Every step keeps what was confirmed.
LEMMA AckedStep ==
    ASSUME TypeCore, OneOwner, SeenIsCurrent, AckedIsStored,
           ~SpuriousWakeups, ~BusyTargets, [Next]_vars
    PROVE  AckedIsStored'
<1>1. ASSUME UNCHANGED <<buffer, mem, acked>> PROVE AckedIsStored'
  BY <1>1, Zenon DEF AckedIsStored, READ_OP
<1>2. ASSUME NEW c \in Clients, WRITE_Insert(c) PROVE AckedIsStored'
  <2>1. PICK b \in Buffers, k \in Keys :
           /\ NewBuffer(b)
           /\ \/ /\ buffer[k] = NULL
                 /\ buffer' = [buffer EXCEPT ![k] = b]
                 /\ Write(b, c, job[c].value)
              \/ /\ buffer[k] # NULL
                 /\ Write(buffer[k], c, job[c].value)
                 /\ buffer' = buffer
           /\ Confirm(k, c, job[c].value)
           /\ job[c].value \in 1 .. MaxVersion
    BY <1>2, InsertOutcome, Zenon
  <2>2. CASE buffer[k] = NULL
    BY <2>1, <2>2, NewBlockStep, Zenon
  <2>3. CASE buffer[k] # NULL
    BY <2>1, <2>3, MergeStep, Zenon
  <2> QED
    BY <2>2, <2>3, Zenon
<1>3. ASSUME NEW c \in Clients, WRITE_Update(c) PROVE AckedIsStored'
  <2> DEFINE k == <<job[c].file, job[c].block>>
  <2>1. /\ job[c].op = "WRITE" /\ job[c].seen # NULL
        /\ Write(job[c].seen, c, job[c].value) /\ Confirm(k, c, job[c].value)
        /\ buffer' = buffer
    BY <1>3, Zenon DEF WRITE_Update
  <2>2. k \in Keys /\ job[c].value \in 1 .. MaxVersion
    BY <2>1, WriteJob, Zenon
  <2>3. job[c].seen = buffer[k]
    BY <2>1, Zenon DEF SeenIsCurrent
  <2> HIDE DEF k
  <2> QED
    BY <2>1, <2>2, <2>3, MergeStep, Zenon
<1>4. ASSUME NEW c \in Clients, NEW f \in Files, NEW g \in Files,
             RENAME_OP(c, f, g)
      PROVE  AckedIsStored'
  <2>0. /\ \A n \in Blocks :
             /\ buffer'[<<f, n>>] = NULL
             /\ \A d \in Clients : acked'[<<f, n>>][d] = 0
             /\ buffer'[<<g, n>>] = buffer[<<f, n>>]
             /\ acked'[<<g, n>>] = acked[<<f, n>>]
             /\ buffer[<<g, n>>] = NULL
        /\ \A h \in Files \ {f, g}, n \in Blocks :
             /\ buffer'[<<h, n>>] = buffer[<<h, n>>]
             /\ acked'[<<h, n>>] = acked[<<h, n>>]
    BY <1>4, QuietRename, Zenon
  <2> SUFFICES ASSUME NEW h \in Files, NEW n \in Blocks, NEW e \in Clients,
                      acked'[<<h, n>>][e] > 0
               PROVE  /\ buffer'[<<h, n>>] # NULL
                      /\ mem'[buffer'[<<h, n>>]][e] = acked'[<<h, n>>][e]
    BY DEF AckedIsStored, READ_OP, Keys
  <2>1. mem' = mem
    BY <1>4, Zenon DEF RENAME_OP
  <2>2. \A i \in Files : acked[<<i, n>>][e] > 0 =>
          buffer[<<i, n>>] # NULL /\ mem[buffer[<<i, n>>]][e] = acked[<<i, n>>][e]
    BY Zenon DEF AckedIsStored, READ_OP, Keys
  <2>3. h # f
    <3>1. acked'[<<f, n>>][e] = 0
      BY <2>0, Zenon
    <3> QED
      BY <3>1
  <2>4. CASE h = g
    <3>1. buffer'[<<h, n>>] = buffer[<<f, n>>] /\ acked'[<<h, n>>] = acked[<<f, n>>]
      BY <2>4, <2>0, Zenon
    <3> QED
      BY <2>1, <2>2, <3>1, Zenon
  <2>5. CASE h # g
    <3>1. buffer'[<<h, n>>] = buffer[<<h, n>>] /\ acked'[<<h, n>>] = acked[<<h, n>>]
      BY <2>3, <2>5, <2>0, Zenon
    <3> QED
      BY <2>1, <2>2, <3>1, Zenon
  <2> QED
    BY <2>4, <2>5, Zenon
<1>5. ASSUME NEW c \in Clients,
             \/ \E k \in Keys : WRITE_Lookup(c, k)
             \/ \E f \in Files : \E size \in 0 .. MaxSize : WRITE0_Lookup(c, f, size)
             \/ WRITE0_Insert(c) \/ WRITE0_Update(c)
             \/ \E f \in Files : \E n \in 0 .. 1 : UNLINK_OP(c, f, n)
             \/ \E f \in Files : DELETE_OP(c, f)
      PROVE  UNCHANGED <<buffer, mem, acked>>
  BY <1>5, Zenon DEF WRITE_Lookup, WRITE0_Lookup, WRITE0_Insert, WRITE0_Update,
              UNLINK_OP, DELETE_OP, blocks, history
<1>6. ~CleanGarbageCollector
  BY Zenon DEF CleanGarbageCollector
<1>7. UNCHANGED vars => UNCHANGED <<buffer, mem, acked>>
  BY Zenon DEF vars, blocks, history
<1> QED
  BY <1>1, <1>2, <1>3, <1>4, <1>5, <1>6, <1>7, Zenon DEF Next

\* A confirmed write is what a later read returns, for any number of clients
\* that create, update and rename the same blocks at once, as long as no
\* collection runs and no rename goes to a name that is in use.
THEOREM AckedIsStoredAlways ==
    ASSUME ~SpuriousWakeups, ~BusyTargets
    PROVE  Spec => [](SeenIsCurrent /\ AckedIsStored)
<1> DEFINE IInv == TypeCore /\ OneOwner /\ SeenIsCurrent /\ AckedIsStored
<1>1. Init => IInv
  BY InitCore, Zenon
<1>2. IInv /\ [Next]_vars => IInv'
  BY TypeCoreStep, OneOwnerStep, SeenStep, AckedStep, Zenon
<1>3. IInv => SeenIsCurrent /\ AckedIsStored
  BY Zenon
<1> HIDE DEF IInv
<1> QED
  BY <1>1, <1>2, <1>3, PTL DEF Spec

-----------------------------------------------------------------------------
\* The types of the headers and of their history.
TypeSize ==
    /\ stat \in [Files -> Stats \cup {NoStat}]
    /\ acked_size \in [Files -> 0 .. MaxSize]
    /\ race_lost \in SUBSET Files

\* No size is confirmed for a file without a block 0: with it, SizeCoversAcked
\* survives the insert of a header.
SizeInv ==
    /\ TypeSize
    /\ \A f \in Files : ~HasStat(f) => acked_size[f] = 0
    /\ SizeCoversAcked

\* What the record of a thread that is writing block 0 holds.
LEMMA Write0Job ==
    ASSUME TypeCore, NEW c \in Clients, job[c].op = "WRITE0"
    PROVE  job[c].file \in Files /\ job[c].value \in 0 .. MaxSize
BY DEF TypeCore, Jobs, NoJob

\* Storing a header whose size covers the confirmed one, or declaring the race
\* lost, keeps the sizes of all files right.
LEMMA SizeStored ==
    ASSUME SizeInv, NEW f \in Files, NEW old \in 0 .. MaxSize, NEW new \in 0 .. MaxSize,
           stat' = [stat EXCEPT ![f] = [st_size |-> old, st_nlink |-> 1]],
           ConfirmSize(f, new),
           race_lost' \in SUBSET Files, race_lost \subseteq race_lost',
           f \in race_lost' \/ (new <= old /\ acked_size[f] <= old)
    PROVE  SizeInv'
<1>1. /\ acked_size' \in [Files -> 0 .. MaxSize]
      /\ acked_size'[f] = IF new > acked_size[f] THEN new ELSE acked_size[f]
      /\ \A g \in Files \ {f} : acked_size'[g] = acked_size[g]
  BY Zenon DEF SizeInv, TypeSize, ConfirmSize
<1>2. /\ [st_size |-> old, st_nlink |-> 1] \in Stats
      /\ [st_size |-> old, st_nlink |-> 1] # NoStat
  BY DEF Stats, Links, NoStat
<1>3. /\ stat' \in [Files -> Stats \cup {NoStat}]
      /\ stat'[f] # NoStat /\ stat'[f].st_size = old
      /\ \A g \in Files \ {f} : stat'[g] = stat[g]
  BY <1>2, Zenon DEF SizeInv, TypeSize
<1>4. f \in race_lost' \/ old >= acked_size'[f]
  BY <1>1, Zenon DEF SizeInv, TypeSize
<1>5. \A g \in Files : ~HasStat(g)' => acked_size'[g] = 0
  BY <1>1, <1>3, Zenon DEF SizeInv, HasStat
<1>6. SizeCoversAcked'
  <2> SUFFICES ASSUME NEW g \in Files \ race_lost', stat'[g] # NoStat
               PROVE  stat'[g].st_size >= acked_size'[g]
    BY Zenon DEF SizeCoversAcked, HasStat
  <2>1. CASE g = f
    BY <1>3, <1>4, <2>1, Zenon
  <2>2. CASE g # f
    BY <1>1, <1>3, <2>2, Zenon DEF SizeInv, SizeCoversAcked, HasStat
  <2> QED
    BY <2>1, <2>2, Zenon
<1> QED
  BY <1>1, <1>3, <1>5, <1>6, Zenon DEF SizeInv, TypeSize

\* Every step keeps the sizes right, the collector's included.
LEMMA SizeStep ==
    ASSUME TypeCore, SizeInv, ~BusyTargets, [Next]_vars
    PROVE  SizeInv'
<1>1. ASSUME UNCHANGED <<stat, acked_size, race_lost>> PROVE SizeInv'
  BY <1>1, SMTT(30) DEF SizeInv, TypeSize, SizeCoversAcked, HasStat
<1>2. ASSUME NEW c \in Clients,
             \/ \E k \in Keys : WRITE_Lookup(c, k)
             \/ WRITE_Insert(c) \/ WRITE_Update(c)
             \/ \E f \in Files : \E size \in 0 .. MaxSize : WRITE0_Lookup(c, f, size)
             \/ \E f \in Files : DELETE_OP(c, f)
      PROVE  UNCHANGED <<stat, acked_size, race_lost>>
  BY <1>2, Zenon DEF WRITE_Lookup, WRITE_Insert, WRITE_Update, WRITE0_Lookup,
              DELETE_OP, history
<1>3. ASSUME NEW c \in Clients, WRITE0_Insert(c) PROVE SizeInv'
  <2>1. PICK f \in Files, new \in 0 .. MaxSize : f = job[c].file /\ new = job[c].value
    BY <1>3, Write0Job, Zenon DEF WRITE0_Insert
  <2>2. /\ stat' = [stat EXCEPT ![f] = [st_size |-> new, st_nlink |-> 1]]
        /\ ConfirmSize(f, new)
        /\ race_lost' = IF HasStat(f) THEN race_lost \cup {f} ELSE race_lost
    BY <1>3, <2>1, Zenon DEF WRITE0_Insert
  <2>3. race_lost' \in SUBSET Files /\ race_lost \subseteq race_lost'
    BY <2>2, Zenon DEF SizeInv, TypeSize
  <2>4. f \in race_lost' \/ (new <= new /\ acked_size[f] <= new)
    BY <2>2 DEF SizeInv
  <2> QED
    BY <2>2, <2>3, <2>4, SizeStored, Zenon
<1>4. ASSUME NEW c \in Clients, WRITE0_Update(c) PROVE SizeInv'
  <2>1. PICK f \in Files, new \in 0 .. MaxSize : f = job[c].file /\ new = job[c].value
    BY <1>4, Write0Job, Zenon DEF WRITE0_Update
  <2>2. race_lost' = race_lost /\ race_lost' \in SUBSET Files
    BY <1>4, Zenon DEF WRITE0_Update, SizeInv, TypeSize
  <2>3. CASE HasStat(f)
    <3>1. PICK old \in 0 .. MaxSize : old = NewSize(stat[f].st_size, new)
      BY <2>3, BoundsAssumption, Zenon DEF HasStat, SizeInv, TypeSize, Stats, NewSize
    <3>2. stat[f].st_size \in 0 .. MaxSize /\ acked_size[f] \in 0 .. MaxSize
      BY <2>3, Zenon DEF HasStat, SizeInv, TypeSize, Stats
    <3>3. f \in race_lost' \/ (new <= old /\ acked_size[f] <= old)
      <4>1. f \in race_lost \/ stat[f].st_size >= acked_size[f]
        BY <2>3, Zenon DEF SizeInv, SizeCoversAcked
      <4> QED
        BY <2>2, <3>1, <3>2, <4>1 DEF NewSize
    <3>4. /\ stat' = [stat EXCEPT ![f] = [st_size |-> old, st_nlink |-> 1]]
          /\ ConfirmSize(f, new)
      BY <1>4, <2>1, <2>3, <3>1, Zenon DEF WRITE0_Update
    <3> QED
      BY <2>2, <3>3, <3>4, SizeStored, Zenon
  <2>4. CASE ~HasStat(f)
    BY <1>1, <1>4, <2>1, <2>2, <2>4, Zenon DEF WRITE0_Update
  <2> QED
    BY <2>3, <2>4, Zenon
<1>5. ASSUME NEW c \in Clients, NEW f \in Files, NEW n \in 0 .. 1, UNLINK_OP(c, f, n)
      PROVE  SizeInv'
  <2>1. acked_size' = acked_size /\ race_lost' = race_lost
    BY <1>5, Zenon DEF UNLINK_OP, history
  <2>2. CASE ~HasStat(f)
    BY <1>1, <1>5, <2>1, <2>2, Zenon DEF UNLINK_OP
  <2>3. CASE HasStat(f)
    <3>1. stat' = [stat EXCEPT ![f].st_nlink = Unlinked(stat[f].st_nlink)]
      BY <1>5, <2>3, Zenon DEF UNLINK_OP
    <3>2. stat[f] \in [st_size : 0 .. MaxSize, st_nlink : Links]
      BY <2>3, Zenon DEF HasStat, SizeInv, TypeSize, Stats
    <3>3. stat'[f] \in Stats /\ stat'[f].st_size = stat[f].st_size /\ stat'[f] # NoStat
      BY <3>1, <3>2 DEF SizeInv, TypeSize, Stats, Links, Unlinked, NoStat
    <3>4. /\ stat' \in [Files -> Stats \cup {NoStat}]
          /\ \A g \in Files \ {f} : stat'[g] = stat[g]
      BY <3>1, <3>3, Zenon DEF SizeInv, TypeSize
    <3>5. \A g \in Files : /\ HasStat(g)' <=> HasStat(g)
                           /\ HasStat(g) => stat'[g].st_size = stat[g].st_size
      BY <2>3, <3>3, <3>4, Zenon DEF HasStat
    <3> QED
      BY <2>1, <3>4, <3>5, Zenon DEF SizeInv, TypeSize, SizeCoversAcked
  <2> QED
    BY <2>2, <2>3, Zenon
<1>6. ASSUME NEW c \in Clients, NEW f \in Files, NEW g \in Files, RENAME_OP(c, f, g)
      PROVE  SizeInv'
  <2>1. f # g /\ ~HasStat(g)
    BY <1>6, Zenon DEF RENAME_OP, HasBlocks
  <2>2. /\ stat'[f] = NoStat /\ stat'[g] = stat[f]
        /\ \A h \in Files \ {f, g} : stat'[h] = stat[h]
    BY <1>6, <2>1, Zenon DEF RENAME_OP, Moved, HasStat
  <2>3. /\ acked_size'[f] = 0 /\ acked_size'[g] = acked_size[f]
        /\ \A h \in Files \ {f, g} : acked_size'[h] = acked_size[h]
    BY <1>6, <2>1, Zenon DEF RENAME_OP, SizeInv, TypeSize
  <2>4. /\ race_lost' \in SUBSET Files
        /\ g \in race_lost' <=> f \in race_lost
        /\ \A h \in Files \ {f, g} : h \in race_lost' <=> h \in race_lost
    BY <1>6, <2>1, Zenon DEF RENAME_OP
  <2>5. stat' \in [Files -> Stats \cup {NoStat}] /\ acked_size' \in [Files -> 0 .. MaxSize]
    <3>1. stat' = [h \in Files |-> stat'[h]] /\ DOMAIN acked_size' = Files
          /\ acked_size' = [h \in Files |-> acked_size'[h]]
      BY <1>6, Zenon DEF RENAME_OP, SizeInv, TypeSize
    <3>2. \A h \in Files : stat'[h] \in Stats \cup {NoStat} /\ acked_size'[h] \in 0 .. MaxSize
      <4>1. 0 \in 0 .. MaxSize
        BY BoundsAssumption, SMT
      <4>2. \A h \in Files : stat[h] \in Stats \cup {NoStat} /\ acked_size[h] \in 0 .. MaxSize
        BY Zenon DEF SizeInv, TypeSize
      <4>3. ASSUME NEW h \in Files
            PROVE  stat'[h] \in Stats \cup {NoStat} /\ acked_size'[h] \in 0 .. MaxSize
        <5>1. CASE h = f
          BY <2>2, <2>3, <4>1, <5>1, Zenon
        <5>2. CASE h = g
          BY <2>2, <2>3, <4>2, <5>2, Zenon
        <5>3. CASE h \in Files \ {f, g}
          BY <2>2, <2>3, <4>2, <5>3, Zenon
        <5> QED
          BY <5>1, <5>2, <5>3, Zenon
      <4> QED
        BY <4>3, Zenon
    <3> QED
      BY <3>1, <3>2, Zenon
  <2>6. \A h \in Files : ~HasStat(h)' => acked_size'[h] = 0
    BY <2>2, <2>3, Zenon DEF SizeInv, HasStat
  <2>7. SizeCoversAcked'
    BY <2>2, <2>3, <2>4, Zenon DEF SizeInv, SizeCoversAcked, HasStat
  <2> QED
    BY <2>4, <2>5, <2>6, <2>7, Zenon DEF SizeInv, TypeSize
<1>7. ASSUME CleanGarbageCollector PROVE SizeInv'
  <2> DEFINE dead == {f \in Files : garbage[f] > 0}
  <2>1. /\ stat' = [f \in Files |-> IF f \in dead THEN NoStat ELSE stat[f]]
        /\ acked_size' = [f \in Files |-> IF f \in dead THEN 0 ELSE acked_size[f]]
        /\ race_lost' = race_lost \ dead
    BY <1>7, Zenon DEF CleanGarbageCollector
  <2> HIDE DEF dead
  <2>2. TypeSize'
    BY <2>1, BoundsAssumption DEF SizeInv, TypeSize
  <2>3. \A f \in Files : /\ f \in dead => ~HasStat(f)' /\ acked_size'[f] = 0
                         /\ f \notin dead => stat'[f] = stat[f] /\ acked_size'[f] = acked_size[f]
    BY <2>1, Zenon DEF HasStat
  <2> QED
    BY <2>1, <2>2, <2>3, Zenon DEF SizeInv, SizeCoversAcked, HasStat
<1>8. UNCHANGED vars => UNCHANGED <<stat, acked_size, race_lost>>
  BY Zenon DEF vars, history
<1> QED
  BY <1>1, <1>2, <1>3, <1>4, <1>5, <1>6, <1>7, <1>8, Zenon DEF Next

\* The size of a file covers every size that was confirmed, for any number of
\* clients whose writes of block 0, unlinks and renames interleave with the
\* collector, unless a thread that lost the race to insert block 0 has copied
\* its stat over it, and as long as no rename goes to a name that is in use.
THEOREM SizeCoversAckedAlways ==
    ASSUME ~BusyTargets
    PROVE  Spec => []SizeCoversAcked
<1> DEFINE IInv == TypeCore /\ SizeInv
<1>1. Init => IInv
  <2> SUFFICES ASSUME Init PROVE SizeInv
    BY InitCore, Zenon
  <2>1. \A f \in Files : stat[f] = NoStat /\ acked_size[f] = 0
    BY Zenon DEF Init
  <2> QED
    BY <2>1, BoundsAssumption DEF Init, SizeInv, TypeSize, SizeCoversAcked, HasStat
<1>2. IInv /\ [Next]_vars => IInv'
  BY TypeCoreStep, SizeStep, Zenon
<1>3. IInv => SizeCoversAcked
  BY Zenon DEF SizeInv
<1> HIDE DEF IInv
<1> QED
  BY <1>1, <1>2, <1>3, PTL DEF Spec

===============================================================================

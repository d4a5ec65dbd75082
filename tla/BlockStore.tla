----------------------------- MODULE BlockStore -----------------------------
(***************************************************************************)
(* A data server of Hercules: srv_worker_helper (src/workers.c) over the   *)
(* blocks of one directory of its hierarchical map, the memory pool and    *)
(* the garbage collector.  Block 0 of a file holds its struct stat, every  *)
(* other block is a buffer of BLOCK_SIZE bytes.                            *)
(*                                                                         *)
(* The clients share the blocks of a file and each writes its own part of  *)
(* a block, as the ranks of a parallel program do.  A thread looks a block *)
(* up when it reads the request, then receives the data, and only then     *)
(* takes memory_protect: the two steps of a write interleave with          *)
(* everything else.  The last action of a write sends MSG_OK_OP.           *)
(***************************************************************************)
EXTENDS Integers, FiniteSets

CONSTANTS Files,            \* the URIs of the files of a directory
          Blocks,           \* the numbers of their data blocks
          Clients,          \* client processes, each served by its thread
          Buffers,          \* addresses of memory of BLOCK_SIZE bytes
          NULL,             \* no address
          BLOCK_SIZE,       \* bytes of a data block
          STAT_SIZE,        \* bytes of a struct stat
          max_storage_size, \* bytes the server may use
          MaxVersion,       \* bound on the writes of a client
          MaxSize,          \* bound on st_size
          MaxGarbage,       \* bound on the copies of a key in the vector
          SpuriousWakeups,  \* may pthread_cond_wait return by itself?
          BusyTargets       \* may the target of a rename be in use here?

ASSUME SizesAssumption ==
    /\ BLOCK_SIZE \in Nat /\ STAT_SIZE \in Nat /\ max_storage_size \in Nat
    /\ STAT_SIZE # BLOCK_SIZE
ASSUME BoundsAssumption ==
    MaxVersion \in Nat /\ MaxSize \in Nat /\ MaxGarbage \in Nat
ASSUME SwitchesAssumption ==
    SpuriousWakeups \in BOOLEAN /\ BusyTargets \in BOOLEAN
ASSUME NullAssumption == NULL \notin Buffers

VARIABLES
    buffer,             \* the map: the address of a data block, or NULL
    mem,                \* what an address holds: a version per part
    heap,               \* the addresses allocated and not freed
    mem_pool,           \* the allocated addresses kept for reuse
    stat,               \* st_size and st_nlink of block 0, if stored
    garbage,            \* copies of "uri" in buffer_garbage_collector
    garbage0,           \* copies of "uri$0" in buffer_garbage_collector
    quantity_occupied,  \* the server's count of the memory in use
    job,                \* the write a thread is carrying out
    up,                 \* FALSE once the server process has crashed
    version,            \* the writes a client has made
    acked,              \* history: the last version of a client's part of a
                        \* block that was confirmed with MSG_OK_OP, or 0
    acked_size,         \* history: the largest st_size confirmed, or 0
    race_lost           \* history: the files whose stored block 0 was copied
                        \* over by a thread that lost the race to insert it

blocks == <<buffer, mem, heap, mem_pool>>
history == <<version, acked, acked_size, race_lost>>
vars == <<blocks, stat, garbage, garbage0, quantity_occupied, job, up, history>>

Keys == Files \X Blocks
Links == 0 .. 2
Stats == [st_size : 0 .. MaxSize, st_nlink : Links]
NoStat == [st_nlink |-> 0]
NoJob == [op |-> "NOP"]
Jobs == [op : {"WRITE"}, file : Files, block : Blocks, seen : Buffers \cup {NULL},
         value : 1 .. MaxVersion]
     \cup [op : {"WRITE0"}, file : Files, seen : BOOLEAN, value : 0 .. MaxSize]

Stored == {k \in Keys : buffer[k] # NULL}
HasStat(f) == stat[f] # NoStat

Init ==
    /\ buffer = [k \in Keys |-> NULL]
    /\ mem = [b \in Buffers |-> [c \in Clients |-> 0]]
    /\ heap = {}
    /\ mem_pool = {}
    /\ stat = [f \in Files |-> NoStat]
    /\ garbage = [f \in Files |-> 0]
    /\ garbage0 = [f \in Files |-> 0]
    /\ quantity_occupied = 0
    /\ job = [c \in Clients |-> NoJob]
    /\ up = TRUE
    /\ version = [c \in Clients |-> 0]
    /\ acked = [k \in Keys |-> [c \in Clients |-> 0]]
    /\ acked_size = [f \in Files |-> 0]
    /\ race_lost = {}

-----------------------------------------------------------------------------
\* READ_OP: the block, or the error code when there is none.
READ_OP(k) == IF buffer[k] = NULL THEN "NO_KEY" ELSE mem[buffer[k]]

\* IncreaseMemoryOccupied refuses what does not fit, and its caller,
\* HierarchicalMapPut, ignores the refusal.
IncreaseMemoryOccupied(n) ==
    quantity_occupied' = IF quantity_occupied + n > max_storage_size
                         THEN quantity_occupied ELSE quantity_occupied + n

\* Mutant of DecreaseMemoryOccupied: the counter starts again.
ResetMemoryOccupied(n) == quantity_occupied' = 0 * n

DecreaseMemoryOccupied(n) ==
    quantity_occupied' = IF quantity_occupied - n < 0
                         THEN quantity_occupied ELSE quantity_occupied - n

\* The memory a write gets for a new block: the pool's before the system's.
NewBuffer(b) == IF mem_pool # {} THEN b \in mem_pool ELSE b \in Buffers \ heap

\* Mutant of Pop: the element is read and stays in the queue.
Peek(b) == b \in Buffers /\ UNCHANGED mem_pool

\* StsQueue.pop.
Pop(b) == mem_pool' = mem_pool \ {b}

Write(b, c, v) == mem' = [mem EXCEPT ![b][c] = v]

Confirm(k, c, v) == acked' = [acked EXCEPT ![k][c] = v]

Idle(c) == up /\ job[c] = NoJob

-----------------------------------------------------------------------------
\* WRITE_OP of a data block: the first lookup, without memory_protect.
WRITE_Lookup(c, k) ==
    /\ Idle(c)
    /\ version[c] < MaxVersion
    /\ version' = [version EXCEPT ![c] = @ + 1]
    /\ job' = [job EXCEPT ![c] = [op |-> "WRITE", file |-> k[1], block |-> k[2],
                                  seen |-> buffer[k], value |-> version[c] + 1]]
    /\ UNCHANGED <<blocks, stat, garbage, garbage0, quantity_occupied, up,
                   acked, acked_size, race_lost>>

\* HierarchicalMapPut of a buffer that is new or comes from the pool.
Put(k, b, c, v) ==
    /\ buffer' = [buffer EXCEPT ![k] = b]
    /\ heap' = heap \cup {b}
    /\ Write(b, c, v)
    /\ IF b \in mem_pool THEN UNCHANGED quantity_occupied
                         ELSE IncreaseMemoryOccupied(BLOCK_SIZE)

\* Mutant of InsertOrMerge: no second lookup, so the put of a thread that
\* lost the race changes nothing (std::map::insert keeps what is stored).
InsertUnchecked(k, b, c, v) ==
    IF buffer[k] = NULL
    THEN Put(k, b, c, v)
    ELSE heap' = heap \cup {b} /\ UNCHANGED <<buffer, mem, quantity_occupied>>

\* Mutant of InsertOrMerge: the last buffer replaces the stored one.
InsertReplaces(k, b, c, v) ==
    /\ buffer' = [buffer EXCEPT ![k] = b]
    /\ heap' = (heap \ {buffer[k]}) \cup {b}
    /\ Write(b, c, v)
    /\ UNCHANGED quantity_occupied

\* Under memory_protect the key is looked up again.  If it is still absent
\* the buffer becomes the block; if another thread won the race, this one's
\* part is copied into the stored block and the buffer is given back to the
\* system, even when it came from the pool.
InsertOrMerge(k, b, c, v) ==
    \/ /\ buffer[k] = NULL
       /\ Put(k, b, c, v)
    \/ /\ buffer[k] # NULL
       /\ heap' = heap \ {b}
       /\ Write(buffer[k], c, v)
       /\ UNCHANGED <<buffer, quantity_occupied>>

\* The lookup found nothing: the data are received in a new buffer.
WRITE_Insert(c) ==
    /\ up
    /\ job[c].op = "WRITE" /\ job[c].seen = NULL
    /\ LET k == <<job[c].file, job[c].block>>
       IN  /\ \E b \in Buffers :
                NewBuffer(b) /\ Pop(b) /\ InsertOrMerge(k, b, c, job[c].value)
           /\ Confirm(k, c, job[c].value)
    /\ job' = [job EXCEPT ![c] = NoJob]
    /\ UNCHANGED <<stat, garbage, garbage0, up, version, acked_size, race_lost>>

\* The lookup found the block: the data are received into the address it
\* returned, under memory_protect.
WRITE_Update(c) ==
    /\ up
    /\ job[c].op = "WRITE" /\ job[c].seen # NULL
    /\ Write(job[c].seen, c, job[c].value)
    /\ Confirm(<<job[c].file, job[c].block>>, c, job[c].value)
    /\ job' = [job EXCEPT ![c] = NoJob]
    /\ UNCHANGED <<buffer, heap, mem_pool, stat, garbage, garbage0,
                   quantity_occupied, up, version, acked_size, race_lost>>

\* WRITE_OP of block 0: the first lookup.  A stored block 0 is taken out of
\* the garbage vector, where garbage_collector_pop looks for "uri".  Several
\* clients may find no block 0: create_dataset asks whether the dataset
\* exists, sends its SET and never looks at the answer.
WRITE0_Lookup(c, f, size) ==
    /\ Idle(c)
    /\ job' = [job EXCEPT ![c] = [op |-> "WRITE0", file |-> f,
                                  seen |-> HasStat(f), value |-> size]]
    /\ garbage' = [garbage EXCEPT ![f] = IF HasStat(f) /\ @ > 0 THEN @ - 1 ELSE @]
    /\ UNCHANGED <<blocks, stat, garbage0, quantity_occupied, up, history>>

ConfirmSize(f, size) ==
    acked_size' = [acked_size EXCEPT ![f] = IF size > @ THEN size ELSE @]

\* No block 0 at the lookup: inserted, or, if one has appeared since, copied
\* over it as it is, without the maximum of the two sizes.
WRITE0_Insert(c) ==
    /\ up
    /\ job[c].op = "WRITE0" /\ ~job[c].seen
    /\ LET f == job[c].file
       IN  /\ stat' = [stat EXCEPT ![f] =
                         [st_size |-> job[c].value, st_nlink |-> 1]]
           /\ IF HasStat(f) THEN UNCHANGED quantity_occupied
                            ELSE IncreaseMemoryOccupied(STAT_SIZE)
           /\ race_lost' = IF HasStat(f) THEN race_lost \cup {f} ELSE race_lost
           /\ ConfirmSize(f, job[c].value)
    /\ job' = [job EXCEPT ![c] = NoJob]
    /\ UNCHANGED <<blocks, garbage, garbage0, up, version, acked>>

\* Mutant of NewSize: the size sent last stays.
LastSize(old, new) == new

\* std::max of the two sizes, computed under memory_protect.
NewSize(old, new) == IF new > old THEN new ELSE old

\* Block 0 was stored: its st_size is the larger of the old and the new one.
\* A block 0 freed in the meantime keeps nothing of the write.
WRITE0_Update(c) ==
    /\ up
    /\ job[c].op = "WRITE0" /\ job[c].seen
    /\ LET f == job[c].file
           new == job[c].value
       IN  IF HasStat(f)
           THEN /\ stat' = [stat EXCEPT ![f] =
                              [st_size |-> NewSize(stat[f].st_size, new),
                               st_nlink |-> 1]]
                /\ ConfirmSize(f, new)
           ELSE UNCHANGED <<stat, acked_size>>
    /\ job' = [job EXCEPT ![c] = NoJob]
    /\ UNCHANGED <<blocks, garbage, garbage0, quantity_occupied, up, version,
                   acked, race_lost>>

\* Mutant of Unlinked: a signed count.
UnlinkedSigned(n) == n - 1

\* st_nlink is unsigned: zero minus one is a huge number of links (2 here).
Unlinked(n) == IF n = 1 THEN 0 ELSE 2

\* UNLINK_OP: the last link of a file that, by the client's word, nobody has
\* open puts the key of block 0, "uri$0", in the garbage vector.  Without a
\* block 0 the error is sent and a null pointer is used.
UNLINK_OP(c, f, num_opened) ==
    /\ Idle(c)
    /\ \/ /\ ~HasStat(f)
          /\ up' = FALSE
          /\ UNCHANGED <<stat, garbage0>>
       \/ /\ HasStat(f)
          /\ stat' = [stat EXCEPT ![f].st_nlink = Unlinked(@)]
          /\ IF stat[f].st_nlink = 1 /\ num_opened = 0
             THEN /\ garbage0[f] < MaxGarbage
                  /\ garbage0' = [garbage0 EXCEPT ![f] = @ + 1]
             ELSE UNCHANGED garbage0
          /\ UNCHANGED up
    /\ UNCHANGED <<blocks, garbage, quantity_occupied, job, history>>

\* DELETE_OP: the key as it was sent, "uri", goes to the garbage vector.
DELETE_OP(c, f) ==
    /\ Idle(c)
    /\ garbage[f] < MaxGarbage
    /\ garbage' = [garbage EXCEPT ![f] = @ + 1]
    /\ UNCHANGED <<blocks, stat, garbage0, quantity_occupied, job, up, history>>

-----------------------------------------------------------------------------
HasBlocks(f) == HasStat(f) \/ \E n \in Blocks : buffer[<<f, n>>] # NULL

Uses(j, f) == j # NoJob /\ j.file = f

\* The entry of the new name after extract and insert: an entry that was
\* there already stays, and the one that was moved is lost.
Moved(new, old, none) == IF new # none THEN new ELSE old

\* A thread that looked up a block before the rename has its address, which
\* is now the address of a block of the new name.
Renamed(j, f, g) ==
    IF \/ j.op = "WRITE" /\ j.file = f /\ j.seen # NULL
       \/ j.op = "WRITE0" /\ j.file = f /\ j.seen
    THEN [j EXCEPT !.file = g] ELSE j

\* RENAME_OP, rename_data_srv_worker: every block of f takes the name of g.
\* The client sends it to the server of block 0, for a file that exists, and
\* has unlinked g before, if it existed; a target that is not busy has no
\* block and no write under way.
RENAME_OP(c, f, g) ==
    /\ Idle(c)
    /\ f # g
    /\ HasStat(f)
    /\ HasStat(g) => stat[g].st_nlink # 1
    /\ BusyTargets \/ (~HasBlocks(g) /\ \A d \in Clients : ~Uses(job[d], g))
    /\ buffer' = [k \in Keys |->
                    CASE k[1] = f -> NULL
                      [] k[1] = g -> Moved(buffer[k], buffer[<<f, k[2]>>], NULL)
                      [] OTHER -> buffer[k]]
    /\ stat' = [h \in Files |->
                  CASE h = f -> NoStat
                    [] h = g -> Moved(stat[g], stat[f], NoStat)
                    [] OTHER -> stat[h]]
    /\ job' = [d \in Clients |-> Renamed(job[d], f, g)]
    /\ acked' = [k \in Keys |->
                   CASE k[1] = f -> [d \in Clients |-> 0]
                     [] k[1] = g -> acked[<<f, k[2]>>]
                     [] OTHER -> acked[k]]
    /\ acked_size' = [acked_size EXCEPT ![f] = 0, ![g] = acked_size[f]]
    /\ race_lost' = {h \in Files : IF h = g THEN f \in race_lost
                                           ELSE h \in race_lost \ {f}}
    /\ UNCHANGED <<mem, heap, mem_pool, garbage, garbage0, quantity_occupied,
                   up, version>>

-----------------------------------------------------------------------------
\* FreeMemory puts the memory of a data block in the pool while the pool's
\* length plus BLOCK_SIZE is below the size of the storage, and frees it
\* otherwise.
PoolRoom == LET room == max_storage_size - BLOCK_SIZE - Cardinality(mem_pool)
            IN  IF room > 0 THEN room ELSE 0

\* GarbageCollector, cleaning: the blocks of every file whose "uri" is in the
\* vector are erased.  A key "uri$0" is the path of no block.
CleanGarbageCollector ==
    /\ up
    /\ SpuriousWakeups
    /\ \E f \in Files : garbage[f] + garbage0[f] > 0
    /\ LET dead == {f \in Files : garbage[f] > 0}
           erased == {buffer[k] : k \in {i \in Stored : i[1] \in dead}}
           headers == {f \in dead : HasStat(f)}
       IN  /\ \E kept \in SUBSET erased :
                /\ IF Cardinality(erased) <= PoolRoom
                   THEN kept = erased
                   ELSE Cardinality(kept) = PoolRoom
                /\ mem_pool' = mem_pool \cup kept
                /\ heap' = heap \ (erased \ kept)
                /\ DecreaseMemoryOccupied(
                     BLOCK_SIZE * Cardinality(erased \ kept)
                       + STAT_SIZE * Cardinality(headers))
           /\ buffer' = [k \in Keys |-> IF k[1] \in dead THEN NULL ELSE buffer[k]]
           /\ stat' = [f \in Files |-> IF f \in dead THEN NoStat ELSE stat[f]]
           /\ acked' = [k \in Keys |-> IF k[1] \in dead
                                       THEN [c \in Clients |-> 0] ELSE acked[k]]
           /\ acked_size' = [f \in Files |-> IF f \in dead THEN 0 ELSE acked_size[f]]
           /\ race_lost' = race_lost \ dead
    /\ garbage' = [f \in Files |-> 0]
    /\ garbage0' = [f \in Files |-> 0]
    /\ UNCHANGED <<mem, job, up, version>>

Next ==
    \/ \E c \in Clients :
         \/ \E k \in Keys : WRITE_Lookup(c, k)
         \/ WRITE_Insert(c)
         \/ WRITE_Update(c)
         \/ \E f \in Files : \E size \in 0 .. MaxSize : WRITE0_Lookup(c, f, size)
         \/ WRITE0_Insert(c)
         \/ WRITE0_Update(c)
         \/ \E f \in Files : \E num_opened \in 0 .. 1 : UNLINK_OP(c, f, num_opened)
         \/ \E f \in Files : DELETE_OP(c, f)
         \/ \E f, g \in Files : RENAME_OP(c, f, g)
    \/ CleanGarbageCollector

Spec == Init /\ [][Next]_vars

-----------------------------------------------------------------------------
TypeOK ==
    /\ buffer \in [Keys -> Buffers \cup {NULL}]
    /\ mem \in [Buffers -> [Clients -> 0 .. MaxVersion]]
    /\ heap \in SUBSET Buffers
    /\ mem_pool \in SUBSET Buffers
    /\ stat \in [Files -> Stats \cup {NoStat}]
    /\ garbage \in [Files -> Nat]
    /\ garbage0 \in [Files -> Nat]
    /\ quantity_occupied \in Nat
    /\ job \in [Clients -> Jobs \cup {NoJob}]
    /\ up \in BOOLEAN
    /\ version \in [Clients -> 0 .. MaxVersion]
    /\ acked \in [Keys -> [Clients -> 0 .. MaxVersion]]
    /\ acked_size \in [Files -> 0 .. MaxSize]
    /\ race_lost \in SUBSET Files

\* No memory has two owners: two blocks never share an address, and what is
\* stored or kept in mem_pool is allocated and never both, whoever lost the
\* race to create a block and whatever the collector gave back.
OneOwner ==
    /\ \A k, l \in Stored : buffer[k] = buffer[l] => k = l
    /\ \A k \in Stored : buffer[k] \in heap \ mem_pool
    /\ mem_pool \subseteq heap

\* A write that was confirmed is what a later read returns, although several
\* clients may have created the block at once and all but one lost the race.
AckedIsStored ==
    \A k \in Keys, c \in Clients :
      acked[k][c] > 0 => buffer[k] # NULL /\ READ_OP(k)[c] = acked[k][c]

\* The address a thread keeps between its lookup and its write is still the
\* address of the block it looked up.
SeenIsCurrent ==
    \A c \in Clients :
      job[c].op = "WRITE" =>
        job[c].seen \in {NULL, buffer[<<job[c].file, job[c].block>>]}

\* The size of a file covers every size that was confirmed to a client,
\* however the updates of block 0 interleave and whoever inserted it, unless
\* a thread that had found no block 0 came last: WRITE_OP copies its stat over
\* the stored one without std::max, and a confirmed size may be lost.
SizeCoversAcked ==
    \A f \in Files \ race_lost :
      HasStat(f) => stat[f].st_size >= acked_size[f]

\* The memory that stored blocks, headers and the pool take.
InUse == BLOCK_SIZE * Cardinality({buffer[k] : k \in Stored} \cup mem_pool)
           + STAT_SIZE * Cardinality({f \in Files : HasStat(f)})

\* As long as the storage is large enough, the counter never falls below the
\* memory in use, whatever was pooled, reused, freed or lost in a race.
OccupiedCoversUse == quantity_occupied >= InUse

=============================================================================

------------------------------- MODULE FileIO -------------------------------
(***************************************************************************)
(* The POSIX calls on one file: open, close, read, write, lseek and stat   *)
(* (tools/imss_posix.c) over imss_create, imss_open, imss_write,           *)
(* imss_sread, imss_close and imss_getattr (fuse/imss_posix_api.c).        *)
(*                                                                         *)
(* A file is cut into blocks of IMSS_DATA_BSIZE bytes, numbered from one;  *)
(* block 0 holds its size.  set_data and get_ndata on one block are steps  *)
(* here: Replication shows that they make a block a register.  A process   *)
(* keeps the size in a map of its own, and one descriptor: opening a path  *)
(* that is open returns the descriptor it has.                             *)
(*                                                                         *)
(* A byte is the write that stored it and its place in the buffer of that  *)
(* write.                                                                  *)
(***************************************************************************)
EXTENDS Integers, Sequences, FiniteSets

CONSTANTS Threads,
          process,          \* the process of a thread
          IMSS_DATA_BSIZE,  \* bytes of a block
          WriteSizes,       \* sizes asked of write and pwrite
          ReadSizes,        \* sizes asked of read and pread
          Offsets,          \* offsets asked of lseek, pwrite and pread
          Positional,       \* the threads that use pwrite and pread, the others
                            \* use write, read and lseek
          NoCall,           \* the call of a thread that is in none
          NoFd,             \* no descriptor
          NoStat,           \* no block 0, or no entry in the local map
          NoBlock,          \* a block no server has
          NoByte,           \* a byte nobody wrote: what the memory held before
          MaxBlk,           \* bound on the blocks of the file
          MaxWrites         \* bound on the writes

Processes == {process[t] : t \in Threads}

ASSUME SizesAssumption ==
    /\ IMSS_DATA_BSIZE \in Nat \ {0}
    /\ WriteSizes \subseteq Nat /\ ReadSizes \subseteq Nat /\ Offsets \subseteq Nat
    /\ Positional \subseteq Threads
    /\ MaxBlk \in Nat /\ MaxWrites \in Nat
ASSUME SentinelsAssumption ==
    /\ NoFd \notin Nat /\ NoStat \notin Nat

VARIABLES
    created,    \* the metadata server has a record of the file
    st_size,    \* the size in block 0, or NoStat
    data,       \* data[n]: the bytes of block n, or NoBlock
    map_fd,     \* map_fd[p]: the offset of p's descriptor, or NoFd
    local,      \* local[p]: st_size in p's hierarchical_map, or NoStat
    call,       \* call[t]: the call a thread is in, or NoCall
    wrote,      \* history: wrote[v] is write number v
    finished,   \* history: the writes that have returned
    unsaved,    \* history: unsaved[p]: end of p's writes since its last close
    published,  \* history: end of the writes followed by a close
    race_lost   \* history: a create that had found no block 0 copied its stat
                \* over the one that another create stored meanwhile

file == <<created, st_size, data>>
history == <<wrote, finished, unsaved, published, race_lost>>
vars == <<file, map_fd, local, call, history>>

B == IMSS_DATA_BSIZE
Blks == 1 .. MaxBlk
InBlk == 0 .. B - 1
MaxSize == MaxBlk * B
Byte(v, k) == [v |-> v, k |-> k]
Larger(a, b) == IF a < b THEN b ELSE a

Init ==
    /\ created = FALSE
    /\ st_size = NoStat
    /\ data = [n \in Blks |-> NoBlock]
    /\ map_fd = [p \in Processes |-> NoFd]
    /\ local = [p \in Processes |-> NoStat]
    /\ call = [t \in Threads |-> NoCall]
    /\ wrote = <<>>
    /\ finished = {}
    /\ unsaved = [p \in Processes |-> 0]
    /\ published = 0
    /\ race_lost = FALSE

At(t, op) == call[t] # NoCall /\ call[t].op = op
Begin(t, c) == call[t] = NoCall /\ call' = [call EXCEPT ![t] = c]
Return(t) == call' = [call EXCEPT ![t] = NoCall]

-----------------------------------------------------------------------------
(* open: generalOpen on a path that is not open in the process *)

\* O_CREAT: create_dataset asks the metadata server for a record and finds
\* none, as another process may have done that is creating the file too ...
imss_create(t) ==
    /\ ~created
    /\ map_fd[process[t]] = NoFd
    /\ Begin(t, [op |-> "create"])
    /\ UNCHANGED <<file, map_fd, local, history>>

\* ... then sends the record, and does not look at the answer.
create_dataset_SET(t) ==
    /\ At(t, "create")
    /\ created' = TRUE
    /\ call' = [call EXCEPT ![t] = [op |-> "set"]]
    /\ UNCHANGED <<st_size, data, map_fd, local, history>>

\* A stat of size 0 goes to the server of block 0.  WRITE_OP looks block 0 up
\* before it receives the stat ...
imss_create_Lookup(t) ==
    /\ At(t, "set")
    /\ call' = [call EXCEPT ![t] = [op |-> "stat", seen |-> st_size # NoStat]]
    /\ UNCHANGED <<file, map_fd, local, history>>

\* ... and keeps the larger size if it was there; otherwise it inserts the
\* stat, or copies it over the one that another create has inserted since.
imss_create_Block0(t) ==
    /\ At(t, "stat")
    /\ st_size' = IF call[t].seen THEN Larger(st_size, 0) ELSE 0
    /\ race_lost' = (race_lost \/ (~call[t].seen /\ st_size # NoStat))
    /\ local' = [local EXCEPT ![process[t]] = 0]
    /\ map_fd' = [map_fd EXCEPT ![process[t]] = 0]
    /\ Return(t)
    /\ UNCHANGED <<created, data, wrote, finished, unsaved, published>>

\* fd_lookup, and block 0 from its server if the local map has no entry.
Cached(p) == IF local[p] # NoStat THEN local[p] ELSE st_size

\* The file exists.  With O_CREAT the answer of imss_open is overwritten by
\* 0: the descriptor is given out even if block 0 is not there yet.
imss_open(t, o_creat) ==
    LET p == process[t]
    IN  /\ created
        /\ call[t] = NoCall
        /\ map_fd[p] = NoFd
        /\ o_creat \/ Cached(p) # NoStat
        /\ local' = [local EXCEPT ![p] = Cached(p)]
        /\ map_fd' = [map_fd EXCEPT ![p] = 0]
        /\ UNCHANGED <<file, call, history>>

\* O_TRUNC on a path that is open: only the process forgets the size.
open_trunc(t) ==
    LET p == process[t]
    IN  /\ call[t] = NoCall
        /\ map_fd[p] # NoFd
        /\ map_fd' = [map_fd EXCEPT ![p] = 0]
        /\ IF Cached(p) = NoStat
           THEN UNCHANGED <<local, unsaved>>
           ELSE /\ local' = [local EXCEPT ![p] = 0]
                /\ unsaved' = [unsaved EXCEPT ![p] = 0]
        /\ UNCHANGED <<file, call, wrote, finished, published, race_lost>>

\* stat: a process that never opened the file gets an entry all the same.
imss_getattr(t) ==
    LET p == process[t]
    IN  /\ created
        /\ call[t] = NoCall
        /\ local' = [local EXCEPT ![p] = Cached(p)]
        /\ UNCHANGED <<file, map_fd, call, history>>

\* SEEK_SET and SEEK_CUR reach any offset; SEEK_END asks imss_getattr.
lseek(t, off) ==
    LET p == process[t]
    IN  /\ call[t] = NoCall
        /\ map_fd[p] # NoFd
        /\ map_fd' = [map_fd EXCEPT ![p] = off]
        /\ UNCHANGED <<file, local, call, history>>

lseek_end(t) ==
    LET p == process[t]
    IN  /\ call[t] = NoCall
        /\ map_fd[p] # NoFd
        /\ Cached(p) # NoStat
        /\ local' = [local EXCEPT ![p] = Cached(p)]
        /\ map_fd' = [map_fd EXCEPT ![p] = Cached(p)]
        /\ UNCHANGED <<file, call, history>>

-----------------------------------------------------------------------------
(* write and pwrite: generalWrite and imss_write *)

FirstBlk(off) == off \div B + 1

\* Mutant of LastBlk: a division without the ceil.
LastBlkFloor(end) == IF end < B THEN 1 ELSE end \div B

\* ceil((double)end / IMSS_DATA_BSIZE); exact below 2^53.
LastBlk(end) == (end + B - 1) \div B

\* A call on the bytes from off on, size of them; upd: off is the offset of
\* the descriptor.  st: the entry of the local map, copied before the loop.
Transfer(op, t, off, size, end, upd) ==
    [op |-> op, off |-> off, size |-> size, upd |-> upd, st |-> local[process[t]],
     curr_blk |-> FirstBlk(off), end_blk |-> LastBlk(end), block_offset |-> off % B,
     done |-> 0, eof |-> FALSE, buf |-> <<>>, v |-> Len(wrote) + 1, seen |-> finished]

IsFirst(c) == c.curr_blk = FirstBlk(c.off)

\* Without an entry in the local map the call returns ENOENT.
imss_write(t, off, size, upd) ==
    LET p == process[t]
    IN  /\ map_fd[p] # NoFd
        /\ local[p] # NoStat
        /\ Len(wrote) < MaxWrites
        /\ off + size <= MaxSize
        /\ Begin(t, Transfer("write", t, off, size, off + size, upd))
        /\ wrote' = Append(wrote, [off |-> off, size |-> size, before |-> finished])
        /\ UNCHANGED <<file, map_fd, local, finished, unsaved, published, race_lost>>

\* bytes_to_copy: the first block from its offset, whole blocks, the rest.
BytesToCopy(c) ==
    IF IsFirst(c) THEN IF c.size < B - c.block_offset THEN c.size
                                                      ELSE B - c.block_offset
    ELSE IF c.curr_blk = c.end_blk THEN c.size - c.done
    ELSE B

\* set_data takes a size of zero for a whole block.
Length(n) == IF n = 0 THEN B ELSE n

Bytes(n) == IF data[n] = NoBlock THEN [i \in InBlk |-> NoByte] ELSE data[n]

\* Mutant of NextBlk: the next block keeps the offset of the first.
NextBlkKeepsOffset(c, n) ==
    [c EXCEPT !.curr_blk = @ + 1, !.done = @ + n]

NextBlk(c, n) ==
    [c EXCEPT !.curr_blk = @ + 1, !.done = @ + n, !.block_offset = 0]

\* The loop goes on; a last block with nothing left ends it.
InLoop(c) ==
    /\ c.curr_blk <= c.end_blk
    /\ IsFirst(c) \/ c.curr_blk < c.end_blk \/ c.done # c.size

\* The body of the loop.
imss_write_Block(t) ==
    LET c == call[t]
        n == BytesToCopy(c)
    IN  /\ At(t, "write")
        /\ InLoop(c)
        /\ data' = [data EXCEPT ![c.curr_blk] =
                       [i \in InBlk |->
                          IF c.block_offset <= i /\ i < c.block_offset + Length(n)
                          THEN Byte(c.v, c.done + i - c.block_offset)
                          ELSE Bytes(c.curr_blk)[i]]]
        /\ call' = [call EXCEPT ![t] = NextBlk(c, n)]
        /\ UNCHANGED <<created, st_size, map_fd, local, history>>

\* Mutant of LocalSize: the size is that of the blocks written.
LocalSizeBlocks(c) == (c.curr_blk - 1) * B

\* Mutant of LocalSize: the file grows by what is written.
LocalSizeGrows(c) == c.st + c.size

LocalSize(c) == c.off + c.size

\* After the loop: the local size, if it is larger than the one copied before
\* the loop, and the offset of the descriptor, which is the size copied
\* before plus the bytes written.
imss_write_End(t) ==
    LET c == call[t]
        p == process[t]
    IN  /\ At(t, "write")
        /\ ~InLoop(c)
        /\ local' = IF LocalSize(c) > c.st THEN [local EXCEPT ![p] = LocalSize(c)]
                                           ELSE local
        /\ map_fd' = IF c.upd /\ c.size > 0 /\ map_fd[p] # NoFd
                     THEN [map_fd EXCEPT ![p] = c.st + c.size] ELSE map_fd
        /\ Return(t)
        /\ finished' = finished \cup {c.v}
        /\ unsaved' = [unsaved EXCEPT ![p] = Larger(@, c.off + c.size)]
        /\ UNCHANGED <<file, wrote, published, race_lost>>

-----------------------------------------------------------------------------
(* read and pread: imss_sread *)

\* At the end of the file, or without an entry, the call returns at once.
imss_sread(t, off, size, upd) ==
    LET p == process[t]
    IN  /\ map_fd[p] # NoFd
        /\ local[p] # NoStat
        /\ off < local[p]
        /\ upd => size > 0
        /\ Begin(t, Transfer("read", t, off, size,
                             off + IF local[p] < size THEN local[p] ELSE size, upd))
        /\ UNCHANGED <<file, map_fd, local, history>>

\* The first block, before it is cut at the end of the file.
ToReadFirst(c) ==
    LET n == IF c.size < c.st - c.block_offset /\ c.size < B THEN c.size
             ELSE IF c.st < B THEN c.st - c.block_offset
             ELSE B - c.block_offset
    IN  IF c.block_offset + n > B THEN B - c.block_offset ELSE n

AtEOF(c) == IsFirst(c) /\ c.off + ToReadFirst(c) > c.st

\* Mutant of ToRead: the last block is read whole.
ToReadWhole(c) ==
    IF AtEOF(c) THEN c.st - c.off
    ELSE IF IsFirst(c) THEN ToReadFirst(c)
    ELSE B

\* to_read: only the first block is cut at the end of the file.
ToRead(c) ==
    IF AtEOF(c) THEN c.st - c.off
    ELSE IF IsFirst(c) THEN ToReadFirst(c)
    ELSE IF c.curr_blk # c.end_blk THEN B
    ELSE c.size - c.done

HasBlk(n) == n \in Blks /\ data[n] # NoBlock

\* What READ_OP sends: it does not look at the size of the block.
Sent(n, from, count) ==
    [j \in 1 .. count |-> IF from + j - 1 \in InBlk THEN data[n][from + j - 1]
                                              ELSE NoByte]

\* The body of the loop: it is left at the end of the file, and the call
\* returns if there is nothing to read or no server has the block.
imss_sread_Block(t) ==
    LET c == call[t]
        n == ToRead(c)
        d == [NextBlk(c, n) EXCEPT !.buf = @ \o Sent(c.curr_blk, c.block_offset, n),
                                   !.eof = AtEOF(c)]
    IN  /\ At(t, "read")
        /\ c.curr_blk <= c.end_blk /\ ~c.eof
        /\ IF n <= 0 \/ ~HasBlk(c.curr_blk) THEN Return(t)
           ELSE call' = [call EXCEPT ![t] = d]
        /\ UNCHANGED <<file, map_fd, local, history>>

ReadDone(c) == c.curr_blk > c.end_blk \/ c.eof

imss_sread_End(t) ==
    LET c == call[t]
        p == process[t]
    IN  /\ At(t, "read")
        /\ ReadDone(c)
        /\ map_fd' = IF c.upd /\ c.done > 0 /\ map_fd[p] # NoFd
                     THEN [map_fd EXCEPT ![p] = c.off + c.done] ELSE map_fd
        /\ Return(t)
        /\ UNCHANGED <<file, local, history>>

-----------------------------------------------------------------------------
(* close: imss_close *)

\* imss_release looks the entry up.
imss_release(t) ==
    LET p == process[t]
    IN  /\ map_fd[p] # NoFd
        /\ Begin(t, [op |-> "release", st |-> local[p]])
        /\ UNCHANGED <<file, map_fd, local, history>>

\* Mutant of Merged: the last close decides the size.
MergedLast(st) == st

\* WRITE_OP on block 0 keeps the larger size.
Merged(st) == IF st_size = NoStat THEN st ELSE Larger(st_size, st)

\* imss_release writes block 0.  Without an entry it does nothing.
imss_release_Block0(t) ==
    LET c == call[t]
        p == process[t]
    IN  /\ At(t, "release")
        /\ call' = [call EXCEPT ![t] = [op |-> "refresh"]]
        /\ IF c.st = NoStat
           THEN UNCHANGED <<st_size, unsaved, published>>
           ELSE /\ st_size' = Merged(c.st)
                /\ published' = Larger(published, unsaved[p])
                /\ unsaved' = [unsaved EXCEPT ![p] = 0]
        /\ UNCHANGED <<created, data, map_fd, local, wrote, finished, race_lost>>

\* imss_refresh gets block 0 again, and close drops the descriptor.
imss_refresh(t) ==
    LET p == process[t]
    IN  /\ At(t, "refresh")
        /\ local' = IF local[p] = NoStat THEN local
                                         ELSE [local EXCEPT ![p] = st_size]
        /\ map_fd' = [map_fd EXCEPT ![p] = NoFd]
        /\ Return(t)
        /\ UNCHANGED <<file, history>>

-----------------------------------------------------------------------------
Open(t) ==
    \/ imss_create(t)
    \/ create_dataset_SET(t)
    \/ imss_create_Lookup(t)
    \/ imss_create_Block0(t)
    \/ \E o_creat \in BOOLEAN : imss_open(t, o_creat)
    \/ open_trunc(t)
    \/ imss_getattr(t)

Seek(t) ==
    /\ t \notin Positional
    /\ \/ \E off \in Offsets : lseek(t, off)
       \/ lseek_end(t)

\* The offset of a call: its own, or the one of the descriptor.
From(t) == IF t \in Positional THEN Offsets ELSE {map_fd[process[t]]}

Write(t) ==
    \/ \E off \in From(t), size \in WriteSizes :
           imss_write(t, off, size, t \notin Positional)
    \/ imss_write_Block(t)
    \/ imss_write_End(t)

Read(t) ==
    \/ \E off \in From(t), size \in ReadSizes :
           imss_sread(t, off, size, t \notin Positional)
    \/ imss_sread_Block(t)
    \/ imss_sread_End(t)

Close(t) ==
    \/ imss_release(t)
    \/ imss_release_Block0(t)
    \/ imss_refresh(t)

Next == \E t \in Threads : Open(t) \/ Seek(t) \/ Write(t) \/ Read(t) \/ Close(t)

Spec == Init /\ [][Next]_vars

-----------------------------------------------------------------------------
Sizes == 0 .. MaxSize
Versions == 1 .. MaxWrites
FileBytes == [v : Versions, k : Nat] \cup {NoByte}
Transfers ==
    [op : {"write", "read"}, off : Nat, size : WriteSizes \cup ReadSizes,
     upd : BOOLEAN, st : Sizes, curr_blk : Nat, end_blk : Nat, block_offset : InBlk,
     done : Nat, eof : BOOLEAN, buf : Seq(FileBytes), v : 1 .. MaxWrites + 1,
     seen : SUBSET Versions]
Calls == Transfers \cup [op : {"create", "set", "refresh"}]
                   \cup [op : {"stat"}, seen : BOOLEAN]
                   \cup [op : {"release"}, st : Sizes \cup {NoStat}]

\* The type of every variable.
TypeOK ==
    /\ created \in BOOLEAN
    /\ st_size \in Sizes \cup {NoStat}
    /\ data \in [Blks -> [InBlk -> FileBytes] \cup {NoBlock}]
    /\ map_fd \in [Processes -> Nat \cup {NoFd}]
    /\ local \in [Processes -> Sizes \cup {NoStat}]
    /\ call \in [Threads -> Calls \cup {NoCall}]
    /\ wrote \in Seq([off : Nat, size : WriteSizes, before : SUBSET Versions])
    /\ Len(wrote) <= MaxWrites
    /\ finished \subseteq Versions
    /\ unsaved \in [Processes -> Sizes]
    /\ published \in Sizes
    /\ race_lost \in BOOLEAN

\* The place in the file of a byte of a block.
Position(n, i) == (n - 1) * B + i

Covers(v, x) == wrote[v].off <= x /\ x < wrote[v].off + wrote[v].size

\* Byte b is what some write was asked to store at place x.
BelongsAt(b, x) == b.k < wrote[b.v].size /\ wrote[b.v].off + b.k = x

\* A write changes no byte but those it was asked to write, and stores every
\* byte of its buffer in its place, whatever blocks it spans and whatever
\* calls run at the same time (imss_write computes block numbers, offsets,
\* lengths and the place in the buffer apart from each other).
WritesInPlace ==
    \A n \in Blks, i \in InBlk :
        data[n] # NoBlock /\ data[n][i] # NoByte => BelongsAt(data[n][i], Position(n, i))

\* Byte b is there, and is not from a write that had returned when v began.
NotOlder(b, v) == b # NoByte /\ b.v \notin wrote[v].before

\* A write that has returned has stored all of its bytes: none is missing,
\* and none is from a write that had returned before it began.
WritesLast ==
    \A v \in finished, n \in Blks, i \in InBlk :
        Covers(v, Position(n, i)) => data[n] # NoBlock /\ NotOlder(data[n][i], v)

\* A read of bytes inside the file as its process knows it.
Inside(c) == c.off + c.size <= c.st

\* A read inside the file, once it has gone through its blocks, has exactly
\* the bytes it was asked for, in their places, and none that a write had
\* replaced before the read began (imss_sread, every case of to_read).
ReadsInPlace ==
    \A t \in Threads :
        LET c == call[t]
        IN  At(t, "read") /\ Inside(c) =>
              /\ ReadDone(c) => Len(c.buf) = c.size
              /\ \A j \in 1 .. Len(c.buf) :
                     LET x == c.off + j - 1
                     IN  /\ c.buf[j] # NoByte => BelongsAt(c.buf[j], x)
                         /\ \A v \in c.seen : Covers(v, x) => NotOlder(c.buf[j], v)

\* A read never returns bytes past the end of the file that its process
\* knows (imss_sread).
ReadStopsAtEOF ==
    \A t \in Threads : At(t, "read") => call[t].off + call[t].done <= call[t].st

\* Every size, in block 0 or in a local map, is the end of a write that has
\* returned, or zero.
SizesAreReal ==
    \A s \in {st_size} \cup {local[p] : p \in Processes} :
        s \in {NoStat, 0} \/ \E v \in finished : s = wrote[v].off + wrote[v].size

\* The size that another process finds covers every write that was followed
\* by a close, whichever process closes last (imss_release, WRITE_OP) and
\* whichever creates the file again (imss_create), unless two creates race and
\* the last to store block 0 had found none: its stat replaces the other,
\* whose size may have been published, without std::max.
ClosedIsPublished ==
    race_lost \/ published = 0 \/ (st_size # NoStat /\ published <= st_size)

=============================================================================

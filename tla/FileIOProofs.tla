---------------------------- MODULE FileIOProofs ----------------------------
(***************************************************************************)
(* imss_write stores every byte in its place, for any size of the blocks,  *)
(* any sizes and offsets of the calls, any processes and threads.          *)
(***************************************************************************)
EXTENDS FileIO, SequenceTheorems, TLAPS

-----------------------------------------------------------------------------
(* Arithmetic of the blocks *)

\* Quotient and remainder.
LEMMA DivMod ==
    \A b \in Nat \ {0} : \A a \in Nat :
        /\ a \div b \in Nat
        /\ a % b \in 0 .. b - 1
        /\ (a \div b) * b + (a % b) = a
    OBVIOUS

\* Multiplication is monotone, and a step of one adds one factor.
LEMMA TimesMonotone ==
    \A b \in Nat, m, n \in Nat : n <= m => n * b <= m * b
    OBVIOUS

LEMMA TimesStep ==
    \A b \in Nat, n \in Nat : (n + 1) * b = n * b + b
    OBVIOUS

\* The blocks before the last one end before the end of the bytes.
LEMMA LastBlkBound ==
    \A e \in Nat : /\ LastBlk(e) \in Nat
                   /\ \A n \in Nat : n < LastBlk(e) => n * B < e
<1>. SUFFICES ASSUME NEW e \in Nat
              PROVE  /\ LastBlk(e) \in Nat
                     /\ \A n \in Nat : n < LastBlk(e) => n * B < e
    BY Zenon
<1>. DEFINE a == e + B - 1
            k == a \div B
<1>1. B \in Nat \ {0} /\ a \in Nat
    BY SizesAssumption DEF B
<1>2. k \in Nat /\ a % B \in 0 .. B - 1 /\ k * B + (a % B) = a
    BY <1>1, DivMod, Zenon
<1>3. LastBlk(e) = k
    BY Zenon DEF LastBlk
<1>. HIDE DEF k
<1>4. ASSUME NEW n \in Nat, n < k  PROVE n * B < e
  <2>1. (n + 1) * B <= k * B
      BY <1>1, <1>2, <1>4, TimesMonotone
  <2>2. (n + 1) * B = n * B + B
      BY <1>1, TimesStep, Zenon
  <2>3. n * B \in Nat /\ k * B \in Nat
      BY <1>1, <1>2
  <2>. HIDE DEF B
  <2>. QED  BY <1>1, <1>2, <2>1, <2>2, <2>3
<1>. QED  BY <1>2, <1>3, <1>4, Zenon

\* The last block ends at or after the end of the bytes.
LEMMA LastBlkEnd == \A e \in Nat : e <= LastBlk(e) * B
<1>. SUFFICES ASSUME NEW e \in Nat PROVE e <= LastBlk(e) * B
    BY Zenon
<1>. DEFINE a == e + B - 1
            k == a \div B
<1>1. B \in Nat \ {0} /\ a \in Nat
    BY SizesAssumption DEF B
<1>2. k \in Nat /\ a % B \in 0 .. B - 1 /\ k * B + (a % B) = a
    BY <1>1, DivMod, Zenon
<1>3. LastBlk(e) = k /\ k * B \in Nat
    BY <1>1, <1>2 DEF LastBlk
<1>. HIDE DEF k, B
<1>. QED  BY <1>1, <1>2, <1>3

-----------------------------------------------------------------------------
(* The calls *)

\* The offset of a call is a number.
LEMMA BlockTypes ==
    /\ B \in Nat \ {0}
    /\ MaxSize \in Nat
    /\ \A off \in Nat : FirstBlk(off) \in Nat \ {0} /\ off % B \in InBlk
<1>1. B \in Nat \ {0} /\ MaxBlk \in Nat
    BY SizesAssumption, Zenon DEF B
<1>2. MaxSize \in Nat
    BY <1>1 DEF MaxSize
<1>3. ASSUME NEW off \in Nat
      PROVE  FirstBlk(off) \in Nat \ {0} /\ off % B \in InBlk
  <2>1. off \div B \in Nat /\ off % B \in 0 .. B - 1
      BY <1>1, DivMod, Zenon
  <2>. QED  BY <2>1 DEF FirstBlk, InBlk
<1>. QED  BY <1>1, <1>2, <1>3, Zenon

LEMMA ProcessType == \A t \in Threads : process[t] \in Processes
    BY Zenon DEF Processes

\* Only imss_write and imss_sread have these calls.
LEMMA TransferCalls ==
    \A c \in Calls : c.op \in {"write", "read"} => c \in Transfers
    BY Zenon DEF Calls, Transfers

LEMMA TransferFields ==
    ASSUME NEW c \in Transfers
    PROVE  /\ c.off \in Nat /\ c.size \in Nat /\ c.st \in Nat /\ c.done \in Nat
           /\ c.curr_blk \in Nat /\ c.end_blk \in Nat
           /\ c.block_offset \in 0 .. B - 1
<1>1. c.size \in Nat
    BY SizesAssumption, Zenon DEF Transfers
<1>2. c.st \in Nat
    BY BlockTypes DEF Transfers, Sizes
<1>. QED  BY <1>1, <1>2, Zenon DEF Transfers, InBlk

LEMMA NextBlkType ==
    ASSUME NEW c \in Transfers, NEW n \in Int, c.done + n \in Nat
    PROVE  /\ NextBlk(c, n) \in Transfers
           /\ NextBlk(c, n).op = c.op /\ NextBlk(c, n).off = c.off
           /\ NextBlk(c, n).size = c.size /\ NextBlk(c, n).v = c.v
           /\ NextBlk(c, n).end_blk = c.end_blk
           /\ NextBlk(c, n).curr_blk = c.curr_blk + 1
           /\ NextBlk(c, n).done = c.done + n
           /\ NextBlk(c, n).block_offset = 0
<1>1. 0 \in InBlk
    BY BlockTypes DEF InBlk
<1>2. c.curr_blk + 1 \in Nat
    BY DEF Transfers
<1>. QED  BY <1>1, <1>2, Zenon DEF NextBlk, Transfers

-----------------------------------------------------------------------------
(* TypeOK *)

\* A write has a number, and ends inside the bound of the file.
WriteBounds ==
    \A t \in Threads : At(t, "write") =>
        call[t].v \in Versions /\ call[t].off + call[t].size <= MaxSize

TInv == TypeOK /\ WriteBounds

LEMMA TypeInit == Init => TInv
<1>. SUFFICES ASSUME Init PROVE TInv
    BY Zenon
<1>1. 0 \in Sizes
    BY BlockTypes DEF Sizes
<1>2. /\ wrote \in Seq([off : Nat, size : WriteSizes, before : SUBSET Versions])
      /\ Len(wrote) <= MaxWrites
    BY SizesAssumption DEF Init
<1>3. TypeOK
    BY <1>1, <1>2, Zenon DEF Init, TypeOK
<1>4. WriteBounds
    BY Zenon DEF Init, WriteBounds, At
<1>. QED  BY <1>3, <1>4, Zenon DEF TInv

\* A step that puts a call other than a write keeps the bounds of the others.
LEMMA OtherCalls ==
    ASSUME TInv, NEW t \in Threads, NEW c \in Calls \cup {NoCall},
           c # NoCall => c.op # "write",
           call' = [call EXCEPT ![t] = c]
    PROVE  call' \in [Threads -> Calls \cup {NoCall}] /\ WriteBounds'
    BY Zenon DEF TInv, TypeOK, WriteBounds, At

LEMMA SameCalls ==
    ASSUME TInv, UNCHANGED call
    PROVE  call' \in [Threads -> Calls \cup {NoCall}] /\ WriteBounds'
    BY Zenon DEF TInv, TypeOK, WriteBounds, At

LEMMA LargerType == \A a, b \in Sizes : Larger(a, b) \in Sizes
    BY Zenon DEF Larger

LEMMA CachedType ==
    ASSUME TypeOK, NEW p \in Processes
    PROVE  Cached(p) \in Sizes \cup {NoStat}
    BY Zenon DEF Cached, TypeOK

LEMMA TypeOpen ==
    ASSUME TInv, NEW t \in Threads, Open(t) \/ Seek(t)
    PROVE  TInv'
<1>. DEFINE p == process[t]
<1>1. p \in Processes /\ TypeOK /\ 0 \in Sizes /\ Sizes \subseteq Nat
    BY ProcessType, BlockTypes DEF TInv, Sizes
<1>2. Cached(p) \in Sizes \cup {NoStat}
    BY <1>1, CachedType, Zenon
<1>. HIDE DEF p
<1>3. CASE imss_create(t)
  <2>1. [op |-> "create"] \in Calls
      BY Zenon DEF Calls
  <2>2. call' \in [Threads -> Calls \cup {NoCall}] /\ WriteBounds'
      BY <1>3, <2>1, OtherCalls, Zenon DEF imss_create, Begin
  <2>. QED  BY <1>1, <1>3, <2>2, Zenon DEF imss_create, TInv, TypeOK, file, history
<1>10. CASE create_dataset_SET(t)
  <2>1. [op |-> "set"] \in Calls
      BY Zenon DEF Calls
  <2>2. call' \in [Threads -> Calls \cup {NoCall}] /\ WriteBounds'
      BY <1>10, <2>1, OtherCalls, Zenon DEF create_dataset_SET
  <2>. QED  BY <1>1, <1>10, <2>2, Zenon DEF create_dataset_SET, TInv, TypeOK, history
<1>11. CASE imss_create_Lookup(t)
  <2>. DEFINE d == [op |-> "stat", seen |-> st_size # NoStat]
  <2>1. d \in Calls /\ d.op = "stat"
      BY Zenon DEF Calls
  <2>2. call' \in [Threads -> Calls \cup {NoCall}] /\ WriteBounds'
      BY <1>11, <2>1, OtherCalls, Zenon DEF imss_create_Lookup
  <2>. QED  BY <1>1, <1>11, <2>2, Zenon DEF imss_create_Lookup, TInv, TypeOK, file, history
<1>4. CASE imss_create_Block0(t)
  <2>1. call' \in [Threads -> Calls \cup {NoCall}] /\ WriteBounds'
      BY <1>4, OtherCalls, Zenon DEF imss_create_Block0, Return
  <2>2. Larger(st_size, 0) \in Sizes \cup {NoStat}
      BY <1>1, Zenon DEF Larger, TypeOK
  <2>3. st_size' \in Sizes \cup {NoStat} /\ race_lost' \in BOOLEAN
      BY <1>1, <1>4, <2>2, Zenon DEF imss_create_Block0, TypeOK
  <2>. QED  BY <1>1, <1>4, <2>1, <2>3, Zenon DEF imss_create_Block0, TInv, TypeOK, p
<1>5. ASSUME NEW o_creat \in BOOLEAN, imss_open(t, o_creat)  PROVE TInv'
  <2>1. call' \in [Threads -> Calls \cup {NoCall}] /\ WriteBounds'
      BY <1>5, SameCalls, Zenon DEF imss_open
  <2>. QED  BY <1>1, <1>2, <1>5, <2>1, Zenon DEF imss_open, TInv, TypeOK, history, file, p
<1>6. CASE open_trunc(t)
  <2>1. call' \in [Threads -> Calls \cup {NoCall}] /\ WriteBounds'
      BY <1>6, SameCalls, Zenon DEF open_trunc
  <2>. QED  BY <1>1, <1>6, <2>1, SMTT(30) DEF open_trunc, TInv, TypeOK, file, p
<1>7. CASE imss_getattr(t)
  <2>1. call' \in [Threads -> Calls \cup {NoCall}] /\ WriteBounds'
      BY <1>7, SameCalls, Zenon DEF imss_getattr
  <2>. QED  BY <1>1, <1>2, <1>7, <2>1, Zenon DEF imss_getattr, TInv, TypeOK, history, file, p
<1>8. ASSUME NEW off \in Offsets, lseek(t, off)  PROVE TInv'
  <2>1. call' \in [Threads -> Calls \cup {NoCall}] /\ WriteBounds'
      BY <1>8, SameCalls, Zenon DEF lseek
  <2>2. off \in Nat
      BY SizesAssumption, Zenon
  <2>. QED  BY <1>1, <1>8, <2>1, <2>2, Zenon DEF lseek, TInv, TypeOK, history, file, p
<1>9. CASE lseek_end(t)
  <2>1. call' \in [Threads -> Calls \cup {NoCall}] /\ WriteBounds'
      BY <1>9, SameCalls, Zenon DEF lseek_end
  <2>. QED  BY <1>1, <1>2, <1>9, <2>1, Zenon DEF lseek_end, TInv, TypeOK, history, file, p
<1>. QED  BY <1>3, <1>4, <1>5, <1>6, <1>7, <1>8, <1>9, <1>10, <1>11, Zenon
          DEF Open, Seek

\* The offsets a call may start from.
LEMMA FromType ==
    ASSUME TypeOK, NEW t \in Threads, NEW off \in From(t), map_fd[process[t]] # NoFd
    PROVE  off \in Nat
    BY ProcessType, SizesAssumption, Zenon DEF From, TypeOK

\* What imss_write and imss_sread start with.
LEMMA TransferType ==
    ASSUME TypeOK, NEW op \in {"write", "read"}, NEW t \in Threads, NEW off \in Nat,
           NEW size \in WriteSizes \cup ReadSizes, NEW end \in Nat, NEW upd \in BOOLEAN,
           local[process[t]] # NoStat
    PROVE  Transfer(op, t, off, size, end, upd) \in Transfers
<1>1. local[process[t]] \in Sizes
    BY ProcessType, Zenon DEF TypeOK
<1>2. FirstBlk(off) \in Nat /\ off % B \in InBlk /\ LastBlk(end) \in Nat
    BY BlockTypes, LastBlkBound, Zenon
<1>3. Len(wrote) + 1 \in 1 .. MaxWrites + 1
    BY SizesAssumption DEF TypeOK
<1>4. <<>> \in Seq(FileBytes) /\ finished \in SUBSET Versions
    BY DEF TypeOK
<1>. QED  BY <1>1, <1>2, <1>3, <1>4, Zenon DEF Transfer, Transfers

\* What the loop of imss_write copies never takes the count below zero.
LEMMA BytesToCopyType ==
    ASSUME NEW c \in Transfers
    PROVE  BytesToCopy(c) \in Int /\ c.done + BytesToCopy(c) \in Nat
<1>1. /\ c.size \in Nat /\ c.done \in Nat /\ c.block_offset \in 0 .. B - 1
      /\ B \in Nat
    BY SizesAssumption, BlockTypes, Zenon DEF Transfers, InBlk
<1>. QED  BY <1>1 DEF BytesToCopy

LEMMA TypeWrite ==
    ASSUME TInv, NEW t \in Threads, Write(t)
    PROVE  TInv'
<1>. DEFINE p == process[t]
            c == call[t]
<1>1. p \in Processes /\ TypeOK /\ WriteBounds /\ Sizes = 0 .. MaxSize /\ MaxSize \in Nat
    BY ProcessType, BlockTypes, Zenon DEF TInv, Sizes
<1>2. At(t, "write") => /\ c \in Transfers
                        /\ c.v \in Versions
                        /\ c.off \in Nat /\ c.size \in Nat /\ c.st \in Nat
                        /\ c.off + c.size \in Sizes
  <2>1. At(t, "write") => c \in Transfers
      BY <1>1, TransferCalls, Zenon DEF At, TypeOK
  <2>2. At(t, "write") => c.off \in Nat /\ c.size \in Nat /\ c.st \in Nat
      BY <2>1, TransferFields, Zenon
  <2>. QED  BY <1>1, <2>1, <2>2 DEF WriteBounds
<1>3. ASSUME NEW off \in From(t), NEW size \in WriteSizes, NEW upd \in BOOLEAN,
             imss_write(t, off, size, upd)
      PROVE  TInv'
  <2>. DEFINE d == Transfer("write", t, off, size, off + size, upd)
              w == [off |-> off, size |-> size, before |-> finished]
  <2>1. off \in Nat /\ size \in Nat
      BY <1>1, <1>3, FromType, SizesAssumption, Zenon DEF imss_write
  <2>2. d \in Transfers
      BY <1>1, <1>3, <2>1, TransferType DEF imss_write
  <2>3. d.v = Len(wrote) + 1 /\ d.off = off /\ d.size = size
      BY Zenon DEF Transfer
  <2>. HIDE DEF d
  <2>4. call' = [call EXCEPT ![t] = d] /\ Len(wrote) < MaxWrites
        /\ off + size <= MaxSize
      BY <1>3, Zenon DEF imss_write, Begin, d
  <2>5. call' \in [Threads -> Calls \cup {NoCall}]
      BY <1>1, <2>2, <2>4, Zenon DEF TypeOK, Calls
  <2>6. d.v \in Versions /\ d.off + d.size <= MaxSize
      BY <1>1, <2>3, <2>4, SizesAssumption DEF Versions, TypeOK
  <2>7. WriteBounds'
      BY <1>1, <2>4, <2>5, <2>6, Zenon DEF WriteBounds, At, TypeOK
  <2>8. w \in [off : Nat, size : WriteSizes, before : SUBSET Versions]
      BY <1>1, <2>1, Zenon DEF TypeOK
  <2>9. /\ wrote' \in Seq([off : Nat, size : WriteSizes, before : SUBSET Versions])
        /\ Len(wrote') <= MaxWrites
      BY <1>1, <1>3, <2>4, <2>8, SizesAssumption DEF imss_write, TypeOK
  <2>. QED  BY <1>1, <1>3, <2>5, <2>7, <2>9, Zenon DEF imss_write, TInv, TypeOK, file
<1>4. CASE imss_write_Block(t)
  <2>. DEFINE n == BytesToCopy(c)
              d == NextBlk(c, n)
  <2>1. c \in Transfers /\ At(t, "write")
      BY <1>2, <1>4, Zenon DEF imss_write_Block
  <2>2. /\ d \in Transfers /\ d.op = c.op /\ d.off = c.off /\ d.size = c.size
        /\ d.v = c.v
      BY <2>1, BytesToCopyType, NextBlkType, Zenon
  <2>3. call' = [call EXCEPT ![t] = d]
      BY <1>4, Zenon DEF imss_write_Block
  <2>4. ASSUME NEW i \in InBlk,
               c.block_offset <= i /\ i < c.block_offset + Length(n)
        PROVE  Byte(c.v, c.done + i - c.block_offset) \in FileBytes
    <3>1. /\ c.done \in Nat /\ c.block_offset \in 0 .. B - 1 /\ i \in 0 .. B - 1
          /\ B \in Nat /\ c.v \in Versions
        BY <1>2, <2>1, BlockTypes, Zenon DEF Transfers, InBlk
    <3>2. c.done + i - c.block_offset \in Nat
        BY <2>4, <3>1
    <3>. QED  BY <3>1, <3>2, Zenon DEF Byte, FileBytes
  <2>. HIDE DEF d, n
  <2>5. call' \in [Threads -> Calls \cup {NoCall}]
      BY <1>1, <2>2, <2>3, Zenon DEF TypeOK, Calls
  <2>6. WriteBounds'
      BY <1>1, <2>1, <2>2, <2>3, <2>5, Zenon DEF WriteBounds, At, TypeOK
  <2>7. data' \in [Blks -> [InBlk -> FileBytes] \cup {NoBlock}]
    <3>. DEFINE f == [i \in InBlk |->
                        IF c.block_offset <= i /\ i < c.block_offset + Length(n)
                        THEN Byte(c.v, c.done + i - c.block_offset)
                        ELSE Bytes(c.curr_blk)[i]]
    <3>1. data' = [data EXCEPT ![c.curr_blk] = f]
        BY <1>4, Zenon DEF imss_write_Block, n
    <3>2. CASE c.curr_blk \in Blks
      <4>1. Bytes(c.curr_blk) \in [InBlk -> FileBytes]
          BY <1>1, <3>2, Zenon DEF Bytes, TypeOK, FileBytes
      <4>2. f \in [InBlk -> FileBytes]
          BY <2>4, <4>1, Zenon
      <4>. QED  BY <1>1, <3>1, <4>2, Zenon DEF TypeOK
    <3>3. CASE c.curr_blk \notin Blks
      <4>1. data' = data
          BY <1>1, <3>1, <3>3, Zenon DEF TypeOK
      <4>. QED  BY <1>1, <4>1, Zenon DEF TypeOK
    <3>. QED  BY <3>2, <3>3, Zenon
  <2>. QED  BY <1>1, <1>4, <2>5, <2>6, <2>7, Zenon DEF imss_write_Block, TInv, TypeOK, history
<1>5. CASE imss_write_End(t)
  <2>1. call' \in [Threads -> Calls \cup {NoCall}] /\ WriteBounds'
      BY <1>5, OtherCalls, Zenon DEF imss_write_End, Return
  <2>2. /\ c.v \in Versions /\ c.off + c.size \in Sizes /\ c.st + c.size \in Nat
      BY <1>2, <1>5 DEF imss_write_End
  <2>. HIDE DEF c, p
  <2>3. local' \in [Processes -> Sizes \cup {NoStat}]
      BY <1>1, <1>5, <2>2, Zenon DEF imss_write_End, TypeOK, LocalSize, c, p
  <2>4. unsaved' \in [Processes -> Sizes]
    <3>1. unsaved[p] \in Sizes
        BY <1>1, Zenon DEF TypeOK
    <3>2. Larger(unsaved[p], c.off + c.size) \in Sizes
        BY <2>2, <3>1, LargerType, Zenon
    <3>. QED  BY <1>1, <1>5, <3>2, Zenon DEF imss_write_End, TypeOK, c, p
  <2>5. map_fd' \in [Processes -> Nat \cup {NoFd}]
      BY <1>1, <1>5, <2>2, Zenon DEF imss_write_End, TypeOK, c, p
  <2>6. finished' \subseteq Versions
      BY <1>1, <1>5, <2>2, Zenon DEF imss_write_End, TypeOK, c
  <2>. QED  BY <1>1, <1>5, <2>1, <2>3, <2>4, <2>5, <2>6, Zenon
            DEF imss_write_End, TInv, TypeOK, file
<1>. HIDE DEF c, p
<1>. QED  BY <1>3, <1>4, <1>5, Zenon DEF Write

\* What READ_OP sends is a sequence of bytes.
LEMMA SentType ==
    ASSUME TypeOK, NEW n, HasBlk(n), NEW from \in Nat, NEW count \in Nat
    PROVE  Sent(n, from, count) \in Seq(FileBytes)
<1>1. data[n] \in [InBlk -> FileBytes]
    BY Zenon DEF TypeOK, HasBlk
<1>2. \A j \in 1 .. count :
          (IF from + j - 1 \in InBlk THEN data[n][from + j - 1] ELSE NoByte) \in FileBytes
    BY <1>1, Zenon DEF FileBytes
<1>3. Sent(n, from, count) \in [1 .. count -> FileBytes]
    BY <1>2, Zenon DEF Sent
<1>. QED  BY <1>3, SeqDef, Zenon

LEMMA ToReadType ==
    ASSUME NEW c \in Transfers
    PROVE  ToRead(c) \in Int
<1>1. /\ c.off \in Nat /\ c.size \in Nat /\ c.st \in Nat /\ c.done \in Nat
      /\ c.block_offset \in Nat /\ B \in Nat
    BY TransferFields, BlockTypes
<1>2. ToReadFirst(c) \in Int
    BY <1>1 DEF ToReadFirst
<1>. QED  BY <1>1, <1>2 DEF ToRead

LEMMA TypeRead ==
    ASSUME TInv, NEW t \in Threads, Read(t)
    PROVE  TInv'
<1>. DEFINE p == process[t]
            c == call[t]
<1>1. p \in Processes /\ TypeOK
    BY ProcessType, Zenon DEF TInv
<1>2. At(t, "read") => c \in Transfers
    BY <1>1, TransferCalls, Zenon DEF At, TypeOK
<1>3. ASSUME NEW off \in From(t), NEW size \in ReadSizes, NEW upd \in BOOLEAN,
             imss_sread(t, off, size, upd)
      PROVE  TInv'
  <2>. DEFINE end == off + IF local[p] < size THEN local[p] ELSE size
              d == Transfer("read", t, off, size, end, upd)
  <2>1. off \in Nat /\ size \in Nat
      BY <1>1, <1>3, FromType, SizesAssumption, Zenon DEF imss_sread
  <2>2. local[p] \in Nat /\ local[p] # NoStat
    <3>1. local[p] # NoStat
        BY <1>3, Zenon DEF imss_sread
    <3>2. local[p] \in Sizes
        BY <1>1, <3>1, Zenon DEF TypeOK
    <3>. QED  BY <3>1, <3>2, BlockTypes DEF Sizes
  <2>3. end \in Nat
      BY <2>1, <2>2
  <2>4. d \in Transfers
    <3>. HIDE DEF end
    <3>. QED  BY <1>1, <2>1, <2>2, <2>3, TransferType, SMTT(30)
  <2>5. d.op = "read"
      BY Zenon DEF Transfer
  <2>6. call' = [call EXCEPT ![t] = d]
      BY <1>3, Zenon DEF imss_sread, Begin
  <2>. HIDE DEF d
  <2>7. call' \in [Threads -> Calls \cup {NoCall}] /\ WriteBounds'
      BY <2>4, <2>5, <2>6, OtherCalls, Zenon DEF Calls
  <2>. QED  BY <1>1, <1>3, <2>7, Zenon DEF imss_sread, TInv, TypeOK, file, history
<1>4. CASE imss_sread_Block(t)
  <2>. DEFINE n == ToRead(c)
              s == Sent(c.curr_blk, c.block_offset, n)
              d == [NextBlk(c, n) EXCEPT !.buf = @ \o s, !.eof = AtEOF(c)]
  <2>1. c \in Transfers /\ c.op = "read"
      BY <1>2, <1>4, Zenon DEF imss_sread_Block, At
  <2>2. call' \in [Threads -> Calls \cup {NoCall}] /\ WriteBounds'
    <3>1. CASE n <= 0 \/ ~HasBlk(c.curr_blk)
        BY <1>4, <3>1, OtherCalls, Zenon DEF imss_sread_Block, Return
    <3>2. CASE ~(n <= 0 \/ ~HasBlk(c.curr_blk))
      <4>1. n \in Nat /\ c.done + n \in Nat /\ c.block_offset \in Nat
          BY <2>1, <3>2, ToReadType, TransferFields, BlockTypes
      <4>2. s \in Seq(FileBytes)
          BY <1>1, <3>2, <4>1, SentType, Zenon
      <4>3. NextBlk(c, n) \in Transfers /\ NextBlk(c, n).op = "read"
          BY <2>1, <4>1, NextBlkType
      <4>4. NextBlk(c, n).buf \o s \in Seq(FileBytes)
        <5>1. NextBlk(c, n).buf \in Seq(FileBytes)
            BY <4>3, Zenon DEF Transfers
        <5>. HIDE DEF s
        <5>. QED  BY <4>2, <5>1
      <4>5. AtEOF(c) \in BOOLEAN
          BY Zenon DEF AtEOF
      <4>6. call' = [call EXCEPT ![t] = d]
          BY <1>4, <3>2, Zenon DEF imss_sread_Block
      <4>. HIDE DEF n, s
      <4>7. d \in Transfers /\ d.op = "read"
          BY <4>3, <4>4, <4>5, Zenon DEF Transfers
      <4>. HIDE DEF d
      <4>. QED  BY <4>6, <4>7, OtherCalls, Zenon DEF Calls
    <3>. QED  BY <3>1, <3>2, Zenon
  <2>. QED  BY <1>1, <1>4, <2>2, Zenon DEF imss_sread_Block, TInv, TypeOK, file, history
<1>5. CASE imss_sread_End(t)
  <2>1. call' \in [Threads -> Calls \cup {NoCall}] /\ WriteBounds'
      BY <1>5, OtherCalls, Zenon DEF imss_sread_End, Return
  <2>2. c.off + c.done \in Nat
      BY <1>2, <1>5, TransferFields DEF imss_sread_End
  <2>. HIDE DEF c, p
  <2>. QED  BY <1>1, <1>5, <2>1, <2>2, Zenon
            DEF imss_sread_End, TInv, TypeOK, file, history, c, p
<1>. HIDE DEF c, p
<1>. QED  BY <1>3, <1>4, <1>5, Zenon DEF Read

LEMMA TypeClose ==
    ASSUME TInv, NEW t \in Threads, Close(t)
    PROVE  TInv'
<1>. DEFINE p == process[t]
            c == call[t]
<1>1. p \in Processes /\ TypeOK /\ 0 \in Sizes
    BY ProcessType, BlockTypes DEF TInv, Sizes
<1>2. CASE imss_release(t)
  <2>. DEFINE d == [op |-> "release", st |-> local[p]]
  <2>1. d \in Calls /\ d.op = "release"
      BY <1>1, Zenon DEF Calls, TypeOK
  <2>2. call' \in [Threads -> Calls \cup {NoCall}] /\ WriteBounds'
      BY <1>2, <2>1, OtherCalls, Zenon DEF imss_release, Begin
  <2>. QED  BY <1>1, <1>2, <2>2, Zenon DEF imss_release, TInv, TypeOK, file, history
<1>3. CASE imss_release_Block0(t)
  <2>. DEFINE d == [op |-> "refresh"]
  <2>1. d \in Calls /\ d.op = "refresh"
      BY Zenon DEF Calls
  <2>2. call' \in [Threads -> Calls \cup {NoCall}] /\ WriteBounds'
      BY <1>3, <2>1, OtherCalls, Zenon DEF imss_release_Block0
  <2>3. c.st \in Sizes \cup {NoStat}
      BY <1>1, <1>3, Zenon DEF imss_release_Block0, At, TypeOK, Calls, Transfers
  <2>4. c.st # NoStat => Merged(c.st) \in Sizes
      BY <1>1, <2>3, LargerType, Zenon DEF Merged, TypeOK
  <2>5. Larger(published, unsaved[p]) \in Sizes
      BY <1>1, LargerType, Zenon DEF TypeOK
  <2>. HIDE DEF c, p
  <2>. QED  BY <1>1, <1>3, <2>2, <2>4, <2>5, Zenon
            DEF imss_release_Block0, TInv, TypeOK, c, p
<1>4. CASE imss_refresh(t)
  <2>1. call' \in [Threads -> Calls \cup {NoCall}] /\ WriteBounds'
      BY <1>4, OtherCalls, Zenon DEF imss_refresh, Return
  <2>. QED  BY <1>1, <1>4, <2>1, Zenon DEF imss_refresh, TInv, TypeOK, file, history
<1>. QED  BY <1>2, <1>3, <1>4, Zenon DEF Close

\* Every variable keeps its type, for any block size and any calls: no block
\* length or block number that imss_write and imss_sread compute is negative
\* and every size stays within the bound on the blocks of a file.
THEOREM TypeCorrect == Spec => []TypeOK
<1>1. TInv /\ [Next]_vars => TInv'
  <2>. SUFFICES ASSUME TInv, [Next]_vars PROVE TInv'
      BY Zenon
  <2>1. CASE Next
      BY <2>1, TypeOpen, TypeWrite, TypeRead, TypeClose, Zenon DEF Next
  <2>2. CASE UNCHANGED vars
      BY <2>2, Zenon DEF vars, file, history, TInv, TypeOK, WriteBounds, At
  <2>. QED  BY <2>1, <2>2, Zenon
<1>2. TInv => TypeOK
    BY Zenon DEF TInv
<1>. QED  BY TypeInit, <1>1, <1>2, PTL DEF Spec

-----------------------------------------------------------------------------
(* WritesInPlace.  The bytes of a write stay where wrote says, and the     *)
(* loop of imss_write is at the place of the file that it has reached in   *)
(* the buffer.  set_data takes a size of zero for a whole block, so the    *)
(* writes must not be empty.                                               *)

NoEmptyWrites == 0 \notin WriteSizes

\* A write in its loop: the place it is at in the blocks is off + done, and
\* there is something left as long as it has not passed the last block.
GoodWrite(c, ws) ==
    /\ c.v \in 1 .. Len(ws)
    /\ ws[c.v].off = c.off /\ ws[c.v].size = c.size
    /\ c.size > 0
    /\ c.end_blk = LastBlk(c.off + c.size)
    /\ c.curr_blk >= FirstBlk(c.off)
    /\ IsFirst(c) => c.done = 0
    /\ ~IsFirst(c) => c.block_offset = 0
    /\ c.curr_blk <= c.end_blk =>
           c.done < c.size /\ Position(c.curr_blk, c.block_offset) = c.off + c.done

GoodWrites == \A t \in Threads : At(t, "write") => GoodWrite(call[t], wrote)

\* WritesInPlace, with the numbers of the writes.
GoodBytes ==
    \A n \in Blks, i \in InBlk :
        data[n] # NoBlock /\ data[n][i] # NoByte =>
            /\ data[n][i].v \in 1 .. Len(wrote)
            /\ BelongsAt(data[n][i], Position(n, i))

PInv == GoodWrites /\ GoodBytes

\* Position is linear in the number of the block.
LEMMA PositionNext ==
    ASSUME NEW n \in Nat \ {0}, NEW i \in Nat
    PROVE  /\ Position(n, i) \in Nat
           /\ Position(n, i) = (n - 1) * B + i
           /\ n * B = (n - 1) * B + B
           /\ Position(n + 1, 0) = n * B
<1>1. B \in Nat /\ n - 1 \in Nat
    BY BlockTypes
<1>2. ((n - 1) + 1) * B = (n - 1) * B + B
    BY <1>1, TimesStep, Zenon
<1>3. (n - 1) + 1 = n /\ (n + 1) - 1 = n
    OBVIOUS
<1>4. (n - 1) * B \in Nat /\ n * B \in Nat
    BY <1>1
<1>. HIDE DEF B
<1>. QED  BY <1>1, <1>2, <1>3, <1>4 DEF Position

\* The first block of a call is where its first byte is.
LEMMA PositionFirst ==
    ASSUME NEW off \in Nat
    PROVE  Position(FirstBlk(off), off % B) = off
<1>1. B \in Nat \ {0}
    BY BlockTypes, Zenon
<1>2. off \div B \in Nat /\ (off \div B) * B + (off % B) = off
    BY <1>1, DivMod, Zenon
<1>3. FirstBlk(off) - 1 = off \div B
    BY <1>2 DEF FirstBlk
<1>. QED  BY <1>2, <1>3, Zenon DEF Position

\* One turn of the loop copies something, no more than is left and no more
\* than fits in the block, and leaves the call where its next byte goes.
LEMMA WriteTurn ==
    ASSUME NEW c \in Transfers, NEW ws, GoodWrite(c, ws), InLoop(c)
    PROVE  /\ BytesToCopy(c) \in 1 .. c.size - c.done
           /\ c.block_offset + BytesToCopy(c) <= B
           /\ GoodWrite(NextBlk(c, BytesToCopy(c)), ws)
<1>. DEFINE n == BytesToCopy(c)
            d == NextBlk(c, n)
            q == (c.curr_blk - 1) * B
<1>1. /\ c.off \in Nat /\ c.size \in Nat /\ c.done \in Nat /\ c.end_blk \in Nat
      /\ c.curr_blk \in Nat /\ c.block_offset \in 0 .. B - 1 /\ B \in Nat \ {0}
    BY TransferFields, BlockTypes, Zenon
<1>2. FirstBlk(c.off) \in Nat \ {0} /\ c.curr_blk >= FirstBlk(c.off)
    BY <1>1, BlockTypes, Zenon DEF GoodWrite
<1>3. c.curr_blk \in Nat \ {0}
    BY <1>1, <1>2
<1>4. /\ q \in Nat /\ c.curr_blk * B = q + B
      /\ Position(c.curr_blk, c.block_offset) = q + c.block_offset
      /\ Position(c.curr_blk + 1, 0) = q + B
  <2>1. c.block_offset \in Nat /\ 0 \in Nat
      BY <1>1
  <2>2. /\ c.curr_blk * B = q + B
        /\ Position(c.curr_blk, c.block_offset) = q + c.block_offset
        /\ Position(c.curr_blk + 1, 0) = c.curr_blk * B
      BY <1>3, <2>1, PositionNext, Zenon
  <2>3. q \in Nat
      BY <1>1, <1>3
  <2>. QED  BY <2>2, <2>3, Zenon
<1>5. c.curr_blk <= c.end_blk /\ c.done < c.size /\ q + c.block_offset = c.off + c.done
    BY <1>4, Zenon DEF GoodWrite, InLoop
<1>6. c.curr_blk < c.end_blk => q + B < c.off + c.size
  <2>1. c.end_blk = LastBlk(c.off + c.size) /\ c.off + c.size \in Nat
      BY <1>1 DEF GoodWrite
  <2>2. c.curr_blk < c.end_blk => c.curr_blk * B < c.off + c.size
      BY <1>1, <2>1, LastBlkBound, Zenon
  <2>. QED  BY <1>4, <2>2, Zenon
<1>. HIDE DEF q
<1>7. /\ n \in 1 .. c.size - c.done
      /\ c.block_offset + n <= B
      /\ c.curr_blk < c.end_blk => c.done + n < c.size /\ q + B = c.off + c.done + n
  <2>1. CASE IsFirst(c)
    <3>1. c.done = 0 /\ c.size > 0
        BY <2>1, Zenon DEF GoodWrite
    <3>2. n = IF c.size < B - c.block_offset THEN c.size ELSE B - c.block_offset
        BY <2>1, Zenon DEF BytesToCopy
    <3>. HIDE DEF n
    <3>. QED  BY <1>1, <1>4, <1>5, <1>6, <3>1, <3>2
  <2>2. CASE ~IsFirst(c) /\ c.curr_blk = c.end_blk
    <3>1. c.block_offset = 0 /\ n = c.size - c.done
        BY <2>2, Zenon DEF GoodWrite, BytesToCopy
    <3>2. c.off + c.size <= c.curr_blk * B
        BY <1>1, <2>2, LastBlkEnd DEF GoodWrite
    <3>. HIDE DEF n
    <3>. QED  BY <1>1, <1>4, <1>5, <2>2, <3>1, <3>2
  <2>3. CASE ~IsFirst(c) /\ c.curr_blk # c.end_blk
    <3>1. c.block_offset = 0 /\ n = B
        BY <2>3, Zenon DEF GoodWrite, BytesToCopy
    <3>. HIDE DEF n
    <3>. QED  BY <1>1, <1>4, <1>5, <1>6, <2>3, <3>1
  <2>. QED  BY <2>1, <2>2, <2>3, Zenon
<1>8. /\ d.off = c.off /\ d.size = c.size /\ d.v = c.v /\ d.end_blk = c.end_blk
      /\ d.curr_blk = c.curr_blk + 1 /\ d.done = c.done + n /\ d.block_offset = 0
  <2>1. n \in Int /\ c.done + n \in Nat
      BY <1>1, <1>7
  <2>. HIDE DEF n
  <2>. QED  BY <2>1, NextBlkType, Zenon
<1>9. GoodWrite(d, ws)
  <2>. HIDE DEF n, d
  <2>1. ~IsFirst(d) /\ d.curr_blk >= FirstBlk(d.off)
      BY <1>1, <1>2, <1>8 DEF IsFirst
  <2>2. d.curr_blk <= d.end_blk =>
            d.done < d.size /\ Position(d.curr_blk, d.block_offset) = d.off + d.done
      BY <1>1, <1>4, <1>7, <1>8
  <2>. QED  BY <1>8, <2>1, <2>2, Zenon DEF GoodWrite
<1>. QED  BY <1>7, <1>9, Zenon

\* Steps that store nothing and start no write.
LEMMA KeepInPlace ==
    ASSUME TypeOK, PInv, UNCHANGED <<data, wrote>>,
           NEW t \in Threads, NEW c, c # NoCall => c.op # "write",
           call' = call \/ call' = [call EXCEPT ![t] = c]
    PROVE  PInv'
<1>1. GoodBytes'
    BY Zenon DEF PInv, GoodBytes, BelongsAt
<1>2. ASSUME NEW u \in Threads, At(u, "write")'
      PROVE  At(u, "write") /\ call'[u] = call[u]
    BY <1>2, SMTT(30) DEF At, TypeOK
<1>3. GoodWrites'
    BY <1>2, ZenonT(30) DEF PInv, GoodWrites, GoodWrite
<1>. QED  BY <1>1, <1>3, SMTT(30) DEF PInv

\* The record of a write stays when others start.
LEMMA AppendKeeps ==
    ASSUME NEW S, NEW s \in Seq(S), NEW e \in S
    PROVE  /\ Len(s) \in Nat
           /\ Len(Append(s, e)) = Len(s) + 1
           /\ \A v \in 1 .. Len(s) : v \in 1 .. Len(s) + 1 /\ Append(s, e)[v] = s[v]
           /\ Append(s, e)[Len(s) + 1] = e
    OBVIOUS

\* A write starts.
LEMMA StartInPlace ==
    ASSUME TInv, PInv, NoEmptyWrites, NEW t \in Threads, NEW off \in From(t),
           NEW size \in WriteSizes, NEW upd \in BOOLEAN,
           imss_write(t, off, size, upd)
    PROVE  PInv'
<1>. DEFINE d == Transfer("write", t, off, size, off + size, upd)
            w == [off |-> off, size |-> size, before |-> finished]
            W == [off : Nat, size : WriteSizes, before : SUBSET Versions]
<1>1. TypeOK /\ off \in Nat /\ size \in Nat /\ size > 0
  <2>1. TypeOK /\ map_fd[process[t]] # NoFd
      BY Zenon DEF TInv, imss_write
  <2>2. off \in Nat
      BY <2>1, FromType, Zenon
  <2>3. size \in Nat /\ size > 0
      BY SizesAssumption DEF NoEmptyWrites
  <2>. QED  BY <2>1, <2>2, <2>3, Zenon
<1>2. wrote \in Seq(W) /\ w \in W /\ wrote' = Append(wrote, w)
    BY <1>1, SMTT(30) DEF TypeOK, imss_write
<1>3. /\ Len(wrote) \in Nat
      /\ Len(wrote') = Len(wrote) + 1
      /\ \A v \in 1 .. Len(wrote) : v \in 1 .. Len(wrote') /\ wrote'[v] = wrote[v]
      /\ wrote'[Len(wrote) + 1] = w
    BY <1>2, AppendKeeps, SMTT(30)
<1>4. call' = [call EXCEPT ![t] = d] /\ data' = data
    BY ZenonT(30) DEF imss_write, Begin, file
<1>5. GoodBytes'
  <2>. HIDE DEF d, w, W
  <2>. SUFFICES ASSUME NEW n \in Blks, NEW i \in InBlk, data[n] # NoBlock, data[n][i] # NoByte
                PROVE  data[n][i].v \in 1 .. Len(wrote') /\ BelongsAt(data[n][i], Position(n, i))'
      BY <1>4, Zenon DEF GoodBytes
  <2>1. data[n][i].v \in 1 .. Len(wrote) /\ BelongsAt(data[n][i], Position(n, i))
      BY Zenon DEF PInv, GoodBytes
  <2>2. data[n][i].v \in 1 .. Len(wrote') /\ wrote'[data[n][i].v] = wrote[data[n][i].v]
      BY <1>3, <2>1, Zenon
  <2>. QED  BY <1>4, <2>1, <2>2, Zenon DEF BelongsAt
<1>6. /\ d.v = Len(wrote) + 1 /\ d.off = off /\ d.size = size /\ d.done = 0
      /\ d.curr_blk = FirstBlk(off) /\ d.end_blk = LastBlk(off + size)
      /\ d.block_offset = off % B
    BY Zenon DEF Transfer
<1>. w.off = off /\ w.size = size
    BY SMTT(30)
<1>. HIDE DEF d, w, W
<1>7. GoodWrite(d, wrote')
  <2>1. d.v \in 1 .. Len(wrote') /\ wrote'[d.v].off = off /\ wrote'[d.v].size = size
      BY <1>3, <1>6
  <2>2. FirstBlk(off) \in Nat
      BY <1>1, BlockTypes, Zenon
  <2>3. Position(d.curr_blk, d.block_offset) = off + 0
      BY <1>1, <1>6, PositionFirst
  <2>4. IsFirst(d)
      BY <1>6, Zenon DEF IsFirst
  <2>5. d.curr_blk >= FirstBlk(d.off) /\ d.done < d.size
      BY <1>1, <1>6, <2>2
  <2>. QED  BY <1>1, <1>6, <2>1, <2>3, <2>4, <2>5, SMTT(30) DEF GoodWrite
<1>8. GoodWrites'
  <2>. SUFFICES ASSUME NEW u \in Threads, At(u, "write")'
                PROVE  GoodWrite(call'[u], wrote')
      BY Zenon DEF GoodWrites
  <2>1. CASE u = t
      BY <1>1, <1>4, <1>7, <2>1, SMTT(30) DEF TypeOK
  <2>2. CASE u # t
    <3>1. call'[u] = call[u]
        BY <1>1, <1>4, <2>2, SMTT(30) DEF TypeOK
    <3>2. GoodWrite(call[u], wrote)
        BY <3>1, Zenon DEF PInv, GoodWrites, At
    <3>. QED  BY <1>3, <3>1, <3>2, Zenon DEF GoodWrite
  <2>. QED  BY <2>1, <2>2, Zenon
<1>. QED  BY <1>5, <1>8, Zenon DEF PInv

\* A write stores its bytes of one block.
LEMMA BlockInPlace ==
    ASSUME TInv, PInv, NEW t \in Threads, imss_write_Block(t)
    PROVE  PInv'
<1>. DEFINE c == call[t]
            n == BytesToCopy(c)
            d == NextBlk(c, n)
            b(i) == Byte(c.v, c.done + i - c.block_offset)
<1>1. TypeOK /\ c \in Transfers /\ GoodWrite(c, wrote) /\ InLoop(c)
  <2>1. TypeOK /\ At(t, "write") /\ InLoop(c)
      BY Zenon DEF TInv, imss_write_Block
  <2>2. c \in Transfers
      BY <2>1, TransferCalls, SMTT(30) DEF At, TypeOK
  <2>. QED  BY <2>1, <2>2, Zenon DEF PInv, GoodWrites
<1>2. /\ n \in 1 .. c.size - c.done
      /\ GoodWrite(d, wrote)
    BY <1>1, WriteTurn, Zenon
<1>3. call' = [call EXCEPT ![t] = d] /\ wrote' = wrote
    BY SMTT(30) DEF imss_write_Block, history
<1>4. GoodWrites'
  <2>. HIDE DEF n, d
  <2>. QED  BY <1>1, <1>2, <1>3, ZenonT(30) DEF PInv, GoodWrites, GoodWrite, At, TypeOK
<1>5. ASSUME NEW i \in InBlk, c.block_offset <= i, i < c.block_offset + n
      PROVE  b(i).v \in 1 .. Len(wrote) /\ BelongsAt(b(i), Position(c.curr_blk, i))
  <2>1. /\ c.off \in Nat /\ c.size \in Nat /\ c.done \in Nat
        /\ c.curr_blk \in Nat /\ c.block_offset \in 0 .. B - 1 /\ i \in 0 .. B - 1
        /\ B \in Nat
      BY <1>1, TransferFields, BlockTypes, SMTT(30) DEF InBlk
  <2>2. /\ c.curr_blk \in Nat \ {0}
        /\ Position(c.curr_blk, c.block_offset) = c.off + c.done
    <3>1. FirstBlk(c.off) \in Nat \ {0}
        BY <2>1, BlockTypes, Zenon
    <3>. QED  BY <1>1, <2>1, <3>1 DEF GoodWrite, InLoop
  <2>3. /\ Position(c.curr_blk, c.block_offset) = (c.curr_blk - 1) * B + c.block_offset
        /\ Position(c.curr_blk, i) = (c.curr_blk - 1) * B + i
        /\ (c.curr_blk - 1) * B \in Nat
    <3>1. c.curr_blk - 1 \in Nat
        BY <2>2
    <3>2. (c.curr_blk - 1) * B \in Nat
        BY <2>1, <3>1
    <3>. QED  BY <3>2, Zenon DEF Position
  <2>4. b(i).v = c.v /\ b(i).k = c.done + i - c.block_offset
      BY SMTT(30) DEF Byte
  <2>5. c.v \in 1 .. Len(wrote) /\ wrote[c.v].off = c.off /\ wrote[c.v].size = c.size
      BY <1>1, SMTT(30) DEF GoodWrite
  <2>. HIDE DEF n, b
  <2>6. b(i).k < c.size /\ c.off + b(i).k = Position(c.curr_blk, i)
      BY <1>2, <1>5, <2>1, <2>2, <2>3, <2>4, SMTT(30)
  <2>. QED  BY <2>4, <2>5, <2>6, Zenon DEF BelongsAt
<1>6. Length(n) = n
    BY <1>2 DEF Length
<1>7. ASSUME NEW m \in Blks, NEW i \in InBlk, data'[m] # NoBlock, data'[m][i] # NoByte
      PROVE  /\ data'[m][i].v \in 1 .. Len(wrote)
             /\ BelongsAt(data'[m][i], Position(m, i))
  <2>1. CASE m # c.curr_blk
    <3>1. data'[m] = data[m]
        BY <1>1, <2>1, Zenon DEF imss_write_Block, TypeOK
    <3>. QED  BY <1>7, <3>1, Zenon DEF PInv, GoodBytes
  <2>2. CASE m = c.curr_blk
    <3>1. data'[m][i] = IF c.block_offset <= i /\ i < c.block_offset + Length(n)
                        THEN b(i) ELSE Bytes(m)[i]
        BY <1>1, <2>2, ZenonT(30) DEF imss_write_Block, TypeOK
    <3>2. CASE c.block_offset <= i /\ i < c.block_offset + n
        BY <1>5, <1>6, <2>2, <3>1, <3>2, Zenon
    <3>3. CASE ~(c.block_offset <= i /\ i < c.block_offset + n)
      <4>1. data'[m][i] = Bytes(m)[i]
          BY <1>6, <3>1, <3>3, Zenon
      <4>2. data[m] # NoBlock /\ data'[m][i] = data[m][i]
          BY <1>7, <4>1, Zenon DEF Bytes
      <4>. QED  BY <1>7, <4>2, Zenon DEF PInv, GoodBytes
    <3>. QED  BY <3>2, <3>3, SMTT(30)
  <2>. QED  BY <2>1, <2>2, Zenon
<1>8. GoodBytes'
    BY <1>3, <1>7, Zenon DEF GoodBytes, BelongsAt
<1>. QED  BY <1>4, <1>8, Zenon DEF PInv

\* A step that starts and continues no write.
NoWriteCall(t) ==
    \E c : /\ c # NoCall => c.op # "write"
           /\ call' = call \/ call' = [call EXCEPT ![t] = c]

\* The other steps.
LEMMA OthersInPlace ==
    ASSUME TInv, PInv, NEW t \in Threads,
           \/ Open(t) \/ Seek(t) \/ Read(t) \/ Close(t) \/ imss_write_End(t)
    PROVE  PInv'
<1>1. UNCHANGED <<data, wrote>>
    BY Zenon DEF Open, Seek, Read, Close, imss_write_End, imss_create, create_dataset_SET,
           imss_create_Lookup, imss_create_Block0, imss_open, open_trunc, imss_getattr, lseek, lseek_end, imss_sread,
           imss_sread_Block, imss_sread_End, imss_release, imss_release_Block0,
           imss_refresh, file, history
<1>2. NoWriteCall(t)
  <2>1. CASE Open(t) \/ Seek(t)
    <3>1. /\ [op |-> "create"].op # "write" /\ [op |-> "set"].op # "write"
          /\ [op |-> "stat", seen |-> st_size # NoStat].op # "write"
        BY Zenon
    <3>. QED  BY <2>1, <3>1, Zenon
              DEF Open, Seek, imss_create, create_dataset_SET, imss_create_Lookup,
                  imss_create_Block0, imss_open, open_trunc, imss_getattr, lseek, lseek_end, Begin, Return, NoWriteCall
  <2>2. CASE imss_write_End(t)
      BY <2>2, Zenon DEF imss_write_End, Return, NoWriteCall
  <2>3. CASE Read(t)
    <3>1. ASSUME NEW off, NEW size, NEW end, NEW upd
          PROVE  Transfer("read", t, off, size, end, upd).op = "read"
        BY Zenon DEF Transfer
    <3>2. ASSUME At(t, "read"), NEW n, NEW x, NEW y
          PROVE  [NextBlk(call[t], n) EXCEPT !.buf = x, !.eof = y].op = "read"
        BY <3>2, TransferCalls, SMTT(30) DEF At, TInv, TypeOK, NextBlk, Transfers
    <3>3. ASSUME NEW off, NEW size, NEW upd, imss_sread(t, off, size, upd)
          PROVE  NoWriteCall(t)
        BY <3>1, <3>3, Zenon DEF imss_sread, Begin, NoWriteCall
    <3>4. CASE imss_sread_Block(t)
        BY <3>2, <3>4, Zenon DEF imss_sread_Block, Return, NoWriteCall
    <3>5. CASE imss_sread_End(t)
        BY <3>5, Zenon DEF imss_sread_End, Return, NoWriteCall
    <3>. QED  BY <2>3, <3>3, <3>4, <3>5, Zenon DEF Read
  <2>4. CASE Close(t)
      BY <2>4, Zenon DEF Close, imss_release, imss_release_Block0, imss_refresh, Begin,
                  Return, NoWriteCall
  <2>. QED  BY <2>1, <2>2, <2>3, <2>4, SMTT(30)
<1>. QED  BY <1>1, <1>2, KeepInPlace, SMTT(30) DEF TInv, NoWriteCall

\* Every byte of the file is the byte that some write was asked to store
\* there: for any size of the blocks, any sizes and offsets, any processes
\* and threads that write and read at the same time, imss_write never
\* misplaces a byte nor touches one outside its range.
THEOREM InPlace == ASSUME NoEmptyWrites PROVE Spec => []WritesInPlace
<1>. DEFINE IInv == TInv /\ PInv
<1>1. Init => IInv
  <2>. SUFFICES ASSUME Init PROVE PInv
      BY TypeInit, Zenon
  <2>. QED  BY Zenon DEF Init, PInv, GoodWrites, GoodBytes, At
<1>2. IInv /\ [Next]_vars => IInv'
  <2>. SUFFICES ASSUME TInv, PInv, [Next]_vars PROVE TInv' /\ PInv'
      BY Zenon
  <2>1. ASSUME NEW t \in Threads,
               Open(t) \/ Seek(t) \/ Write(t) \/ Read(t) \/ Close(t)
        PROVE  TInv' /\ PInv'
    <3>1. TInv'
        BY <2>1, TypeOpen, TypeWrite, TypeRead, TypeClose, Zenon
    <3>2. CASE Write(t)
      <4>1. (t \notin Positional) \in BOOLEAN
          BY Zenon
      <4>. QED  BY <3>1, <3>2, <4>1, StartInPlace, BlockInPlace, OthersInPlace, Zenon DEF Write
    <3>3. CASE ~Write(t)
        BY <2>1, <3>1, <3>3, OthersInPlace, Zenon
    <3>. QED  BY <3>2, <3>3, Zenon
  <2>2. CASE UNCHANGED vars
      BY <2>2, Zenon DEF vars, file, history, TInv, TypeOK, WriteBounds, At, PInv, GoodWrites,
                  GoodBytes, BelongsAt
  <2>. QED  BY <2>1, <2>2, Zenon DEF Next
<1>3. IInv => WritesInPlace
    BY Zenon DEF PInv, GoodBytes, WritesInPlace
<1>. HIDE DEF IInv
<1>. QED  BY <1>1, <1>2, <1>3, PTL DEF Spec
-----------------------------------------------------------------------------
(* ClosedIsPublished.  Between imss_release and the WRITE_OP of block 0 a  *)
(* thread has the size in a variable of its own: the size covers the       *)
(* writes of the process as long as no other thread of it writes.          *)

OneThreadPerProcess == \A t, u \in Threads : process[t] = process[u] => t = u

\* The larger of two sizes is at least as large as the larger of smaller ones.
LEMMA LargerFits ==
    \A a, b, c, d \in Nat :
        b <= d /\ (a = 0 \/ a <= c) => Larger(c, d) \in Nat /\ Larger(a, b) <= Larger(c, d)
    BY DEF Larger

LEMMA WriteFits ==
    \A b, c, d \in Nat :
        b <= d => /\ (IF c > d THEN c ELSE d) \in Nat
                  /\ Larger(b, c) <= (IF c > d THEN c ELSE d) /\ Larger(0, b) <= d
    BY DEF Larger

\* The calls of a thread that is creating the file.
Creating(t) == At(t, "create") \/ At(t, "set") \/ At(t, "stat")

\* The local size covers the writes that no close has published; a write
\* and a close have the size of the map in hand; nothing is unpublished
\* before an open and after the write of block 0.
Own(t) ==
    LET p == process[t]
        c == call[t]
    IN  /\ unsaved[p] = 0 \/ (local[p] # NoStat /\ unsaved[p] <= local[p])
        /\ map_fd[p] = NoFd => unsaved[p] = 0
        /\ At(t, "write") => c.st = local[p] /\ local[p] # NoStat /\ map_fd[p] # NoFd
        /\ At(t, "release") => c.st = local[p]
        /\ Creating(t) \/ At(t, "refresh") => unsaved[p] = 0

SInv == ClosedIsPublished /\ \A t \in Threads : Own(t)

\* A step of t that writes the entries of its own process only.
OnlyOwn(t) ==
    \A u \in Threads : u # t =>
        /\ call'[u] = call[u] /\ local'[process[u]] = local[process[u]]
        /\ map_fd'[process[u]] = map_fd[process[u]]
        /\ unsaved'[process[u]] = unsaved[process[u]]

LEMMA OwnOthers ==
    ASSUME SInv, NEW t \in Threads, OnlyOwn(t), Own(t)', ClosedIsPublished'
    PROVE  SInv'
<1>1. ASSUME NEW u \in Threads, u # t  PROVE Own(u)'
  <2>1. /\ call'[u] = call[u] /\ local'[process[u]] = local[process[u]]
        /\ map_fd'[process[u]] = map_fd[process[u]]
        /\ unsaved'[process[u]] = unsaved[process[u]]
      BY <1>1, Zenon DEF OnlyOwn
  <2>2. Own(u)
      BY Zenon DEF SInv
  <2>. QED  BY <2>1, <2>2, Zenon DEF Own, At, Creating
<1>. QED  BY <1>1, Zenon DEF SInv

\* What one step puts in the entries of its process.
LEMMA OnlyOwnIs ==
    ASSUME TypeOK, OneThreadPerProcess, NEW t \in Threads, NEW a, NEW b, NEW c, NEW d,
           call' = call \/ call' = [call EXCEPT ![t] = a],
           local' = local \/ local' = [local EXCEPT ![process[t]] = b],
           map_fd' = map_fd \/ map_fd' = [map_fd EXCEPT ![process[t]] = c],
           unsaved' = unsaved \/ unsaved' = [unsaved EXCEPT ![process[t]] = d]
    PROVE  OnlyOwn(t)
<1>. SUFFICES ASSUME NEW u \in Threads, u # t
              PROVE  /\ call'[u] = call[u] /\ local'[process[u]] = local[process[u]]
                     /\ map_fd'[process[u]] = map_fd[process[u]]
                     /\ unsaved'[process[u]] = unsaved[process[u]]
    BY Zenon DEF OnlyOwn
<1>1. process[u] \in Processes /\ process[u] # process[t]
    BY ProcessType, Zenon DEF OneThreadPerProcess
<1>2. call'[u] = call[u]
    BY Zenon DEF TypeOK
<1>3. local'[process[u]] = local[process[u]]
    BY <1>1, Zenon DEF TypeOK
<1>4. map_fd'[process[u]] = map_fd[process[u]]
    BY <1>1, Zenon DEF TypeOK
<1>5. unsaved'[process[u]] = unsaved[process[u]]
    BY <1>1, Zenon DEF TypeOK
<1>. QED  BY <1>2, <1>3, <1>4, <1>5, Zenon

LEMMA OnlyOwnStep ==
    ASSUME TypeOK, OneThreadPerProcess, NEW t \in Threads,
           Open(t) \/ Seek(t) \/ Write(t) \/ Read(t) \/ Close(t)
    PROVE  OnlyOwn(t)
<1>. DEFINE p == process[t]
            Some(x, y, i) == y = x \/ \E e : y = [x EXCEPT ![i] = e]
<1>1. Some(call, call', t)
    BY Zenon DEF Open, Seek, Write, Read, Close, imss_create, create_dataset_SET,
                 imss_create_Lookup, imss_create_Block0, imss_open, open_trunc, imss_getattr, lseek, lseek_end, imss_write, imss_write_Block,
                 imss_write_End, imss_sread, imss_sread_Block, imss_sread_End, imss_release,
                 imss_release_Block0, imss_refresh, Begin, Return
<1>2. Some(local, local', p)
    BY Zenon DEF Open, Seek, Write, Read, Close, imss_create, create_dataset_SET,
                 imss_create_Lookup, imss_create_Block0, imss_open, open_trunc, imss_getattr, lseek, lseek_end, imss_write, imss_write_Block,
                 imss_write_End, imss_sread, imss_sread_Block, imss_sread_End, imss_release,
                 imss_release_Block0, imss_refresh
<1>3. Some(map_fd, map_fd', p)
    BY Zenon DEF Open, Seek, Write, Read, Close, imss_create, create_dataset_SET,
                 imss_create_Lookup, imss_create_Block0, imss_open, open_trunc, imss_getattr, lseek, lseek_end, imss_write, imss_write_Block,
                 imss_write_End, imss_sread, imss_sread_Block, imss_sread_End, imss_release,
                 imss_release_Block0, imss_refresh
<1>4. Some(unsaved, unsaved', p)
    BY Zenon DEF Open, Seek, Write, Read, Close, imss_create, create_dataset_SET,
                 imss_create_Lookup, imss_create_Block0, imss_open, open_trunc, imss_getattr, lseek, lseek_end, imss_write, imss_write_Block,
                 imss_write_End, imss_sread, imss_sread_Block, imss_sread_End, imss_release,
                 imss_release_Block0, imss_refresh, history
<1>. QED  BY <1>1, <1>2, <1>3, <1>4, OnlyOwnIs, Zenon

\* Steps that leave the entries of the process and go to a call that asks
\* nothing of them.
LEMMA OwnQuiet ==
    ASSUME NEW t \in Threads, Own(t), UNCHANGED <<local, unsaved>>,
           map_fd'[process[t]] = map_fd[process[t]] \/ map_fd'[process[t]] # NoFd,
           \/ call'[t] = call[t]
           \/ call'[t] = NoCall
           \/ call'[t].op = "read"
    PROVE  Own(t)'
<1>. DEFINE p == process[t]
<1>1. local'[p] = local[p] /\ unsaved'[p] = unsaved[p]
    BY Zenon
<1>2. CASE call'[t] = call[t]
    BY <1>1, <1>2, Zenon DEF Own, At, Creating
<1>3. CASE call'[t] = NoCall \/ call'[t].op = "read"
  <2>1. ~At(t, "write")' /\ ~At(t, "release")' /\ ~Creating(t)' /\ ~At(t, "refresh")'
      BY <1>3, Zenon DEF At, Creating
  <2>. QED  BY <1>1, <2>1, Zenon DEF Own
<1>. QED  BY <1>2, <1>3, Zenon

LEMMA OwnOpen ==
    ASSUME TInv, SInv, NEW t \in Threads, Open(t) \/ Seek(t)
    PROVE  Own(t)' /\ ClosedIsPublished'
<1>. DEFINE p == process[t]
<1>1. /\ TypeOK /\ p \in Processes /\ Own(t) /\ ClosedIsPublished
      /\ unsaved[p] \in Nat /\ 0 \in Nat /\ NoFd \notin Nat /\ NoStat \notin Nat
  <2>1. TypeOK /\ p \in Processes /\ Own(t) /\ ClosedIsPublished /\ Sizes \subseteq Nat
      BY ProcessType, BlockTypes DEF TInv, SInv, Sizes
  <2>. QED  BY <2>1, SentinelsAssumption, Zenon DEF TypeOK
<1>. HIDE DEF p
<1>2. ASSUME call'[t].op \in {"create", "set", "stat"}, unsaved[p] = 0,
             UNCHANGED <<local, map_fd, unsaved, st_size, published, race_lost>>
      PROVE  Own(t)' /\ ClosedIsPublished'
  <2>1. ~At(t, "write")' /\ ~At(t, "release")'
      BY <1>2, Zenon DEF At
  <2>2. unsaved'[p] = 0
      BY <1>2, Zenon
  <2>3. ClosedIsPublished'
      BY <1>1, <1>2, Zenon DEF ClosedIsPublished
  <2>4. Own(t)'
    <3>1. map_fd'[p] = NoFd => unsaved'[p] = 0
        BY <2>2, Zenon
    <3>. QED  BY <2>1, <2>2, <3>1, Zenon DEF Own, p
  <2>. QED  BY <2>3, <2>4, Zenon
<1>3. CASE imss_create(t) \/ create_dataset_SET(t) \/ imss_create_Lookup(t)
  <2>. DEFINE d == [op |-> "stat", seen |-> st_size # NoStat]
  <2>1. /\ call'[t] \in {[op |-> "create"], [op |-> "set"], d}
        /\ UNCHANGED <<local, map_fd, unsaved, st_size, published, race_lost>>
      BY <1>1, <1>3, Zenon DEF imss_create, create_dataset_SET, imss_create_Lookup, Begin, TypeOK,
                        file, history
  <2>2. unsaved[p] = 0
      BY <1>1, <1>3, Zenon DEF imss_create, create_dataset_SET, imss_create_Lookup, Own,
                               Creating, p
  <2>3. call'[t].op \in {"create", "set", "stat"}
      BY <2>1
  <2>. QED  BY <1>2, <2>1, <2>2, <2>3, Zenon
<1>11. CASE imss_create_Block0(t)
  <2>1. /\ call'[t] = NoCall /\ map_fd'[p] = 0 /\ local'[p] = 0
        /\ st_size' = IF call[t].seen THEN Larger(st_size, 0) ELSE 0
        /\ race_lost' = (race_lost \/ (~call[t].seen /\ st_size # NoStat))
        /\ UNCHANGED <<unsaved, published>>
      BY <1>1, <1>11, Zenon DEF imss_create_Block0, Return, TypeOK, p
  <2>2. unsaved[p] = 0
      BY <1>1, <1>11, Zenon DEF imss_create_Block0, Own, Creating, p
  <2>3. st_size # NoStat => Larger(st_size, 0) = st_size
      BY <1>1, BlockTypes DEF TypeOK, Sizes, Larger
  <2>4. ClosedIsPublished'
    <3>1. CASE race_lost' \/ published = 0
        BY <2>1, <3>1, Zenon DEF ClosedIsPublished
    <3>2. CASE ~race_lost' /\ published # 0
      <4>1. st_size # NoStat /\ published <= st_size
          BY <1>1, <2>1, <3>2, Zenon DEF ClosedIsPublished
      <4>2. st_size' = st_size
          BY <2>1, <2>3, <3>2, <4>1, Zenon
      <4>. QED  BY <2>1, <4>1, <4>2, Zenon DEF ClosedIsPublished
    <3>. QED  BY <3>1, <3>2, Zenon
  <2>5. Own(t)'
      BY <2>1, <2>2, Zenon DEF Own, At, Creating, p
  <2>. QED  BY <2>4, <2>5, Zenon
<1>4. ASSUME UNCHANGED <<st_size, published, race_lost>>
      PROVE  ClosedIsPublished'
    BY <1>1, <1>4, Zenon DEF ClosedIsPublished
<1>5. ASSUME UNCHANGED <<call, st_size, published, race_lost, unsaved>>, call[t] = NoCall,
             local'[p] = Cached(p), map_fd'[p] = map_fd[p] \/ map_fd'[p] # NoFd
      PROVE  Own(t)' /\ ClosedIsPublished'
  <2>1. call'[t] = NoCall /\ unsaved'[p] = unsaved[p]
      BY <1>5, Zenon
  <2>2. unsaved[p] = 0 \/ (local'[p] # NoStat /\ unsaved[p] <= local'[p])
      BY <1>1, <1>5, Zenon DEF Own, Cached, p
  <2>3. map_fd'[p] = NoFd => unsaved[p] = 0
      BY <1>1, <1>5, Zenon DEF Own, p
  <2>4. Own(t)'
      BY <2>1, <2>2, <2>3, Zenon DEF Own, At, Creating, p
  <2>. QED  BY <1>4, <1>5, <2>4, Zenon
<1>6. ASSUME NEW o_creat \in BOOLEAN, imss_open(t, o_creat)
      PROVE  Own(t)' /\ ClosedIsPublished'
  <2>1. /\ UNCHANGED <<call, st_size, published, race_lost, unsaved>> /\ call[t] = NoCall
        /\ local'[p] = Cached(p) /\ map_fd'[p] = 0
      BY <1>1, <1>6, Zenon DEF imss_open, file, history, TypeOK, p
  <2>. QED  BY <1>1, <1>5, <2>1, Zenon
<1>7. CASE open_trunc(t)
  <2>1. /\ call'[t] = NoCall /\ map_fd'[p] = 0 /\ UNCHANGED <<st_size, published, race_lost>>
        /\ \/ UNCHANGED <<local, unsaved>>
           \/ local'[p] = 0 /\ unsaved'[p] = 0
      BY <1>1, <1>7, Zenon DEF open_trunc, file, TypeOK, p
  <2>2. CASE UNCHANGED <<local, unsaved>>
    <3>1. Own(t)'
        BY <1>1, <2>1, <2>2, OwnQuiet, Zenon DEF p
    <3>. QED  BY <1>4, <2>1, <3>1, Zenon
  <2>3. CASE local'[p] = 0 /\ unsaved'[p] = 0
    <3>1. Own(t)'
        BY <2>1, <2>3, Zenon DEF Own, At, Creating, p
    <3>. QED  BY <1>4, <2>1, <3>1, Zenon
  <2>. QED  BY <2>1, <2>2, <2>3, Zenon
<1>8. CASE imss_getattr(t)
  <2>1. /\ UNCHANGED <<call, st_size, published, race_lost, unsaved>> /\ call[t] = NoCall
        /\ local'[p] = Cached(p) /\ map_fd'[p] = map_fd[p]
      BY <1>1, <1>8, Zenon DEF imss_getattr, file, history, TypeOK, p
  <2>. QED  BY <1>5, <2>1, Zenon
<1>9. ASSUME NEW off \in Offsets, lseek(t, off)
      PROVE  Own(t)' /\ ClosedIsPublished'
  <2>1. off \in Nat
      BY SizesAssumption, Zenon
  <2>2. /\ UNCHANGED <<local, unsaved, st_size, published, race_lost>> /\ call'[t] = NoCall
        /\ map_fd'[p] = off
      BY <1>1, <1>9, Zenon DEF lseek, file, history, TypeOK, p
  <2>3. Own(t)'
      BY <1>1, <2>1, <2>2, OwnQuiet, Zenon DEF p
  <2>. QED  BY <1>4, <2>2, <2>3, Zenon
<1>10. CASE lseek_end(t)
  <2>1. /\ UNCHANGED <<call, st_size, published, race_lost, unsaved>> /\ call[t] = NoCall
        /\ local'[p] = Cached(p) /\ map_fd'[p] = Cached(p)
      BY <1>1, <1>10, Zenon DEF lseek_end, file, history, TypeOK, p
  <2>2. map_fd'[p] # NoFd
    <3>1. Cached(p) \in Sizes \cup {NoStat} /\ Cached(p) # NoStat
        BY <1>1, <1>10, CachedType, Zenon DEF lseek_end, p
    <3>2. Cached(p) \in Nat
        BY <3>1, BlockTypes DEF Sizes
    <3>. QED  BY <1>1, <2>1, <3>2, Zenon
  <2>. QED  BY <1>5, <2>1, <2>2, Zenon
<1>. QED  BY <1>3, <1>6, <1>7, <1>8, <1>9, <1>10, <1>11, Zenon DEF Open, Seek

LEMMA OwnWrite ==
    ASSUME TInv, SInv, NEW t \in Threads, Write(t)
    PROVE  Own(t)' /\ ClosedIsPublished'
<1>. DEFINE p == process[t]
<1>1. /\ TypeOK /\ p \in Processes /\ Own(t) /\ ClosedIsPublished
      /\ unsaved[p] \in Nat /\ NoFd \notin Nat /\ NoStat \notin Nat
  <2>1. TypeOK /\ p \in Processes /\ Own(t) /\ ClosedIsPublished /\ Sizes \subseteq Nat
      BY ProcessType, BlockTypes DEF TInv, SInv, Sizes
  <2>. QED  BY <2>1, SentinelsAssumption, Zenon DEF TypeOK
<1>. HIDE DEF p
<1>2. UNCHANGED <<st_size, published, race_lost>>
    BY Zenon DEF Write, imss_write, imss_write_Block, imss_write_End, file, history
<1>3. ClosedIsPublished'
    BY <1>1, <1>2, Zenon DEF ClosedIsPublished
<1>4. ASSUME NEW off \in From(t), NEW size \in WriteSizes, NEW upd \in BOOLEAN,
             imss_write(t, off, size, upd)
      PROVE  Own(t)'
  <2>1. /\ call'[t] = Transfer("write", t, off, size, off + size, upd)
        /\ UNCHANGED <<local, map_fd, unsaved>> /\ local[p] # NoStat /\ map_fd[p] # NoFd
      BY <1>1, <1>4, Zenon DEF imss_write, Begin, TypeOK, p
  <2>2. call'[t].op = "write" /\ call'[t].st = local[p]
    <3>1. ASSUME NEW end
          PROVE  /\ Transfer("write", t, off, size, end, upd).op = "write"
                 /\ Transfer("write", t, off, size, end, upd).st = local[p]
        BY Zenon DEF Transfer, p
    <3>. QED  BY <2>1, <3>1, Zenon
  <2>3. ~Creating(t)' /\ ~At(t, "release")' /\ ~At(t, "refresh")'
      BY <2>2, Zenon DEF At, Creating
  <2>. QED  BY <1>1, <2>1, <2>2, <2>3, Zenon DEF Own, p
<1>5. ASSUME imss_write_Block(t)  PROVE Own(t)'
  <2>1. PICK c \in Transfers : c = call[t] /\ At(t, "write") /\ c.op = "write"
      BY <1>1, <1>5, TransferCalls, SMTT(30) DEF imss_write_Block, At, TypeOK
  <2>2. /\ call'[t] = NextBlk(c, BytesToCopy(c))
        /\ UNCHANGED <<local, map_fd, unsaved>>
      BY <1>1, <1>5, <2>1, Zenon DEF imss_write_Block, TypeOK, history
  <2>3. call'[t].op = "write" /\ call'[t].st = c.st
      BY <2>1, <2>2, SMTT(30) DEF NextBlk, Transfers
  <2>4. ~Creating(t)' /\ ~At(t, "release")' /\ ~At(t, "refresh")'
      BY <2>3, Zenon DEF At, Creating
  <2>. QED  BY <1>1, <2>1, <2>2, <2>3, <2>4, Zenon DEF Own, p
<1>6. ASSUME imss_write_End(t)  PROVE Own(t)'
  <2>1. PICK c \in Transfers : c = call[t] /\ At(t, "write")
      BY <1>1, <1>6, TransferCalls, SMTT(30) DEF imss_write_End, At, TypeOK
  <2>2. c.off \in Nat /\ c.size \in Nat /\ c.st \in Nat
      BY TransferFields, Zenon
  <2>3. c.st = local[p] /\ local[p] # NoStat /\ map_fd[p] # NoFd
      BY <1>1, <2>1, Zenon DEF Own, p
  <2>4. unsaved[p] <= local[p]
    <3>1. unsaved[p] = 0 \/ unsaved[p] <= local[p]
        BY <1>1, Zenon DEF Own, p
    <3>2. local[p] \in Nat
        BY <2>2, <2>3, Zenon
    <3>. QED  BY <3>1, <3>2
  <2>5. /\ call'[t] = NoCall
        /\ local'[p] = IF c.off + c.size > c.st THEN c.off + c.size ELSE local[p]
        /\ map_fd'[p] = map_fd[p] \/ map_fd'[p] = c.st + c.size
        /\ unsaved'[p] = Larger(unsaved[p], c.off + c.size)
      BY <1>1, <1>6, <2>1, SMTT(30) DEF imss_write_End, Return, LocalSize, TypeOK, p
  <2>6. map_fd'[p] # NoFd
    <3>1. c.st + c.size \in Nat /\ NoFd \notin Nat
        BY <1>1, <2>2
    <3>. QED  BY <2>3, <2>5, <3>1, Zenon
  <2>7. local'[p] # NoStat /\ unsaved'[p] <= local'[p]
    <3>1. unsaved[p] \in Nat /\ local[p] \in Nat /\ NoStat \notin Nat
        BY <1>1, <2>2, <2>3, Zenon
    <3>2. PICK z \in Nat : z = c.off + c.size
        BY <2>2
    <3>3. local'[p] = (IF z > local[p] THEN z ELSE local[p]) /\ unsaved'[p] = Larger(unsaved[p], z)
        BY <2>3, <2>5, <3>2, Zenon
    <3>4. /\ (IF z > local[p] THEN z ELSE local[p]) \in Nat
          /\ Larger(unsaved[p], z) <= (IF z > local[p] THEN z ELSE local[p])
        BY <2>4, <3>1, WriteFits, Zenon
    <3>. QED  BY <3>1, <3>3, <3>4, Zenon
  <2>. QED  BY <2>5, <2>6, <2>7, Zenon DEF Own, At, Creating, p
<1>7. (t \notin Positional) \in BOOLEAN
    BY Zenon
<1>8. Own(t)'
    BY <1>4, <1>5, <1>6, <1>7, Zenon DEF Write
<1>. QED  BY <1>3, <1>8, Zenon

LEMMA OwnRead ==
    ASSUME TInv, SInv, NEW t \in Threads, Read(t)
    PROVE  Own(t)' /\ ClosedIsPublished'
<1>. DEFINE p == process[t]
<1>1. TypeOK /\ p \in Processes /\ Own(t) /\ ClosedIsPublished /\ NoFd \notin Nat
    BY ProcessType, SentinelsAssumption, Zenon DEF TInv, SInv
<1>. HIDE DEF p
<1>2. UNCHANGED <<st_size, published, race_lost, local, unsaved>>
    BY Zenon DEF Read, imss_sread, imss_sread_Block, imss_sread_End, file, history
<1>3. ClosedIsPublished'
    BY <1>1, <1>2, Zenon DEF ClosedIsPublished
<1>4. ASSUME NEW off, NEW size, NEW upd, imss_sread(t, off, size, upd)
      PROVE  Own(t)'
  <2>1. PICK end : call' = [call EXCEPT ![t] = Transfer("read", t, off, size, end, upd)]
      BY <1>4, Zenon DEF imss_sread, Begin
  <2>2. call'[t] = Transfer("read", t, off, size, end, upd) /\ map_fd' = map_fd
      BY <1>1, <1>4, <2>1, Zenon DEF imss_sread, TypeOK
  <2>3. call'[t].op = "read"
    <3>1. Transfer("read", t, off, size, end, upd).op = "read"
        BY Zenon DEF Transfer
    <3>. QED  BY <2>2, <3>1, Zenon
  <2>. QED  BY <1>1, <1>2, <2>2, <2>3, OwnQuiet, Zenon
<1>5. ASSUME imss_sread_Block(t)  PROVE Own(t)'
  <2>1. PICK c \in Transfers : c = call[t] /\ c.op = "read"
      BY <1>1, <1>5, TransferCalls, SMTT(30) DEF imss_sread_Block, At, TypeOK
  <2>2. ASSUME ToRead(c) <= 0 \/ ~HasBlk(c.curr_blk)
        PROVE  call'[t] = NoCall
    <3>1. call' = [call EXCEPT ![t] = NoCall]
        BY <1>5, <2>1, <2>2, Zenon DEF imss_sread_Block, Return
    <3>. QED  BY <1>1, <3>1, Zenon DEF TypeOK
  <2>3. ASSUME ~(ToRead(c) <= 0 \/ ~HasBlk(c.curr_blk))
        PROVE  call'[t].op = "read"
    <3>. DEFINE n == ToRead(c)
                d == [NextBlk(c, n) EXCEPT !.buf = @ \o Sent(c.curr_blk, c.block_offset, n),
                                           !.eof = AtEOF(c)]
    <3>1. call' = [call EXCEPT ![t] = d]
        BY <1>5, <2>1, <2>3, Zenon DEF imss_sread_Block
    <3>2. d.op = "read"
        BY <2>1, SMTT(30) DEF NextBlk, Transfers
    <3>. HIDE DEF d
    <3>. QED  BY <1>1, <3>1, <3>2, Zenon DEF TypeOK
  <2>4. call'[t] = NoCall \/ call'[t].op = "read"
      BY <2>2, <2>3, Zenon
  <2>5. map_fd' = map_fd
      BY <1>5, Zenon DEF imss_sread_Block
  <2>. QED  BY <1>1, <1>2, <2>4, <2>5, OwnQuiet, Zenon
<1>6. ASSUME imss_sread_End(t)  PROVE Own(t)'
  <2>1. PICK c \in Transfers : c = call[t]
      BY <1>1, <1>6, TransferCalls, SMTT(30) DEF imss_sread_End, At, TypeOK
  <2>2. c.off + c.done \in Nat
      BY TransferFields
  <2>3. call'[t] = NoCall /\ (map_fd'[p] = map_fd[p] \/ map_fd'[p] = c.off + c.done)
      BY <1>1, <1>6, <2>1, Zenon DEF imss_sread_End, Return, TypeOK, p
  <2>4. map_fd'[p] = map_fd[p] \/ map_fd'[p] # NoFd
      BY <1>1, <2>2, <2>3, Zenon
  <2>. QED  BY <1>1, <1>2, <2>3, <2>4, OwnQuiet, Zenon DEF p
<1>7. Own(t)'
    BY <1>4, <1>5, <1>6, Zenon DEF Read
<1>. QED  BY <1>3, <1>7, Zenon

LEMMA OwnClose ==
    ASSUME TInv, SInv, NEW t \in Threads, Close(t)
    PROVE  Own(t)' /\ ClosedIsPublished'
<1>. DEFINE p == process[t]
<1>1. /\ TypeOK /\ p \in Processes /\ Own(t) /\ ClosedIsPublished
      /\ unsaved[p] \in Nat /\ published \in Nat /\ NoStat \notin Nat
      /\ st_size \in Nat \cup {NoStat} /\ local[p] \in Nat \cup {NoStat}
  <2>1. TypeOK /\ p \in Processes /\ Own(t) /\ ClosedIsPublished /\ Sizes \subseteq Nat
      BY ProcessType, BlockTypes DEF TInv, SInv, Sizes
  <2>. QED  BY <2>1, SentinelsAssumption, Zenon DEF TypeOK
<1>. HIDE DEF p
<1>2. CASE imss_release(t)
  <2>1. /\ call'[t] = [op |-> "release", st |-> local[p]]
        /\ UNCHANGED <<local, map_fd, unsaved, st_size, published, race_lost>>
      BY <1>1, <1>2, Zenon DEF imss_release, Begin, TypeOK, file, history, p
  <2>2. call'[t].st = local[p] /\ ~At(t, "write")' /\ ~Creating(t)' /\ ~At(t, "refresh")'
    <3>1. \A x : [op |-> "release", st |-> x].op = "release" /\ [op |-> "release", st |-> x].st = x
        BY Zenon
    <3>2. call'[t].op = "release" /\ call'[t].st = local[p]
        BY <2>1, <3>1, Zenon
    <3>. QED  BY <3>2, Zenon DEF At, Creating
  <2>3. ClosedIsPublished'
      BY <1>1, <2>1, Zenon DEF ClosedIsPublished
  <2>4. Own(t)'
      BY <1>1, <2>1, <2>2, Zenon DEF Own, p
  <2>. QED  BY <2>3, <2>4, Zenon
<1>3. CASE imss_release_Block0(t)
  <2>1. call[t].st = local[p]
      BY <1>1, <1>3, Zenon DEF imss_release_Block0, Own, p
  <2>2. call'[t] = [op |-> "refresh"] /\ UNCHANGED <<local, map_fd>>
      BY <1>1, <1>3, Zenon DEF imss_release_Block0, TypeOK
  <2>3. ~At(t, "write")' /\ ~Creating(t)' /\ ~At(t, "release")'
      BY <2>2 DEF At, Creating
  <2>4. CASE local[p] = NoStat
    <3>1. UNCHANGED <<st_size, unsaved, published, race_lost>>
        BY <1>3, <2>1, <2>4, Zenon DEF imss_release_Block0
    <3>2. unsaved'[p] = 0
        BY <1>1, <2>4, <3>1, Zenon DEF Own, p
    <3>3. ClosedIsPublished'
        BY <1>1, <3>1, Zenon DEF ClosedIsPublished
    <3>. QED  BY <2>3, <3>2, <3>3, Zenon DEF Own, p
  <2>5. CASE local[p] # NoStat
    <3>1. /\ st_size' = Merged(local[p]) /\ published' = Larger(published, unsaved[p])
          /\ unsaved'[p] = 0 /\ race_lost' = race_lost
        BY <1>1, <1>3, <2>1, <2>5, Zenon DEF imss_release_Block0, TypeOK, p
    <3>2. local[p] \in Nat /\ unsaved[p] <= local[p]
      <4>1. unsaved[p] = 0 \/ unsaved[p] <= local[p]
          BY <1>1, Zenon DEF Own, p
      <4>2. local[p] \in Nat
          BY <1>1, <2>5, Zenon DEF TypeOK
      <4>. QED  BY <4>1, <4>2
    <3>3. ClosedIsPublished'
      <4>0. CASE race_lost
          BY <3>1, <4>0, Zenon DEF ClosedIsPublished
      <4>1. CASE ~race_lost /\ st_size = NoStat
        <5>1. published = 0 /\ st_size' = local[p]
            BY <1>1, <3>1, <4>1, Zenon DEF ClosedIsPublished, Merged
        <5>2. Larger(0, unsaved[p]) <= local[p]
            BY <1>1, <3>2, WriteFits, Zenon
        <5>. QED  BY <2>5, <3>1, <5>1, <5>2, Zenon DEF ClosedIsPublished
      <4>2. CASE ~race_lost /\ st_size # NoStat
        <5>1. st_size \in Nat /\ st_size' = Larger(st_size, local[p])
            BY <1>1, <3>1, <4>2, Zenon DEF Merged
        <5>2. published = 0 \/ published <= st_size
            BY <1>1, <4>2, Zenon DEF ClosedIsPublished
        <5>3. /\ Larger(st_size, local[p]) \in Nat
              /\ Larger(published, unsaved[p]) <= Larger(st_size, local[p])
            BY <1>1, <3>2, <5>1, <5>2, LargerFits, Zenon
        <5>. QED  BY <1>1, <3>1, <5>1, <5>3, Zenon DEF ClosedIsPublished
      <4>. QED  BY <4>0, <4>1, <4>2, Zenon
    <3>. QED  BY <2>3, <3>1, <3>3, Zenon DEF Own, p
  <2>. QED  BY <2>4, <2>5, Zenon
<1>4. CASE imss_refresh(t)
  <2>1. unsaved[p] = 0
      BY <1>1, <1>4, Zenon DEF imss_refresh, Own, p
  <2>2. call'[t] = NoCall /\ unsaved'[p] = 0 /\ UNCHANGED <<st_size, published, race_lost>>
      BY <1>1, <1>4, <2>1, Zenon DEF imss_refresh, Return, TypeOK, file, history
  <2>3. ClosedIsPublished'
      BY <1>1, <2>2, Zenon DEF ClosedIsPublished
  <2>4. Own(t)'
      BY <2>2, Zenon DEF Own, At, Creating, p
  <2>. QED  BY <2>3, <2>4, Zenon
<1>. QED  BY <1>2, <1>3, <1>4, Zenon DEF Close

\* The size that other processes find in block 0 covers every write that was
\* followed by a close, whichever process closes last and whatever it knew of
\* the size when it opened, and however the creates of the file interleave,
\* unless one of them lost the race to insert block 0: for any number of
\* processes of one thread (imss_create, imss_write, imss_release, WRITE_OP on
\* block 0).
THEOREM ClosedIsPublishedAlways ==
    ASSUME OneThreadPerProcess PROVE Spec => []ClosedIsPublished
<1>. DEFINE IInv == TInv /\ SInv
<1>1. Init => IInv
  <2>. SUFFICES ASSUME Init PROVE SInv
      BY TypeInit, Zenon
  <2>1. ASSUME NEW t \in Threads  PROVE Own(t)
    <3>1. call[t] = NoCall /\ unsaved[process[t]] = 0
        BY ProcessType, Zenon DEF Init
    <3>. QED  BY <3>1, Zenon DEF Own, At, Creating
  <2>2. ClosedIsPublished
      BY Zenon DEF Init, ClosedIsPublished
  <2>. QED  BY <2>1, <2>2, Zenon DEF SInv
<1>2. IInv /\ [Next]_vars => IInv'
  <2>. SUFFICES ASSUME TInv, SInv, [Next]_vars PROVE TInv' /\ SInv'
      BY Zenon
  <2>1. ASSUME NEW t \in Threads,
               Open(t) \/ Seek(t) \/ Write(t) \/ Read(t) \/ Close(t)
        PROVE  TInv' /\ SInv'
    <3>1. TInv'
        BY <2>1, TypeOpen, TypeWrite, TypeRead, TypeClose, Zenon
    <3>2. OnlyOwn(t)
        BY <2>1, OnlyOwnStep, Zenon DEF TInv
    <3>3. Own(t)' /\ ClosedIsPublished'
        BY <2>1, OwnOpen, OwnWrite, OwnRead, OwnClose, Zenon
    <3>. QED  BY <3>1, <3>2, <3>3, OwnOthers, Zenon
  <2>2. CASE UNCHANGED vars
      BY <2>2, Zenon DEF vars, file, history, TInv, TypeOK, WriteBounds, At, Creating, SInv, Own,
                  ClosedIsPublished
  <2>. QED  BY <2>1, <2>2, Zenon DEF Next
<1>3. IInv => ClosedIsPublished
    BY Zenon DEF SInv
<1>. HIDE DEF IInv
<1>. QED  BY <1>1, <1>2, <1>3, PTL DEF Spec

=============================================================================

--------------------------- MODULE FileSystemProofs ---------------------------
(***************************************************************************)
(* Proofs about FileReading, for every size of blocks, inodes, files and   *)
(* reads, and about CommandLine, for every size of buffers, directory and  *)
(* stack of programs.                                                      *)
(*                                                                         *)
(* FileReading first: its loops stand at the next byte of the file, given  *)
(* as a block and an index in it, and have copied those before.  Then      *)
(* CommandLine: the loop of execute has made two texts of the part of the  *)
(* command it has seen, and a slot of the process table holds the second   *)
(* one of the command its program was started by.                          *)
(***************************************************************************)
EXTENDS FileReading, CommandLine, SequenceTheorems, WellFoundedInduction, TLAPS

(* Offsets as a block and an index in it *)

\* What shift and remainder of an offset are, and that nothing else is.
LEMMA DivMod ==
  ASSUME NEW d \in Nat \ {0}, NEW p \in Nat
  PROVE  /\ p \div d \in Nat /\ p % d \in 0..(d - 1)
         /\ p = (p \div d) * d + (p % d)
OBVIOUS

LEMMA DivUnique ==
  ASSUME NEW d \in Nat \ {0}, NEW p \in Nat, NEW q \in Nat, NEW r \in 0..(d - 1),
         p = q * d + r
  PROVE  p \div d = q /\ p % d = r
OBVIOUS

\* The copy loop's index and block number go on as those of the next offset.
LEMMA DivStep ==
  ASSUME NEW d \in Nat \ {0}, NEW p \in Nat
  PROVE  IF (p % d) + 1 = d
         THEN (p + 1) % d = 0 /\ (p + 1) \div d = (p \div d) + 1
         ELSE (p + 1) % d = (p % d) + 1 /\ (p + 1) \div d = p \div d
<1>1. PICK q \in Nat : q = p \div d
  BY DivMod
<1>2. PICK r \in 0..(d - 1) : r = p % d
  BY DivMod
<1>3. PICK m \in Nat : m = q * d
  OBVIOUS
<1>4. p = m + r /\ (q + 1) * d = m + d
  BY <1>1, <1>2, <1>3, DivMod
<1>5. CASE r + 1 = d
  <2>1. p + 1 = (q + 1) * d + 0 /\ q + 1 \in Nat /\ 0 \in 0..(d - 1) /\ p + 1 \in Nat
    BY <1>4, <1>5
  <2>2. (p + 1) \div d = q + 1 /\ (p + 1) % d = 0
    BY <2>1, DivUnique
  <2> QED
    BY <1>1, <1>2, <1>5, <2>2
<1>6. CASE r + 1 # d
  <2>1. p + 1 = q * d + (r + 1) /\ r + 1 \in 0..(d - 1) /\ p + 1 \in Nat
    BY <1>3, <1>4, <1>6
  <2>2. (p + 1) \div d = q /\ (p + 1) % d = r + 1
    BY <2>1, DivUnique
  <2> QED
    BY <1>1, <1>2, <1>6, <2>2
<1> QED
  BY <1>5, <1>6

\* An offset lies in the block its shift names: at its start or behind it, and
\* before the start of every later block.
LEMMA DivBounds ==
  ASSUME NEW d \in Nat \ {0}, NEW p \in Nat
  PROVE  /\ (p \div d) * d <= p
         /\ \A b \in Nat : p < b * d => p \div d < b
         /\ \A b \in Nat : b * d <= p => b <= p \div d
<1>1. PICK q \in Nat : q = p \div d
  BY DivMod
<1>2. PICK r \in 0..(d - 1) : r = p % d
  BY DivMod
<1>3. p = q * d + r
  BY <1>1, <1>2, DivMod
<1>4. ASSUME NEW b \in Nat, p < b * d, ~(q < b)
      PROVE  FALSE
  <2>1. PICK e \in Nat : q = b + e
    BY <1>4
  <2>2. PICK f \in Nat : f = e * d
    OBVIOUS
  <2>3. q * d = b * d + f
    BY <2>1, <2>2
  <2>4. b * d \in Nat
    OBVIOUS
  <2> QED
    BY <1>3, <1>4, <2>3, <2>4
<1>5. ASSUME NEW b \in Nat, b * d <= p, ~(b <= q)
      PROVE  FALSE
  <2>1. PICK e \in Nat : b = q + 1 + e
    BY <1>5
  <2>2. PICK f \in Nat : f = e * d
    OBVIOUS
  <2>3. b * d = q * d + d + f
    BY <2>1, <2>2
  <2>4. q * d \in Nat
    OBVIOUS
  <2> QED
    BY <1>3, <1>5, <2>2, <2>3, <2>4
<1>6. q * d <= p
  <2>1. q * d \in Nat
    OBVIOUS
  <2> QED
    BY <1>3, <2>1
<1> QED
  BY <1>1, <1>4, <1>5, <1>6
-----------------------------------------------------------------------------
(* The file's bytes *)

\* The byte at an offset.
ByteAt(k) == <<inode.block_num[k \div block_pad], k % block_pad>>

\* A file that needs every block an inode can name.
FullFile == inode.length = MAX_BLOCKS * block_pad

\* What createfs leaves in an inode.
LEMMA InodeShape ==
  ASSUME inode \in Inode
  PROVE  /\ inode.length \in Nat /\ inode.length \in Length
         /\ inode.length <= MAX_BLOCKS * block_pad
         /\ \A b \in 0..(MAX_BLOCKS - 1) :
                IF b * block_pad < inode.length THEN inode.block_num[b] \in DataBlock
                ELSE inode.block_num[b] = 0
<1>1. PICK len \in Length :
        inode \in [length : {len},
                   block_num : {f \in [0..MAX_BLOCKS -> DataBlock \cup NextLength] :
                        /\ f[MAX_BLOCKS] \in NextLength
                        /\ \A b \in 0..(MAX_BLOCKS - 1) :
                            IF b \in UsedBlocks(len) THEN f[b] \in DataBlock ELSE f[b] = 0}]
  BY DEF Inode
<1>2. inode.length = len
  BY <1>1
<1>3. \A b \in 0..(MAX_BLOCKS - 1) :
        IF b \in UsedBlocks(len) THEN inode.block_num[b] \in DataBlock
        ELSE inode.block_num[b] = 0
  BY <1>1
<1>4. \A b \in 0..(MAX_BLOCKS - 1) : b \in UsedBlocks(len) <=> b * block_pad < len
  BY DEF UsedBlocks
<1>5. PICK m \in Nat : m = MAX_BLOCKS * block_pad
  BY ReadingBounds
<1>6. len \in 0..m
  BY <1>1, <1>5, ReadingBounds
<1> QED
  BY <1>1, <1>2, <1>3, <1>4, <1>5, <1>6

\* An offset in the file is in one of its blocks, whose number is valid.
LEMMA ByteAtType ==
  ASSUME inode \in Inode, NEW k \in Nat, k < inode.length
  PROVE  /\ k \div block_pad \in 0..(MAX_BLOCKS - 1)
         /\ inode.block_num[k \div block_pad] \in DataBlock
         /\ ByteAt(k) \in DataByte
<1>0. block_pad \in Nat \ {0} /\ MAX_BLOCKS \in Nat \ {0}
  BY ReadingBounds
<1>1. PICK q \in Nat : q = k \div block_pad
  BY <1>0, DivMod
<1>2. PICK r \in 0..(block_pad - 1) : r = k % block_pad
  BY <1>0, DivMod
<1>3. /\ q * block_pad <= k
      /\ k < MAX_BLOCKS * block_pad => q < MAX_BLOCKS
  BY <1>0, <1>1, DivBounds
<1>4. PICK m \in Nat : m = MAX_BLOCKS * block_pad
  BY <1>0
<1>5. inode.length <= m /\ inode.length \in Nat
  BY <1>4, InodeShape
<1>6. q \in 0..(MAX_BLOCKS - 1)
  BY <1>0, <1>3, <1>4, <1>5
<1>7. q * block_pad < inode.length
  <2>1. PICK n \in Nat : n = q * block_pad
    BY <1>0
  <2> QED
    BY <1>3, <1>5, <2>1
<1>8. inode.block_num[q] \in DataBlock
  BY <1>6, <1>7, InodeShape
<1> QED
  BY <1>1, <1>2, <1>6, <1>8 DEF ByteAt, DataByte

\* The block after the last used one has the number 0, unless there is none.
LEMMA BlockValid ==
  ASSUME inode \in Inode, NEW k \in Nat, k <= inode.length, ~(FullFile /\ k = inode.length)
  PROVE  inode.block_num[k \div block_pad] \in DataBlock
<1>0. block_pad \in Nat \ {0} /\ MAX_BLOCKS \in Nat \ {0} /\ num_data \in Nat \ {0}
  BY ReadingBounds
<1>1. CASE k < inode.length
  BY <1>1, ByteAtType
<1>2. CASE ~(k < inode.length)
  <2>0. inode.length \in Nat /\ k = inode.length
    BY <1>2, InodeShape
  <2>1. PICK q \in Nat : q = k \div block_pad
    BY <1>0, DivMod
  <2>2. PICK m \in Nat : m = MAX_BLOCKS * block_pad
    BY <1>0
  <2>3. k < m
    BY <2>0, <2>2, InodeShape DEF FullFile
  <2>4. k < MAX_BLOCKS * block_pad => q < MAX_BLOCKS
    BY <1>0, <2>1, DivBounds
  <2>5. q \in 0..(MAX_BLOCKS - 1)
    BY <1>0, <2>2, <2>3, <2>4
  <2>6. inode.block_num[q] \in DataBlock \/ inode.block_num[q] = 0
    BY <2>5, InodeShape
  <2> QED
    BY <1>0, <2>1, <2>6 DEF DataBlock
<1> QED
  BY <1>1, <1>2

\* The contents, byte by byte.
LEMMA ContentsType ==
  ASSUME inode \in Inode
  PROVE  /\ Contents \in Seq(DataByte) /\ Len(Contents) = inode.length
         /\ \A k \in 1..inode.length : Contents[k] = ByteAt(k - 1)
<1>0. inode.length \in Nat
  BY InodeShape
<1>1. \A k \in 1..inode.length : Contents[k] = ByteAt(k - 1)
  BY DEF Contents, ByteAt
<1>2. ASSUME NEW k \in 1..inode.length
      PROVE  Contents[k] \in DataByte
  <2>1. k - 1 \in Nat /\ k - 1 < inode.length
    BY <1>0
  <2>2. ByteAt(k - 1) \in DataByte
    BY <2>1, ByteAtType
  <2> QED
    BY <1>1, <2>2
<1>3. DOMAIN Contents = 1..inode.length /\ Contents = [k \in 1..inode.length |-> Contents[k]]
  BY DEF Contents
<1>4. Contents \in [1..inode.length -> DataByte]
  BY <1>2, <1>3
<1>5. Contents \in Seq(DataByte)
  BY <1>0, <1>4, SeqDef
<1>6. Len(Contents) = inode.length
  BY <1>0, <1>3, <1>5, LenProperties
<1> QED
  BY <1>1, <1>5, <1>6

\* A text of so many bytes that agrees with the file is the file's beginning.
LEMMA IsPrefix ==
  ASSUME inode \in Inode, NEW s \in Seq(DataByte), Len(s) <= inode.length,
         \A k \in 1..Len(s) : s[k] = ByteAt(k - 1)
  PROVE  s = SubSeq(Contents, 1, Len(s))
<1>0. PICK n \in Nat : n = Len(s)
  BY LenProperties
<1>1. Contents \in Seq(DataByte) /\ Len(Contents) = inode.length /\ inode.length \in Nat
  BY InodeShape, ContentsType
<1>2. \A k \in 1..n : s[k] = Contents[k]
  BY <1>0, <1>1, ContentsType
<1>3. SubSeq(Contents, 1, n) \in Seq(DataByte) /\ Len(SubSeq(Contents, 1, n)) = n
  BY <1>0, <1>1, SubSeqProperties
<1>4. \A k \in 1..n : SubSeq(Contents, 1, n)[k] = Contents[k]
  BY <1>0, <1>1, SubSeqProperties
<1> QED
  BY <1>0, <1>2, <1>3, <1>4, SeqEqual

\* One of the same length is the file.
LEMMA IsContents ==
  ASSUME inode \in Inode, NEW s \in Seq(DataByte), Len(s) = inode.length,
         \A k \in 1..Len(s) : s[k] = ByteAt(k - 1)
  PROVE  s = Contents
BY ContentsType, SeqEqual
-----------------------------------------------------------------------------
(* Where the loops stand *)

Position == offset + Len(buf)

\* A loop stands at the next byte of the file, and buf has those since offset.
Standing ==
    /\ Position <= inode.length /\ Len(buf) <= length
    /\ data_block_index = Position \div block_pad
    /\ data_index = Position % block_pad
    /\ \A k \in 1..Len(buf) : buf[k] = ByteAt(offset + k - 1)

\* Reads go on where the last one ended; only a full file is refused.
Delivered ==
    /\ ret >= 0 => fpos = Len(got)
    /\ ret = 0 => fpos = inode.length
    /\ ret < 0 => FullFile
    /\ Len(got) <= inode.length
    /\ \A k \in 1..Len(got) : got[k] = ByteAt(k - 1)
    /\ image \in {<< >>, Contents}

ReadingInv ==
    /\ ReadingTypeOK
    /\ Delivered
    /\ IF caller = "none" THEN buf = << >> ELSE Standing
    /\ caller = "file_read" => offset = fpos /\ length \in READ_SIZES /\ ret > 0
    /\ caller = "execute" => offset = 0 /\ length = inode.length

LEMMA ReadingInvInit == ReadingInit => ReadingInv
<1> SUFFICES ASSUME ReadingInit
             PROVE  ReadingInv
  OBVIOUS
<1>0. block_pad \in Nat \ {0} /\ MAX_BLOCKS \in Nat \ {0} /\ WORD \in Nat \ {0}
  <2>1. PICK m \in Nat : m = MAX_BLOCKS * block_pad
    BY ReadingBounds
  <2> QED
    BY <2>1, ReadingBounds
<1>1. ReadingTypeOK
  BY <1>0 DEF ReadingInit, ReadingTypeOK
<1>2. inode \in Inode /\ inode.length \in Nat
  BY InodeShape DEF ReadingInit
<1>3. Delivered
  BY <1>2 DEF ReadingInit, Delivered
<1> QED
  BY <1>1, <1>3 DEF ReadingInit, ReadingInv

\* A loop begins where its offset is.
LEMMA BeginStands ==
  ASSUME ReadingInv, NEW who \in {"file_read", "execute"}, NEW from \in Nat, NEW n \in Nat,
         from <= inode.length, Begin(who, from, n)
  PROVE  Standing' /\ ReadingTypeOK' /\ Delivered' /\ offset' = from /\ length' = n
<1>0. /\ block_pad \in Nat \ {0} /\ MAX_BLOCKS \in Nat \ {0}
      /\ inode \in Inode /\ inode.length \in Nat
  BY ReadingBounds, InodeShape DEF ReadingInv, ReadingTypeOK
<1>1. /\ offset' = from /\ length' = n /\ buf' = << >> /\ caller' = who
      /\ data_block_index' = from \div block_pad /\ data_index' = from % block_pad
      /\ UNCHANGED <<inode, fpos, ret, got, image>>
  BY DEF Begin, StartIndex, ReadingInv
<1>2. Position' = from /\ Len(buf') = 0
  BY <1>1 DEF Position
<1>3. Standing'
  BY <1>0, <1>1, <1>2 DEF Standing
<1>4. from % block_pad \in 0..(block_pad - 1) /\ from \div block_pad \in 0..MAX_BLOCKS
  <2>1. from \div block_pad \in Nat /\ (from \div block_pad) * block_pad <= from
    BY <1>0, DivMod, DivBounds
  <2>2. PICK m \in Nat : m = MAX_BLOCKS * block_pad
    BY <1>0
  <2>3. (MAX_BLOCKS + 1) * block_pad = m + block_pad
    BY <1>0, <2>2
  <2>4. from < (MAX_BLOCKS + 1) * block_pad
    BY <1>0, <2>2, <2>3, InodeShape
  <2>5. from \div block_pad < MAX_BLOCKS + 1
    <3>1. MAX_BLOCKS + 1 \in Nat
      BY <1>0
    <3> QED
      BY <1>0, <2>4, <3>1, DivBounds
  <2>6. from % block_pad \in 0..(block_pad - 1)
    BY <1>0, DivMod
  <2> QED
    BY <1>0, <2>1, <2>5, <2>6
<1>5. ReadingTypeOK'
  BY <1>1, <1>4 DEF ReadingInv, ReadingTypeOK
<1>6. Delivered'
  BY <1>1 DEF ReadingInv, Delivered, ByteAt, FullFile, Contents
<1> QED
  BY <1>1, <1>3, <1>5, <1>6

\* The byte that is copied is the file's next one, and the loop then stands
\* behind it.
LEMMA CopyStands ==
  ASSUME ReadingInv, Copy
  PROVE  Standing' /\ ReadingTypeOK'
<1>0. /\ block_pad \in Nat \ {0} /\ MAX_BLOCKS \in Nat \ {0}
      /\ inode \in Inode /\ inode.length \in Nat /\ offset \in Nat
      /\ length \in Nat /\ buf \in Seq(DataByte) /\ Len(buf) \in Nat /\ Standing
  BY ReadingBounds, InodeShape, LenProperties DEF ReadingInv, ReadingTypeOK, Copy
<1>1. PICK p \in Nat : p = Position
  BY <1>0 DEF Position
<1>2. p < inode.length /\ Len(buf) < length
  BY <1>0, <1>1 DEF Copy, More, length_read, Position
<1>3. /\ data_block_index = p \div block_pad /\ data_index = p % block_pad
      /\ p \div block_pad \in 0..(MAX_BLOCKS - 1) /\ p % block_pad \in 0..(block_pad - 1)
      /\ ByteAt(p) \in DataByte
  BY <1>0, <1>1, <1>2, ByteAtType, DivMod DEF Standing
<1>4. buf' = Append(buf, ByteAt(p)) /\ UNCHANGED <<inode, fpos, caller, offset, length, ret, got, image>>
  BY <1>3 DEF Copy, ByteAt
<1>5. /\ buf' \in Seq(DataByte) /\ Len(buf') = Len(buf) + 1
      /\ \A k \in 1..Len(buf) : buf'[k] = buf[k]
      /\ buf'[Len(buf) + 1] = ByteAt(p)
  BY <1>0, <1>3, <1>4, AppendProperties
<1>6. Position' = p + 1
  BY <1>0, <1>1, <1>4, <1>5 DEF Position
<1>7. data_block_index' = (p + 1) \div block_pad /\ data_index' = (p + 1) % block_pad
  <2>1. CASE (p % block_pad) + 1 = block_pad
    BY <1>0, <1>3, <2>1, DivStep DEF Copy, LeavesBlock
  <2>2. CASE (p % block_pad) + 1 # block_pad
    BY <1>0, <1>3, <2>2, DivStep DEF Copy, LeavesBlock
  <2> QED
    BY <2>1, <2>2
<1>8. data_block_index' \in 0..MAX_BLOCKS /\ data_index' \in 0..(block_pad - 1)
  <2>1. CASE (p % block_pad) + 1 = block_pad
    BY <1>0, <1>3, <2>1 DEF Copy, LeavesBlock
  <2>2. CASE (p % block_pad) + 1 # block_pad
    BY <1>0, <1>3, <2>2 DEF Copy, LeavesBlock
  <2> QED
    BY <2>1, <2>2
<1>9. ASSUME NEW k \in 1..Len(buf')
      PROVE  buf'[k] = ByteAt(offset + k - 1)
  <2>1. CASE k \in 1..Len(buf)
    BY <1>0, <1>5, <2>1 DEF Standing
  <2>2. CASE k = Len(buf) + 1
    <3>1. offset + k - 1 = p
      BY <1>0, <1>1, <2>2 DEF Position
    <3> QED
      BY <1>5, <2>2, <3>1
  <2> QED
    BY <1>0, <1>5, <2>1, <2>2
<1>10. \A k : ByteAt(k)' = ByteAt(k)
  BY <1>4 DEF ByteAt
<1>11. Standing'
  BY <1>0, <1>2, <1>4, <1>5, <1>6, <1>7, <1>9, <1>10 DEF Standing
<1>12. ReadingTypeOK'
  BY <1>4, <1>5, <1>8 DEF ReadingInv, ReadingTypeOK
<1> QED
  BY <1>11, <1>12

\* A loop that ends with an error has copied a full file to its end.
LEMMA FailedAtEnd ==
  ASSUME ReadingInv, caller # "none", Failed
  PROVE  FullFile /\ Position = inode.length
<1>0. /\ num_data \in Nat \ {0} /\ inode \in Inode /\ inode.length \in Nat
      /\ offset \in Nat /\ buf \in Seq(DataByte) /\ Standing
  BY ReadingBounds, InodeShape DEF ReadingInv, ReadingTypeOK
<1>1. PICK p \in Nat : p = Position
  BY <1>0, LenProperties DEF Position
<1>2. inode.block_num[p \div block_pad] >= num_data
  BY <1>0, <1>1 DEF Failed, BadBlock, Standing
<1>3. inode.block_num[p \div block_pad] \notin DataBlock
  BY <1>0, <1>2 DEF DataBlock
<1>4. p <= inode.length
  BY <1>0, <1>1 DEF Standing
<1> QED
  BY <1>0, <1>1, <1>3, <1>4, BlockValid

\* One that ends without has what was asked for, or all there is.
LEMMA EndedAtEnd ==
  ASSUME ReadingInv, caller # "none", Ended
  PROVE  Len(buf) = length \/ Position = inode.length
<1>0. /\ block_pad \in Nat \ {0} /\ MAX_BLOCKS \in Nat \ {0}
      /\ inode \in Inode /\ inode.length \in Nat /\ offset \in Nat /\ length \in Nat
      /\ buf \in Seq(DataByte) /\ Len(buf) \in Nat /\ Standing
  BY ReadingBounds, InodeShape, LenProperties DEF ReadingInv, ReadingTypeOK
<1>1. PICK p \in Nat : p = Position
  BY <1>0 DEF Position
<1>2. p <= inode.length /\ Len(buf) <= length /\ data_block_index = p \div block_pad
  BY <1>0, <1>1 DEF Standing
<1>3. CASE Failed
  BY <1>3, FailedAtEnd
<1>4. CASE Len(buf) >= length \/ p >= inode.length
  BY <1>0, <1>1, <1>2, <1>4
<1>5. CASE ~(data_block_index < MAX_BLOCKS)
  <2>1. p \div block_pad >= MAX_BLOCKS
    BY <1>0, <1>2, <1>5, DivMod
  <2>2. ~(p < MAX_BLOCKS * block_pad)
    <3>1. p < MAX_BLOCKS * block_pad => p \div block_pad < MAX_BLOCKS
      BY <1>0, DivBounds
    <3>2. p \div block_pad \in Nat
      BY <1>0, DivMod
    <3> QED
      BY <1>0, <2>1, <3>1, <3>2
  <2>3. PICK m \in Nat : m = MAX_BLOCKS * block_pad
    BY <1>0
  <2> QED
    BY <1>0, <1>1, <1>2, <2>2, <2>3, InodeShape
<1> QED
  BY <1>0, <1>1, <1>3, <1>4, <1>5 DEF Ended, More, length_read, Position
-----------------------------------------------------------------------------
(* The invariant is kept *)

\* What a read has put behind the bytes delivered so far goes on with the file.
LEMMA ReadDelivers ==
  ASSUME ReadingInv, caller = "file_read", Ended
  PROVE  /\ got \o buf \in Seq(DataByte)
         /\ Len(got \o buf) = Position /\ Position <= inode.length
         /\ \A k \in 1..Len(got \o buf) : (got \o buf)[k] = ByteAt(k - 1)
         /\ Len(buf) = 0 => Position = inode.length
<1>0. /\ inode \in Inode /\ inode.length \in Nat /\ offset \in Nat /\ length \in Nat \ {0}
      /\ buf \in Seq(DataByte) /\ Len(buf) \in Nat /\ Standing
      /\ got \in Seq(DataByte) /\ Len(got) \in Nat /\ offset = Len(got)
  BY ReadingBounds, InodeShape, LenProperties DEF ReadingInv, ReadingTypeOK, Delivered
<1>1. /\ got \o buf \in Seq(DataByte) /\ Len(got \o buf) = Len(got) + Len(buf)
      /\ \A k \in 1..Len(got) + Len(buf) :
            (got \o buf)[k] = IF k <= Len(got) THEN got[k] ELSE buf[k - Len(got)]
  BY <1>0, ConcatProperties
<1>2. Position = Len(got) + Len(buf) /\ Position <= inode.length
  BY <1>0 DEF Position, Standing
<1>3. ASSUME NEW k \in 1..Len(got) + Len(buf)
      PROVE  (got \o buf)[k] = ByteAt(k - 1)
  <2>1. CASE k <= Len(got)
    BY <1>0, <1>1, <2>1 DEF ReadingInv, Delivered
  <2>2. CASE ~(k <= Len(got))
    <3>1. PICK j \in 1..Len(buf) : j = k - Len(got)
      <4>1. k - Len(got) \in 1..Len(buf)
        BY <1>0, <2>2
      <4> QED
        BY <4>1
    <3>2. buf[j] = ByteAt(offset + j - 1)
      BY <1>0 DEF Standing
    <3>3. offset + j - 1 = k - 1
      BY <1>0, <3>1
    <3> QED
      BY <1>1, <2>2, <3>1, <3>2, <3>3
  <2> QED
    BY <2>1, <2>2
<1>4. Len(buf) = 0 => Position = inode.length
  <2>1. Len(buf) = length \/ Position = inode.length
    BY EndedAtEnd
  <2> QED
    BY <1>0, <2>1
<1> QED
  BY <1>1, <1>2, <1>3, <1>4

\* What execute has loaded is the file.
LEMMA LoadDelivers ==
  ASSUME ReadingInv, caller = "execute", Ended
  PROVE  buf = Contents
<1>0. /\ inode \in Inode /\ inode.length \in Nat /\ buf \in Seq(DataByte)
      /\ Len(buf) \in Nat /\ Standing /\ offset = 0 /\ length = inode.length
  BY InodeShape, LenProperties DEF ReadingInv, ReadingTypeOK
<1>1. Len(buf) = length \/ Position = inode.length
  BY EndedAtEnd
<1>2. Len(buf) = inode.length
  BY <1>0, <1>1 DEF Position
<1>3. \A k \in 1..Len(buf) : buf[k] = ByteAt(k - 1)
  <2> SUFFICES ASSUME NEW k \in 1..Len(buf)
               PROVE  buf[k] = ByteAt(k - 1)
    OBVIOUS
  <2>1. buf[k] = ByteAt(offset + k - 1)
    BY <1>0 DEF Standing
  <2>2. offset + k - 1 = k - 1
    BY <1>0
  <2> QED
    BY <2>1, <2>2
<1> QED
  BY <1>0, <1>2, <1>3, IsContents

\* fpos stays below 2^32, and is the offset behind the bytes read if the read
\* did not fail.
LEMMA MovedType ==
  ASSUME ReadingInv, caller = "file_read", Ended
  PROVE  Moved(Result) \in 0..(WORD - 1) /\ (~Failed => Moved(Result) = Position)
<1>0. /\ inode \in Inode /\ inode.length \in Nat /\ offset \in Nat /\ fpos \in Nat
      /\ buf \in Seq(DataByte) /\ Len(buf) \in Nat /\ Standing /\ offset = fpos
  BY ReadingBounds, InodeShape, LenProperties DEF ReadingInv, ReadingTypeOK
<1>1. PICK m \in Nat : m = MAX_BLOCKS * block_pad
  BY ReadingBounds
<1>2. WORD \in Nat /\ WORD > m
  BY <1>1, ReadingBounds
<1>3. PICK p \in Nat : p = Position
  BY <1>0 DEF Position
<1>4. p <= m
  BY <1>0, <1>1, <1>3, InodeShape DEF Standing
<1>5. CASE Failed
  <2>1. Moved(Result) = (fpos - 1) % WORD
    BY <1>0, <1>5 DEF Moved, Result
  <2> QED
    BY <1>0, <1>2, <1>5, <2>1
<1>6. CASE ~Failed
  <2>1. Moved(Result) = p % WORD
    BY <1>0, <1>3, <1>6 DEF Moved, Result, length_read, Position
  <2>2. p = 0 * WORD + p /\ p \in 0..(WORD - 1) /\ WORD \in Nat \ {0}
    BY <1>1, <1>2, <1>4
  <2>3. p % WORD = p
    BY <2>2, DivUnique
  <2> QED
    BY <1>3, <2>1, <2>2, <2>3
<1> QED
  BY <1>5, <1>6

LEMMA ReadingInvStep == ReadingInv /\ [ReadingNext]_readingVars => ReadingInv'
<1> SUFFICES ASSUME ReadingInv, [ReadingNext]_readingVars
             PROVE  ReadingInv'
  OBVIOUS
<1>0. /\ inode \in Inode /\ inode.length \in Nat /\ fpos \in Nat /\ got \in Seq(DataByte)
      /\ block_pad \in Nat \ {0} /\ ret \in Int /\ READ_SIZES \subseteq Nat \ {0}
      /\ Len(got) \in Nat
  BY ReadingBounds, InodeShape, LenProperties DEF ReadingInv, ReadingTypeOK
<1>1. ASSUME NEW n \in READ_SIZES, FileRead(n)
      PROVE  ReadingInv'
  <2>1. fpos <= inode.length /\ n \in Nat
    BY <1>0, <1>1 DEF FileRead, ReadingInv, Delivered
  <2>2. Begin("file_read", fpos, n) /\ ret > 0
    BY <1>1 DEF FileRead
  <2>3. Standing' /\ ReadingTypeOK' /\ Delivered' /\ offset' = fpos /\ length' = n
    BY <1>0, <2>1, <2>2, BeginStands
  <2>4. caller' = "file_read" /\ UNCHANGED <<fpos, ret>>
    BY <2>2 DEF Begin
  <2> QED
    BY <2>2, <2>3, <2>4 DEF ReadingInv
<1>2. CASE LoadImage
  <2>1. Begin("execute", 0, inode.length)
    BY <1>2 DEF LoadImage
  <2>2. Standing' /\ ReadingTypeOK' /\ Delivered' /\ offset' = 0 /\ length' = inode.length
    BY <1>0, <2>1, BeginStands
  <2>3. caller' = "execute" /\ UNCHANGED inode
    BY <2>1 DEF Begin
  <2> QED
    BY <2>2, <2>3 DEF ReadingInv
<1>3. CASE Copy
  <2>1. Standing' /\ ReadingTypeOK'
    BY <1>3, CopyStands
  <2>2. UNCHANGED <<inode, fpos, caller, offset, length, ret, got, image>> /\ caller # "none"
    BY <1>3 DEF Copy
  <2>3. Delivered'
    BY <2>2 DEF ReadingInv, Delivered, ByteAt, FullFile, Contents
  <2> QED
    BY <2>1, <2>2, <2>3 DEF ReadingInv
<1>4. CASE ReadEnds
  <2>1. /\ caller = "file_read" /\ Ended /\ ret' = Result /\ fpos' = Moved(Result)
        /\ got' = IF Result > 0 THEN got \o buf ELSE got
        /\ caller' = "none" /\ offset' = 0 /\ length' = 0 /\ buf' = << >>
        /\ data_block_index' = 0 /\ data_index' = 0 /\ UNCHANGED <<inode, image>>
    BY <1>4 DEF ReadEnds, LeaveLoop
  <2>2. buf \in Seq(DataByte) /\ Len(buf) \in Nat /\ ret > 0 /\ fpos = Len(got)
    BY <1>0, <2>1, LenProperties DEF ReadingInv, ReadingTypeOK, Delivered
  <2>3. /\ got \o buf \in Seq(DataByte)
        /\ Len(got \o buf) = Position /\ Position <= inode.length
        /\ \A k \in 1..Len(got \o buf) : (got \o buf)[k] = ByteAt(k - 1)
        /\ Len(buf) = 0 => Position = inode.length
    BY <2>1, ReadDelivers
  <2>4. fpos' \in 0..(WORD - 1) /\ (~Failed => fpos' = Position)
    BY <2>1, MovedType
  <2>5. ReadingTypeOK'
    BY <1>0, <2>1, <2>2, <2>3, <2>4, ReadingBounds
       DEF ReadingInv, ReadingTypeOK, Result, length_read
  <2>6. \A k : ByteAt(k)' = ByteAt(k)
    BY <2>1 DEF ByteAt
  <2>7. image' \in {<< >>, Contents'}
    BY <2>1 DEF ReadingInv, Delivered, Contents
  <2>8. CASE Failed
    <3>1. ret' = -1 /\ got' = got /\ FullFile'
      BY <2>1, <2>8, FailedAtEnd DEF Result, FullFile
    <3> QED
      BY <2>1, <2>5, <2>6, <2>7, <3>1 DEF ReadingInv, Delivered
  <2>9. CASE ~Failed
    <3>1. ret' = Len(buf) /\ fpos' = Position
      BY <2>1, <2>4, <2>9 DEF Result, length_read
    <3>2. CASE Len(buf) = 0
      <4>1. got' = got /\ Position = Len(got) /\ Position = inode.length
        BY <1>0, <2>1, <2>2, <2>3, <2>9, <3>2 DEF Position, Result, length_read, ReadingInv
      <4>2. \A k \in 1..Len(got') : got'[k] = ByteAt(k - 1)'
        BY <2>6, <4>1 DEF ReadingInv, Delivered
      <4>3. ret' = 0 /\ fpos' = Len(got') /\ fpos' = inode'.length
        BY <2>1, <3>1, <3>2, <4>1
      <4>4. Delivered'
        BY <1>0, <2>1, <2>7, <4>1, <4>2, <4>3 DEF Delivered
      <4> QED
        BY <2>1, <2>5, <4>4 DEF ReadingInv
    <3>3. CASE Len(buf) > 0
      <4>1. got' = got \o buf
        BY <2>1, <2>9, <3>3 DEF Result, length_read
      <4>2. Delivered'
        BY <2>1, <2>2, <2>3, <2>6, <2>7, <3>1, <3>3, <4>1 DEF Delivered
      <4> QED
        BY <2>1, <2>5, <4>2 DEF ReadingInv
    <3> QED
      BY <2>2, <3>2, <3>3
  <2> QED
    BY <2>8, <2>9
<1>5. CASE LoadEnds
  <2>1. /\ caller = "execute" /\ Ended /\ image' = buf
        /\ caller' = "none" /\ offset' = 0 /\ length' = 0 /\ buf' = << >>
        /\ data_block_index' = 0 /\ data_index' = 0
        /\ UNCHANGED <<inode, fpos, ret, got>>
    BY <1>5 DEF LoadEnds, LeaveLoop
  <2>2. buf = Contents
    BY <2>1, LoadDelivers
  <2>3. Contents' = Contents /\ \A k : ByteAt(k)' = ByteAt(k)
    BY <2>1 DEF Contents, ByteAt
  <2>4. Delivered'
    BY <2>1, <2>2, <2>3 DEF ReadingInv, Delivered, FullFile
  <2>5. ReadingTypeOK'
    BY <1>0, <2>1, ReadingBounds DEF ReadingInv, ReadingTypeOK
  <2> QED
    BY <2>1, <2>4, <2>5 DEF ReadingInv
<1>6. CASE UNCHANGED readingVars
  BY <1>6 DEF readingVars, copyVars, ReadingInv, ReadingTypeOK, Delivered, Standing, Position,
              ByteAt, FullFile, Contents
<1> QED
  BY <1>1, <1>2, <1>3, <1>4, <1>5, <1>6 DEF ReadingNext
\* The loops stand where they should in every state.
LEMMA ReadingInvariant == ReadingSpec => []ReadingInv
BY ReadingInvInit, ReadingInvStep, PTL DEF ReadingSpec

-----------------------------------------------------------------------------
(* Theorems about reading *)

\* The copy loops of read_data_by_ptr and read_data stay in the file's blocks
\* and in 32 bits, a read gives 0 only when every byte has been delivered, and
\* the only file that ends with an error is the one that fills all block_num.
THEOREM OnlyFullFileRefused ==
  ReadingSpec =>
    [](/\ ReadingTypeOK
       /\ ret = 0 => got = Contents
       /\ ret < 0 => inode.length = MAX_BLOCKS * block_pad)
<1>1. ReadingInv => /\ ReadingTypeOK
                    /\ ret = 0 => got = Contents
                    /\ ret < 0 => inode.length = MAX_BLOCKS * block_pad
  <2> SUFFICES ASSUME ReadingInv
               PROVE  /\ ReadingTypeOK
                      /\ ret = 0 => got = Contents
                      /\ ret < 0 => FullFile
    BY DEF FullFile
  <2>1. inode \in Inode /\ got \in Seq(DataByte)
    BY DEF ReadingInv, ReadingTypeOK
  <2>2. ASSUME ret = 0
        PROVE  got = Contents
    <3>1. Len(got) = inode.length /\ \A k \in 1..Len(got) : got[k] = ByteAt(k - 1)
      BY <2>2 DEF ReadingInv, Delivered
    <3> QED
      BY <2>1, <3>1, IsContents
  <2> QED
    BY <2>2 DEF ReadingInv, Delivered
<1> QED
  BY <1>1, ReadingInvariant, PTL

\* A reader of any file that leaves an entry of block_num unused, with any mix
\* of lengths, has read the whole file when file_read gives it no more bytes.
THEOREM ReadsToTheEnd ==
  ASSUME MAX_BLOCKS * block_pad \notin Length
  PROVE  ReadingSpec => []EndsOnlyAtEnd
<1>1. /\ ReadingTypeOK
      /\ ret = 0 => got = Contents
      /\ ret < 0 => inode.length = MAX_BLOCKS * block_pad
      => EndsOnlyAtEnd
  <2> SUFFICES ASSUME ReadingTypeOK, ret = 0 => got = Contents,
                      ret < 0 => inode.length = MAX_BLOCKS * block_pad
               PROVE  EndsOnlyAtEnd
    OBVIOUS
  <2>1. inode.length \in Length
    BY InodeShape DEF ReadingTypeOK
  <2>2. ~(ret < 0)
    BY <2>1
  <2>3. ret <= 0 => ret = 0
    BY <2>2 DEF ReadingTypeOK
  <2> QED
    BY <2>3 DEF EndsOnlyAtEnd
<1> QED
  BY <1>1, OnlyFullFileRefused, PTL

\* The end of a read delivers the next bytes of the file, as many as were asked
\* for while that many are left.
LEMMA ReadEndsIsRead ==
  ASSUME ReadingInv, ReadingInv', ReadEnds
  PROVE  \/ UNCHANGED <<Contents, got, image>>
         \/ \E n \in READ_SIZES : Stream!Read(n)
<1>a. /\ caller = "file_read" /\ Ended
      /\ inode \in Inode /\ length \in Nat /\ length \in READ_SIZES
      /\ got \in Seq(DataByte) /\ buf \in Seq(DataByte)
      /\ Standing /\ offset = fpos /\ ret > 0 /\ ret \in Int /\ Delivered
  BY DEF ReadEnds, ReadingInv, ReadingTypeOK
<1>b. Len(got) \in Nat /\ Len(buf) \in Nat /\ inode.length \in Nat
  BY <1>a, InodeShape, LenProperties
<1>c. /\ Len(buf) <= length /\ Position <= inode.length
      /\ Position = Len(got) + Len(buf)
  <2>1. ret >= 0 => fpos = Len(got)
    BY <1>a DEF Delivered
  <2>2. offset = Len(got)
    BY <1>a, <2>1
  <2>3. Position = Len(got) + Len(buf)
    BY <2>2 DEF Position
  <2> QED
    BY <1>a, <2>3 DEF Standing
<1>1. UNCHANGED <<inode, image>> /\ Contents' = Contents
  BY DEF ReadEnds, Contents
<1>2. CASE Result <= 0
  <2>1. Result \in Int
    BY <1>b DEF Result, length_read
  <2>2. got' = got
    BY <1>2, <2>1 DEF ReadEnds
  <2> QED
    BY <1>1, <2>2
<1>3. CASE ~(Result <= 0)
  <2>1. Result = Len(buf) /\ got' = got \o buf
    BY <1>a, <1>b, <1>3 DEF ReadEnds, Result, length_read
  <2>2. Len(got') = Len(got) + Len(buf)
    BY <1>a, <2>1, ConcatProperties
  <2>3. Len(buf) = length \/ Position = inode.length
    BY <1>a, EndedAtEnd
  <2>4. Stream!Left = inode.length - Len(got)
    BY <1>a, ContentsType DEF Stream!Left
  <2>5. Len(got') = Len(got) + (IF length < Stream!Left THEN length ELSE Stream!Left)
    BY <1>a, <1>b, <1>c, <2>2, <2>3, <2>4
  <2>6. got' = SubSeq(Contents', 1, Len(got'))
    <3>1. /\ inode' \in Inode /\ got' \in Seq(DataByte) /\ Len(got') <= inode'.length
          /\ \A k \in 1..Len(got') : got'[k] = ByteAt(k - 1)'
      BY DEF ReadingInv, ReadingTypeOK, Delivered
    <3>2. \A k : ByteAt(k)' = ByteAt(k)
      BY <1>1 DEF ByteAt
    <3>3. \A k \in 1..Len(got') : got'[k] = ByteAt(k - 1)
      BY <3>1, <3>2
    <3>4. got' = SubSeq(Contents, 1, Len(got'))
      BY <1>1, <3>1, <3>3, IsPrefix
    <3> QED
      BY <1>1, <3>4
  <2>7. Stream!Read(length)
    BY <1>1, <2>5, <2>6 DEF Stream!Read
  <2> QED
    BY <1>a, <2>7
<1> QED
  BY <1>2, <1>3

\* FileReading implements FileStream: the end of a file_read is a read of the
\* stream, the end of the loop in execute loads the whole of it, and no other
\* step of a loop shows.
THEOREM ReadingIsStream == ReadingSpec => ImplementsStream
<1>1. ReadingInit => Stream!Init
  BY ContentsType DEF ReadingInit, Stream!Init
<1>2. ReadingInv /\ ReadingInv' /\ [ReadingNext]_readingVars
      => [Stream!Next]_<<Contents, got, image>>
  <2> SUFFICES ASSUME ReadingInv, ReadingInv', [ReadingNext]_readingVars
               PROVE  Stream!Next \/ UNCHANGED <<Contents, got, image>>
    OBVIOUS
  <2>1. CASE ReadEnds
    BY <2>1, ReadEndsIsRead DEF Stream!Next
  <2>2. CASE LoadEnds
    <3>1. buf = Contents
      BY <2>2, LoadDelivers DEF LoadEnds
    <3>2. Stream!Load
      BY <2>2, <3>1 DEF LoadEnds, Stream!Load, Contents
    <3> QED
      BY <3>2 DEF Stream!Next
  <2>3. CASE (\E n \in READ_SIZES : FileRead(n)) \/ LoadImage \/ Copy \/ UNCHANGED readingVars
    BY <2>3 DEF FileRead, LoadImage, Begin, Copy, readingVars, Contents
  <2> QED
    BY <2>1, <2>2, <2>3 DEF ReadingNext
<1> QED
  BY <1>1, <1>2, ReadingInvariant, PTL DEF ReadingSpec, ImplementsStream, Stream!Spec
-----------------------------------------------------------------------------
(* Texts in memory *)

\* A set of naturals with an element has a least one: the first space of a
\* command, the NUL that ends a text, the first entry of a name.
LEMMA MinIn ==
  ASSUME NEW S \in SUBSET Nat, S # {}
  PROVE  Min(S) \in S /\ \A y \in S : Min(S) <= y
<1>1. PICK x \in S : \A y \in S : ~ (<<y, x>> \in OpToRel(<,Nat))
  BY NatLessThanWellFounded, WFMin, Zenon
<1>2. \A y \in S : x <= y
  <2> TAKE y \in S
  <2>1. ~(<<y, x>> \in OpToRel(<,Nat))
    BY <1>1, Zenon
  <2>2. <<y, x>> \in Nat \X Nat
    OBVIOUS
  <2>3. ~(y < x)
    BY <2>1, <2>2 DEF OpToRel
  <2> QED
    BY <2>3
<1> QED
  BY <1>2 DEF Min

LEMMA MinIs ==
  ASSUME NEW S \in SUBSET Nat, NEW m \in S, \A y \in S : m <= y
  PROVE  Min(S) = m
<1>1. PICK x \in S : x = Min(S) /\ x <= m
  BY MinIn
<1>2. x \in Nat /\ m \in Nat /\ m <= x
  OBVIOUS
<1> QED
  BY <1>1, <1>2

\* Letters are no spaces and no NULs.
LEMMA Letters ==
  /\ SP \notin Letter /\ NUL \notin Letter /\ SP # NUL /\ FOREIGN \notin Byte
  /\ NUL \notin Letter \cup {SP} /\ NUL \in Byte /\ SP \in Byte /\ Letter \subseteq Byte
BY CommandBounds DEF SP, NUL, FOREIGN, Byte

\* A word lies at the start of a buffer.
Holds(mem, word) ==
    /\ \A k \in 1..Len(word) : mem[k - 1] = word[k]
    /\ mem[Len(word)] = NUL

\* strncmp of 32 bytes tells a name from every other word.
LEMMA SameNameIs ==
  ASSUME NEW S, NUL \notin S, NEW name \in Seq(S), Len(name) < FNAME,
         NEW word \in Seq(S), NEW mem, Holds(mem, word)
  PROVE  SameName(Memory(name, FNAME), mem) <=> name = word
<1>0. FNAME \in Nat /\ Len(name) \in Nat /\ Len(word) \in Nat
  BY CommandBounds, LenProperties
<1> DEFINE m == Memory(name, FNAME)
<1>1. \A k \in 1..Len(name) : m[k - 1] = name[k]
  BY <1>0 DEF Memory
<1>2. \A k \in 0..(FNAME - 1) : k >= Len(name) => m[k] = NUL
  BY <1>0 DEF Memory
<1>3. /\ \A k \in 1..Len(name) : name[k] # NUL
      /\ \A k \in 1..Len(word) : word[k] # NUL
  BY ElementOfSeq
<1> HIDE DEF m
<1>4. ASSUME name = word
      PROVE  SameName(m, mem)
  <2> SUFFICES ASSUME NEW k \in 0..(FNAME - 1), \A j \in 0..(k - 1) : m[j] # NUL
               PROVE  m[k] = mem[k]
    BY DEF SameName
  <2>1. k <= Len(name)
    <3> SUFFICES ASSUME k > Len(name)
                 PROVE  FALSE
      BY <1>0
    <3>1. Len(name) \in 0..(k - 1) /\ m[Len(name)] = NUL
      BY <1>0, <1>2
    <3> QED
      BY <3>1
  <2>2. CASE k = Len(name)
    BY <1>0, <1>2, <1>4, <2>2 DEF Holds
  <2>3. CASE k < Len(name)
    <3>1. k + 1 \in 1..Len(name) /\ k + 1 - 1 = k
      BY <1>0, <2>3
    <3>2. m[k + 1 - 1] = name[k + 1] /\ mem[k + 1 - 1] = word[k + 1]
      BY <1>1, <1>4, <3>1 DEF Holds
    <3> QED
      BY <1>4, <3>1, <3>2
  <2> QED
    BY <1>0, <2>1, <2>2, <2>3
<1>5. ASSUME SameName(m, mem)
      PROVE  name = word
  <2>1. ASSUME NEW k \in 0..Len(name)
        PROVE  m[k] = mem[k]
    <3>1. k \in 0..(FNAME - 1)
      BY <1>0
    <3>2. ASSUME NEW j \in 0..(k - 1)
          PROVE  m[j] # NUL
      <4>1. j + 1 \in 1..Len(name) /\ j + 1 - 1 = j
        BY <1>0
      <4> QED
        BY <1>1, <1>3, <4>1
    <3> QED
      BY <1>5, <3>1, <3>2 DEF SameName
  <2>2. \A k \in 1..Len(name) : mem[k - 1] = name[k]
    <3> TAKE k \in 1..Len(name)
    <3>1. k - 1 \in 0..Len(name)
      BY <1>0
    <3> QED
      BY <1>1, <2>1, <3>1
  <2>3. mem[Len(name)] = NUL
    BY <1>0, <1>2, <2>1
  <2>4. ~(Len(word) < Len(name))
    <3> SUFFICES ASSUME Len(word) < Len(name)
                 PROVE  FALSE
      OBVIOUS
    <3>1. Len(word) + 1 \in 1..Len(name) /\ Len(word) + 1 - 1 = Len(word)
      BY <1>0
    <3>2. mem[Len(word)] = name[Len(word) + 1]
      BY <2>2, <3>1
    <3> QED
      BY <1>3, <3>1, <3>2 DEF Holds
  <2>5. ~(Len(name) < Len(word))
    <3> SUFFICES ASSUME Len(name) < Len(word)
                 PROVE  FALSE
      OBVIOUS
    <3>1. Len(name) + 1 \in 1..Len(word) /\ Len(name) + 1 - 1 = Len(name)
      BY <1>0
    <3>2. mem[Len(name)] = word[Len(name) + 1]
      BY <3>1 DEF Holds
    <3> QED
      BY <1>3, <2>3, <3>1, <3>2
  <2>6. Len(name) = Len(word)
    BY <1>0, <2>4, <2>5
  <2>7. \A k \in 1..Len(name) : name[k] = word[k]
    BY <2>2, <2>6 DEF Holds
  <2> QED
    BY <2>6, <2>7, SeqEqual
<1> QED
  BY <1>4, <1>5 DEF m

\* The look-up finds an entry of that name, if there is one.
LEMMA LookupIs ==
  ASSUME NEW word \in Seq(Letter), NEW mem, Holds(mem, word)
  PROVE  Lookup(mem) \in IF NamedBy(word) = {} THEN {-1} ELSE NamedBy(word)
<1> DEFINE same == {n \in DOMAIN Dir : SameName(Memory(Dir[n].name, FNAME), mem)}
<1>1. same = NamedBy(word)
  <2>1. \A n \in DOMAIN Dir : Dir[n].name \in Seq(Letter) /\ Len(Dir[n].name) < FNAME
    BY CommandBounds DEF Names
  <2>2. \A n \in DOMAIN Dir : SameName(Memory(Dir[n].name, FNAME), mem) <=> Dir[n].name = word
    BY <2>1, Letters, SameNameIs
  <2> QED
    BY <2>2 DEF NamedBy
<1>2. same \in SUBSET Nat
  BY CommandBounds
<1>3. Lookup(mem) = IF same = {} THEN -1 ELSE Min(same)
  BY DEF Lookup
<1> HIDE DEF same
<1>4. same # {} => Min(same) \in same
  BY <1>2, MinIn
<1> QED
  BY <1>1, <1>3, <1>4
\* The sizes of the buffers.
LEMMA Sizes ==
  /\ BUF \in Nat /\ FNAME \in Nat /\ DENTRY \in Nat
  /\ 2 <= FNAME /\ FNAME <= BUF /\ 1 <= DENTRY /\ DENTRY <= BUF
BY CommandBounds

\* A byte of the stack.
Cell == Byte \cup {FOREIGN}
Line == Seq(Letter \cup {SP})

\* The copy of a text ends at its first NUL.
LEMMA TextType ==
  ASSUME NEW last \in Nat, NEW mem \in [0..last -> Cell], NEW n \in 0..last, mem[n] = NUL
  PROVE  Text(mem) \in Seq(Cell) /\ Len(Text(mem)) <= n
<1> DEFINE nuls == {k \in DOMAIN mem : mem[k] = NUL}
<1>1. nuls \in SUBSET Nat /\ n \in nuls
  OBVIOUS
<1>2. PICK m \in Nat : m = Min(nuls) /\ m <= n
  BY <1>1, MinIn
<1>3. Text(mem) = [k \in 1..m |-> mem[k - 1]]
  BY <1>2 DEF Text
<1>4. \A k \in 1..m : mem[k - 1] \in Cell
  BY <1>2
<1>5. Text(mem) \in [1..m -> Cell]
  BY <1>3, <1>4
<1>6. Text(mem) \in Seq(Cell)
  BY <1>5, SeqDef
<1>7. Len(Text(mem)) = m
  BY <1>3, <1>6, LenProperties
<1> QED
  BY <1>2, <1>6, <1>7

LEMMA TextIs ==
  ASSUME NEW last \in Nat, NEW mem \in [0..last -> Cell], NEW text \in Line,
         Len(text) <= last, Holds(mem, text)
  PROVE  Text(mem) = text
<1> DEFINE nuls == {k \in DOMAIN mem : mem[k] = NUL}
<1>1. PICK n \in Nat : n = Len(text)
  BY LenProperties DEF Line
<1>2. nuls \in SUBSET Nat /\ n \in nuls
  BY <1>1 DEF Holds
<1>3. ASSUME NEW k \in nuls, k < n
      PROVE  FALSE
  <2>1. k \in Nat /\ k + 1 \in 1..n /\ k + 1 - 1 = k
    BY <1>1, <1>3
  <2>2. mem[k + 1 - 1] = text[k + 1]
    BY <1>1, <2>1 DEF Holds
  <2>3. text[k + 1] \in Letter \cup {SP}
    BY <1>1, <2>1, ElementOfSeq DEF Line
  <2> QED
    BY <1>3, <2>1, <2>2, <2>3, Letters
<1>4. \A k \in nuls : n <= k
  BY <1>1, <1>2, <1>3
<1> HIDE DEF nuls
<1>5. Min(nuls) = n
  BY <1>2, <1>4, MinIs
<1>6. Text(mem) = [k \in 1..n |-> mem[k - 1]]
  BY <1>5 DEF Text, nuls
<1>7. text = [k \in 1..n |-> text[k]]
  BY <1>1, SeqDef, LenProperties DEF Line
<1>8. \A k \in 1..n : mem[k - 1] = text[k]
  BY <1>1 DEF Holds
<1> QED
  BY <1>6, <1>7, <1>8

-----------------------------------------------------------------------------
(* The two parts of a command *)

\* Where the first space is, or that there is none, says what the parts are.
LEMMA Parts ==
  ASSUME NEW text \in Line, NEW n \in 0..Len(text), \A k \in 1..n : text[k] # SP
  PROVE  /\ FirstWord(text) \in Seq(Letter) /\ Len(FirstWord(text)) \in n..Len(text)
         /\ \A k \in 1..Len(FirstWord(text)) : FirstWord(text)[k] = text[k]
         /\ n < Len(text) /\ text[n + 1] = SP =>
              /\ Spaces(text) # {} /\ Len(FirstWord(text)) = n
              /\ Rest(text) \in Line /\ Len(Rest(text)) = Len(text) - (n + 1)
              /\ \A k \in 1..Len(Rest(text)) : Rest(text)[k] = text[n + 1 + k]
         /\ n = Len(text) => Spaces(text) = {} /\ FirstWord(text) = text
<1>0. /\ text \in Seq(Letter \cup {SP}) /\ Len(text) \in Nat /\ DOMAIN text = 1..Len(text)
      /\ \A k \in 1..Len(text) : text[k] \in Letter \cup {SP}
  BY ElementOfSeq, LenProperties DEF Line
<1>1. CASE Spaces(text) = {}
  <2>1. \A k \in 1..Len(text) : text[k] # SP /\ text[k] \in Letter
    BY <1>0, <1>1 DEF Spaces
  <2>2. text \in Seq(Letter)
    <3>1. text \in [1..Len(text) -> Letter]
      BY <1>0, <2>1, LenProperties
    <3> QED
      BY <1>0, <3>1, SeqDef
  <2>3. FirstWord(text) = text
    BY <1>1 DEF FirstWord
  <2>4. ~(n < Len(text) /\ text[n + 1] = SP)
    BY <1>0, <2>1
  <2> QED
    BY <1>0, <1>1, <2>2, <2>3, <2>4
<1>2. CASE Spaces(text) # {}
  <2>1. Spaces(text) \in SUBSET Nat /\ Spaces(text) \subseteq 1..Len(text)
    BY <1>0 DEF Spaces
  <2>2. PICK a \in 1..Len(text) :
          /\ a = Min(Spaces(text)) /\ text[a] = SP
          /\ \A k \in 1..(a - 1) : text[k] # SP
    <3>1. Min(Spaces(text)) \in Spaces(text) /\ \A y \in Spaces(text) : Min(Spaces(text)) <= y
      BY <1>2, <2>1, MinIn
    <3>2. PICK a \in 1..Len(text) : a = Min(Spaces(text)) /\ text[a] = SP
      BY <2>1, <3>1 DEF Spaces
    <3>3. ASSUME NEW k \in 1..(a - 1) PROVE text[k] # SP
      <4>1. k \in 1..Len(text) /\ ~(a <= k)
        BY <1>0, <3>2
      <4>2. k \notin Spaces(text)
        BY <3>1, <3>2, <4>1
      <4> QED
        BY <1>0, <4>1, <4>2 DEF Spaces
    <3> QED
      BY <3>2, <3>3
  <2>3. PICK w \in 0..Len(text) : w = a - 1
    BY <1>0, <2>2
  <2>4. FirstWord(text) = SubSeq(text, 1, w)
    BY <1>2, <2>2, <2>3 DEF FirstWord
  <2>5. \A k \in 1..w : text[k] \in Letter
    BY <1>0, <2>2, <2>3
  <2>6. /\ SubSeq(text, 1, w) \in Seq(Letter) /\ Len(SubSeq(text, 1, w)) = w
        /\ \A k \in 1..w : SubSeq(text, 1, w)[k] = text[k]
    <3>1. w - 1 + 1 = w /\ \A k \in 1..w : 1 + k - 1 = k
      BY <1>0, <2>3
    <3> QED
      BY <2>3, <2>5, <3>1, SubSeqProperties
  <2>7. n <= w
    <3> SUFFICES ASSUME w < n PROVE FALSE
      BY <1>0, <2>3
    <3>1. a \in 1..n
      BY <1>0, <2>2, <2>3
    <3> QED
      BY <2>2, <3>1
  <2>8. PICK e \in Nat : e = Len(text) /\ a \in 1..e /\ n \in 0..e
    <3>1. PICK e \in Nat : e = Len(text)
      BY <1>0, Zenon
    <3>2. a \in 1..e /\ n \in 0..e
      BY <3>1
    <3> QED
      BY <3>1, <3>2
  <2>9. ASSUME n < Len(text), text[n + 1] = SP
        PROVE  w = n
    <3> SUFFICES ASSUME n < w PROVE FALSE
      BY <1>0, <2>3, <2>7
    <3>1. n + 1 \in 1..(a - 1)
      BY <1>0, <2>3
    <3> QED
      BY <2>2, <2>9, <3>1
  <2>10. n # e
    BY <2>3, <2>7, <2>8
  <2>11. PICK b \in Nat : b = a + 1
    BY <2>8
  <2>12. PICK r \in Nat : r = e - a
    <3>1. e - a \in Nat
      BY <2>8
    <3> QED
      BY <3>1
  <2>13. Rest(text) = SubSeq(text, b, e)
    BY <2>2, <2>8, <2>11 DEF Rest
  <2>14. /\ SubSeq(text, b, e) \in Line /\ Len(SubSeq(text, b, e)) = r
         /\ \A k \in 1..r : SubSeq(text, b, e)[k] = text[a + k]
    <3>1. /\ e - b + 1 = r /\ (b <= e \/ r = 0)
          /\ \A k \in 1..r : b + k - 1 = a + k
          /\ \A k \in b..e : k \in 1..e
      BY <2>8, <2>11, <2>12
    <3>2. \A k \in b..e : text[k] \in Letter \cup {SP}
      BY <1>0, <2>8, <3>1
    <3>3. /\ SubSeq(text, b, e) \in Seq(Letter \cup {SP})
          /\ Len(SubSeq(text, b, e)) = IF b <= e THEN e - b + 1 ELSE 0
          /\ \A k \in 1..(e - b + 1) : SubSeq(text, b, e)[k] = text[b + k - 1]
      BY <3>2, SubSeqProperties
    <3>4. Len(SubSeq(text, b, e)) = r
      BY <3>1, <3>3
    <3> QED
      BY <3>1, <3>3, <3>4 DEF Line
  <2>15. ASSUME n < Len(text), text[n + 1] = SP
         PROVE  /\ Len(Rest(text)) = Len(text) - (n + 1) /\ Rest(text) \in Line
                /\ \A k \in 1..Len(Rest(text)) : Rest(text)[k] = text[n + 1 + k]
    <3>1. w = n
      BY <2>9, <2>15
    <3>2. a = n + 1 /\ e - (n + 1) = r
      BY <2>3, <2>8, <2>12, <3>1
    <3> QED
      BY <2>8, <2>13, <2>14, <3>2
  <2>16. Len(FirstWord(text)) = w /\ w \in n..Len(text)
    BY <1>0, <2>3, <2>4, <2>6, <2>7
  <2> QED
    BY <1>2, <2>4, <2>6, <2>8, <2>9, <2>10, <2>15, <2>16
<1> QED
  BY <1>1, <1>2

\* The commands whose parts lie in the buffers, and in them and dentry_struct.
Fitting == {text \in Line : Fits(text)}
Reaching == {text \in Line : InFrame(text)}

-----------------------------------------------------------------------------
(* What the loop of execute has made of the command *)

CommandTyped ==
    /\ pc \in {"user", "parse", "load"}
    /\ command \in Reaching
    /\ cmd_idx \in 0..Len(command) /\ first_sp \in BOOLEAN
    /\ frame \in [Frame -> Cell]
    /\ arg_buf \in [1..PER_TERM -> {s \in Seq(Cell) : Len(s) < 2 * BUF}]
    /\ programs \in Seq([entry : DOMAIN Dir, command : Line]) /\ Depth <= PER_TERM

\* None of the command's first n characters is a space; they are in exe_cmd.
NoSpace(n) == \A k \in 1..n : command[k] # SP
InWord(n) == \A k \in 1..n : frame[BUF + (k - 1)] = command[k]

\* What is behind the first space is in argument_buffer, as far as it was read,
\* or behind it if it is longer.
Cut ==
    IF first_sp
    THEN /\ arg_off \in 1..cmd_idx /\ command[arg_off] = SP
         /\ NoSpace(arg_off - 1)
         /\ \A k \in 1..(cmd_idx - arg_off) : frame[k - 1] = command[arg_off + k]
    ELSE arg_off = 0 /\ NoSpace(cmd_idx)

\* What is before it is in exe_cmd, and nothing is behind that.
NameCut ==
    /\ IF first_sp THEN InWord(arg_off - 1) /\ frame[BUF + (arg_off - 1)] = NUL
                   ELSE InWord(cmd_idx)
    /\ \A k \in 2 * BUF..(2 * BUF + DENTRY - 1) : frame[k] = FOREIGN

\* Both texts are ended.
CutDone ==
    /\ cmd_idx = Len(command)
    /\ frame[cmd_idx - arg_off] = NUL
    /\ ~first_sp => frame[BUF + cmd_idx] = NUL

\* The slots hold the arguments of the programs in them.
Fetched ==
    \A n \in 1..Depth :
        Spaces(programs[n].command) # {} => arg_buf[n] = Rest(programs[n].command)

\* Only the base shell is started in an empty terminal, and it is always there.
Based == (pc = "user" => Depth >= 1) /\ (Depth = 0 => command = SHELL)

CommandInv ==
    /\ CommandTyped /\ Fetched /\ Based
    /\ pc # "user" => Cut /\ (command \in Fitting => NameCut)
    /\ pc = "load" => CutDone

LEMMA JunkType ==
  ASSUME NEW b \in Byte
  PROVE  /\ Junk(b) \in [Frame -> Cell]
         /\ \A k \in 2 * BUF..(2 * BUF + DENTRY - 1) : Junk(b)[k] = FOREIGN
BY Sizes DEF Junk, Frame, Cell

\* The cells of the frame by their number.
LEMMA Places ==
  /\ \A k \in 0..(2 * BUF - 1) : k \in Frame
  /\ \A k \in 0..(BUF + DENTRY - 1) : BUF + k \in Frame
  /\ 2 * BUF + DENTRY - 1 \in Nat
BY Sizes DEF Frame

\* Programs' commands, and the shell's.
LEMMA CommandType ==
  /\ Command \subseteq Reaching
  /\ SHELL \in Reaching /\ SHELL \in Fitting /\ SHELL \in Seq(Letter) /\ Spaces(SHELL) = {}
<1>1. Command \subseteq Reaching
  BY CommandBounds DEF Reaching, Line
<1>2. SHELL \in Seq(Letter) /\ Len(SHELL) < FNAME /\ Len(SHELL) \in Nat
  BY CommandBounds, LenProperties DEF Names
<1>3. SHELL \in Line
  BY <1>2, SeqDef, LenProperties DEF Line
<1>4. Spaces(SHELL) = {}
  <2>1. \A k \in DOMAIN SHELL : SHELL[k] \in Letter
    BY <1>2, ElementOfSeq, LenProperties
  <2> QED
    BY <2>1, Letters DEF Spaces
<1>5. Fits(SHELL) /\ InFrame(SHELL)
  BY <1>2, <1>4, Sizes DEF Fits, InFrame, FirstWord
<1> QED
  BY <1>1, <1>2, <1>3, <1>4, <1>5 DEF Reaching, Fitting

\* How far the two parts of the command reach.
LEMMA Reach ==
  ASSUME command \in Reaching, NEW n \in 0..Len(command), NoSpace(n)
  PROVE  /\ n < BUF + DENTRY /\ (command \in Fitting => n < BUF)
         /\ n < Len(command) /\ command[n + 1] = SP =>
              /\ Len(command) - (n + 1) < 2 * BUF
              /\ command \in Fitting => Len(command) - (n + 1) < BUF
<1>0. command \in Line /\ InFrame(command) /\ Len(command) \in Nat
  BY LenProperties DEF Reaching, Line
<1>1. \A k \in 1..n : command[k] # SP
  BY DEF NoSpace
<1>2. /\ Len(FirstWord(command)) \in n..Len(command)
      /\ n < Len(command) /\ command[n + 1] = SP =>
           Spaces(command) # {} /\ Len(Rest(command)) = Len(command) - (n + 1)
  BY <1>0, <1>1, Parts
<1>3. /\ Len(FirstWord(command)) < BUF + DENTRY
      /\ Spaces(command) # {} => Len(Rest(command)) < 2 * BUF
  BY <1>0 DEF InFrame
<1>4. command \in Fitting =>
         /\ Len(FirstWord(command)) < BUF
         /\ Spaces(command) # {} => Len(Rest(command)) < BUF
  BY DEF Fitting, Fits
<1>5. PICK e \in Nat, f \in Nat : e = Len(command) /\ f = Len(FirstWord(command))
  BY <1>0, <1>2
<1>6. n <= f /\ f < BUF + DENTRY /\ (command \in Fitting => f < BUF)
  BY <1>2, <1>3, <1>4, <1>5
<1>7. n < BUF + DENTRY /\ (command \in Fitting => n < BUF)
  BY <1>5, <1>6, Sizes
<1> QED
  BY <1>2, <1>3, <1>4, <1>7

\* What the finished loop has left for the look-up and for the copy to the PCB.
LEMMA WordsCut ==
  ASSUME CommandInv, pc = "load"
  PROVE  /\ FirstWord(command) \in Seq(Letter)
         /\ command \in Fitting =>
              Holds(exe_cmd, FirstWord(command)) /\ Text(exe_cmd) = FirstWord(command)
         /\ Text(argument_buffer) \in Seq(Cell) /\ Len(Text(argument_buffer)) < 2 * BUF
         /\ Spaces(command) # {} => Text(argument_buffer) = Rest(command)
<1>0. /\ command \in Reaching /\ command \in Line /\ Len(command) \in Nat
      /\ cmd_idx = Len(command) /\ Cut /\ CutDone /\ (command \in Fitting => NameCut)
      /\ frame \in [Frame -> Cell] /\ first_sp \in BOOLEAN
  BY LenProperties DEF CommandInv, CommandTyped, CutDone, Line, Reaching
<1>1. PICK last \in Nat : last = 2 * BUF + DENTRY - 1
  BY Places
<1>2. argument_buffer \in [0..last -> Cell]
  BY <1>0, <1>1 DEF argument_buffer, Frame
<1>3. PICK short \in Nat : short = BUF + DENTRY - 1
  BY Sizes
<1>4. exe_cmd \in [0..short -> Cell]
  BY <1>0, <1>3, Places DEF exe_cmd
\* The name's length, and the arguments' start and length.
<1>5. PICK w \in 0..Len(command) :
        /\ NoSpace(w) /\ (first_sp => w = arg_off - 1 /\ w < Len(command) /\ command[w + 1] = SP)
        /\ (~first_sp => w = Len(command) /\ arg_off = 0)
  BY <1>0 DEF Cut
<1>6. /\ FirstWord(command) \in Seq(Letter) /\ Len(FirstWord(command)) = w
      /\ \A k \in 1..w : FirstWord(command)[k] = command[k]
      /\ first_sp => /\ Spaces(command) # {} /\ Rest(command) \in Line
                     /\ Len(Rest(command)) = Len(command) - (w + 1)
                     /\ \A k \in 1..Len(Rest(command)) : Rest(command)[k] = command[w + 1 + k]
      /\ ~first_sp => Spaces(command) = {}
  <2>1. \A k \in 1..w : command[k] # SP
    BY <1>5 DEF NoSpace
  <2>2. /\ FirstWord(command) \in Seq(Letter)
        /\ \A k \in 1..Len(FirstWord(command)) : FirstWord(command)[k] = command[k]
        /\ w < Len(command) /\ command[w + 1] = SP =>
              /\ Spaces(command) # {} /\ Len(FirstWord(command)) = w
              /\ Rest(command) \in Line /\ Len(Rest(command)) = Len(command) - (w + 1)
              /\ \A k \in 1..Len(Rest(command)) : Rest(command)[k] = command[w + 1 + k]
        /\ w = Len(command) => Spaces(command) = {} /\ FirstWord(command) = command
    BY <1>0, <2>1, Parts
  <2> QED
    BY <1>5, <2>2
<1>7. /\ w < BUF + DENTRY /\ (command \in Fitting => w < BUF)
      /\ first_sp => Len(command) - (w + 1) < 2 * BUF
  BY <1>0, <1>5, Reach
<1>8. ASSUME command \in Fitting
      PROVE  Holds(exe_cmd, FirstWord(command)) /\ Text(exe_cmd) = FirstWord(command)
  <2>1. InWord(w) /\ frame[BUF + w] = NUL
    BY <1>0, <1>5, <1>8 DEF NameCut, CutDone
  <2>2. \A k \in 0..w : exe_cmd[k] = frame[BUF + k]
    BY <1>7, Sizes DEF exe_cmd
  <2>3. ASSUME NEW k \in 1..w PROVE exe_cmd[k - 1] = FirstWord(command)[k]
    <3>1. k - 1 \in 0..w
      OBVIOUS
    <3>2. exe_cmd[k - 1] = command[k]
      BY <2>1, <2>2, <3>1 DEF InWord
    <3> QED
      BY <1>6, <3>2
  <2>4. exe_cmd[w] = NUL
    BY <2>1, <2>2
  <2>5. Holds(exe_cmd, FirstWord(command))
    BY <1>6, <2>3, <2>4 DEF Holds
  <2>6. FirstWord(command) \in Line
    BY <1>6, SeqDef, LenProperties DEF Line
  <2>7. Len(FirstWord(command)) <= short
    BY <1>3, <1>6, <1>7, Sizes
  <2> QED
    BY <1>4, <2>5, <2>6, <2>7, TextIs
<1>9. PICK j \in 0..(2 * BUF - 1) :
        j = cmd_idx - arg_off /\ (first_sp => j = Len(command) - (w + 1))
  <2>1. CASE first_sp
    <3>1. Len(command) - (w + 1) \in 0..(2 * BUF - 1)
      BY <1>0, <1>5, <1>7, <2>1, Sizes
    <3>2. cmd_idx - arg_off = Len(command) - (w + 1)
      BY <1>0, <1>5, <2>1 DEF Cut
    <3> QED
      BY <3>1, <3>2
  <2>2. CASE ~first_sp
    BY <1>0, <1>5, <1>7, <2>2, Sizes
  <2> QED
    BY <2>1, <2>2
<1>10. frame[j] = NUL /\ j \in 0..last /\ j <= last
  BY <1>0, <1>1, <1>9, Sizes DEF CutDone
<1>11. Text(argument_buffer) \in Seq(Cell) /\ Len(Text(argument_buffer)) < 2 * BUF
  <2>1. argument_buffer[j] = NUL
    BY <1>10 DEF argument_buffer
  <2>2. Text(argument_buffer) \in Seq(Cell) /\ Len(Text(argument_buffer)) <= j
    BY <1>2, <1>10, <2>1, TextType
  <2> QED
    BY <1>9, <2>2, Sizes, LenProperties
<1>12. ASSUME first_sp
       PROVE  Text(argument_buffer) = Rest(command)
  <2>1. Len(Rest(command)) = j
    BY <1>6, <1>9, <1>12
  <2>2. ASSUME NEW k \in 1..j PROVE argument_buffer[k - 1] = Rest(command)[k]
    <3>1. arg_off = w + 1 /\ k \in 1..(cmd_idx - arg_off)
      BY <1>0, <1>5, <1>9, <1>12 DEF Cut
    <3>2. frame[k - 1] = command[w + 1 + k]
      BY <1>0, <1>12, <3>1 DEF Cut
    <3> QED
      BY <1>6, <1>12, <2>1, <3>2 DEF argument_buffer
  <2>3. Holds(argument_buffer, Rest(command))
    BY <1>10, <2>1, <2>2 DEF Holds, argument_buffer
  <2> QED
    BY <1>2, <1>6, <1>10, <1>12, <2>1, <2>3, TextIs
<1> QED
  BY <1>6, <1>8, <1>11, <1>12

-----------------------------------------------------------------------------
(* The invariant is kept *)

LEMMA CommandInvInit == Init => CommandInv
<1> SUFFICES ASSUME Init
             PROVE  CommandInv
  OBVIOUS
<1>0. PER_TERM \in Nat /\ Len(SHELL) \in Nat /\ command = SHELL
  BY CommandBounds, CommandType, LenProperties DEF Init
<1>1. PICK b \in Byte : frame = Junk(b)
  BY CommandBounds DEF Init
<1>2. /\ frame \in [Frame -> Cell]
      /\ \A k \in 2 * BUF..(2 * BUF + DENTRY - 1) : frame[k] = FOREIGN
  BY <1>1, JunkType
<1>3. << >> \in Seq(Cell) /\ Len(<< >>) < 2 * BUF
  BY Sizes
<1>4. arg_buf \in [1..PER_TERM -> {s \in Seq(Cell) : Len(s) < 2 * BUF}]
  BY <1>3 DEF Init
<1>5. programs \in Seq([entry : DOMAIN Dir, command : Line]) /\ Depth = 0
  BY DEF Init, Depth
<1>6. first_sp \in BOOLEAN
  BY Zenon DEF Init
<1>7. cmd_idx \in 0..Len(command) /\ command \in Reaching
  BY <1>0, CommandType DEF Init
<1>8. CommandTyped
  BY <1>0, <1>2, <1>4, <1>5, <1>6, <1>7 DEF Init, CommandTyped
<1>9. Fetched /\ Based /\ Cut
  BY DEF Init, Fetched, Based, Depth, Cut, NoSpace
<1>10. NameCut
  BY <1>2 DEF Init, NameCut, InWord
<1> QED
  BY <1>8, <1>9, <1>10 DEF Init, CommandInv

\* A call of execute begins before the command's first character.
LEMMA CalledCuts ==
  ASSUME NEW text \in Reaching, Called(text)
  PROVE  /\ pc' = "parse" /\ command' = text
         /\ cmd_idx' \in 0..Len(command') /\ first_sp' \in BOOLEAN
         /\ frame' \in [Frame -> Cell]
         /\ Cut' /\ NameCut'
<1>1. Len(text) \in Nat
  BY LenProperties DEF Reaching, Line
<1>2. PICK b \in Byte : frame' = Junk(b)
  BY CommandBounds DEF Called
<1>3. /\ frame' \in [Frame -> Cell]
      /\ \A k \in 2 * BUF..(2 * BUF + DENTRY - 1) : frame'[k] = FOREIGN
  BY <1>2, JunkType
<1>4. pc' = "parse" /\ command' = text /\ cmd_idx' = 0 /\ first_sp' = FALSE /\ arg_off' = 0
  BY DEF Called
<1>5. Cut'
  BY <1>4 DEF Cut, NoSpace
<1>6. NameCut'
  BY <1>3, <1>4 DEF NameCut, InWord
<1>7. first_sp' \in BOOLEAN
  BY <1>4, Zenon
<1>8. cmd_idx' \in 0..Len(command')
  BY <1>1, <1>4
<1> QED
  BY <1>3, <1>4, <1>5, <1>6, <1>7, <1>8

\* One character is cut.
LEMMA CharCuts ==
  ASSUME CommandInv, FirstSpace \/ ArgumentChar \/ NameChar
  PROVE  /\ cmd_idx' \in 0..Len(command) /\ first_sp' \in BOOLEAN
         /\ frame' \in [Frame -> Cell]
         /\ Cut' /\ (command \in Fitting => NameCut')
         /\ UNCHANGED <<pc, command, arg_buf, programs>> /\ pc = "parse"
<1>0. /\ command \in Reaching /\ Len(command) \in Nat
      /\ \A k \in 1..Len(command) : command[k] \in Letter \cup {SP}
      /\ cmd_idx \in 0..Len(command) /\ cmd_idx < Len(command)
      /\ Cut /\ (command \in Fitting => NameCut)
      /\ frame \in [Frame -> Cell] /\ pc = "parse" /\ first_sp \in BOOLEAN
  BY LenProperties, ElementOfSeq
     DEF CommandInv, CommandTyped, Reaching, Line, FirstSpace, ArgumentChar, NameChar, Parsing
<1>1. PICK i \in Nat : i = cmd_idx /\ i < Len(command) /\ i \in 0..Len(command)
  BY <1>0
<1>2. cmd_idx' = i + 1 /\ UNCHANGED <<pc, command, arg_buf, programs>>
  BY <1>1 DEF FirstSpace, ArgumentChar, NameChar, Parsed
<1>3. /\ i + 1 \in 1..Len(command) /\ i + 1 \in 0..Len(command)
      /\ command[i + 1] \in Letter \cup {SP} /\ command[i + 1] \in Cell /\ NUL \in Cell
  BY <1>0, <1>1, Letters DEF Cell
<1>4. CASE FirstSpace
  <2>1. /\ command[i + 1] = SP /\ ~first_sp /\ first_sp' = TRUE /\ arg_off' = i + 1
        /\ frame' = [frame EXCEPT ![BUF + i] = NUL]
    BY <1>1, <1>4 DEF FirstSpace, Char, OffsetAfterSpace, Named
  <2>2. NoSpace(i)
    BY <1>0, <1>1, <2>1 DEF Cut
  <2>3. i < BUF + DENTRY /\ (command \in Fitting => i < BUF)
    BY <1>0, <1>1, <2>2, Reach
  <2>4. BUF + i \in Frame
    BY <2>3, Sizes DEF Frame
  <2>5. frame' \in [Frame -> Cell]
    BY <1>0, <1>3, <2>1
  <2>6. Cut'
    <3>1. i + 1 - 1 = i /\ i + 1 \in 1..(i + 1) /\ (i + 1) - (i + 1) = 0
      OBVIOUS
    <3>2. NoSpace(i)'
      BY <1>2, <2>2 DEF NoSpace
    <3> QED
      BY <1>2, <2>1, <3>1, <3>2 DEF Cut
  <2>7. ASSUME command \in Fitting
        PROVE  NameCut'
    <3>1. InWord(i) /\ \A k \in 2 * BUF..(2 * BUF + DENTRY - 1) : frame[k] = FOREIGN
      BY <1>0, <1>1, <2>1, <2>7 DEF NameCut
    <3>2. /\ frame'[BUF + i] = NUL
          /\ \A k \in Frame : k # BUF + i => frame'[k] = frame[k]
      BY <1>0, <2>1, <2>4
    <3>3. ASSUME NEW k \in 1..i PROVE frame'[BUF + (k - 1)] = command[k]
      <4>1. BUF + (k - 1) \in Frame /\ BUF + (k - 1) # BUF + i
        BY <2>3, Sizes DEF Frame
      <4> QED
        BY <3>1, <3>2, <4>1 DEF InWord
    <3>4. ASSUME NEW k \in 2 * BUF..(2 * BUF + DENTRY - 1) PROVE frame'[k] = FOREIGN
      <4>1. k \in Frame /\ k # BUF + i
        BY <2>3, <2>7, Sizes DEF Frame
      <4> QED
        BY <3>1, <3>2, <4>1
    <3>5. i + 1 - 1 = i
      OBVIOUS
    <3>6. InWord(i)'
      BY <1>2, <3>3 DEF InWord
    <3> QED
      BY <2>1, <3>2, <3>4, <3>5, <3>6 DEF NameCut
  <2> QED
    BY <1>0, <1>1, <1>2, <1>3, <2>1, <2>5, <2>6, <2>7
<1>5. CASE ArgumentChar
  <2>1. /\ first_sp /\ UNCHANGED <<first_sp, arg_off>>
        /\ frame' = [frame EXCEPT ![i - arg_off] = command[i + 1]]
    BY <1>1, <1>5 DEF ArgumentChar, Char, Argued
  <2>2. PICK a \in 1..i : a = arg_off
    BY <1>0, <1>1, <2>1 DEF Cut
  <2>3. /\ command[a] = SP /\ NoSpace(a - 1)
        /\ \A k \in 1..(i - a) : frame[k - 1] = command[a + k]
    BY <1>0, <1>1, <2>1, <2>2 DEF Cut
  <2>4. PICK j \in Nat : j = i - a /\ j < 2 * BUF /\ (command \in Fitting => j < BUF)
    <3>1. PICK w \in 0..Len(command) : w = a - 1
      BY <1>0, <1>1, <2>2
    <3>2. PICK e \in Nat : e = Len(command)
      BY <1>0, Zenon
    <3>3. w < e /\ w + 1 = a /\ i < e
      BY <1>1, <2>2, <3>1, <3>2
    <3>4. w < Len(command) /\ command[w + 1] = SP /\ NoSpace(w)
      BY <2>3, <3>1, <3>2, <3>3
    <3>5. e - a < 2 * BUF /\ (command \in Fitting => e - a < BUF)
      BY <1>0, <3>1, <3>2, <3>3, <3>4, Reach
    <3>6. i - a \in Nat /\ i - a < e - a
      BY <2>2, <3>3
    <3> QED
      BY <3>5, <3>6, Sizes
  <2>5. j \in Frame
    BY <2>4, Sizes DEF Frame
  <2>6. frame' = [frame EXCEPT ![j] = command[i + 1]]
    BY <2>1, <2>2, <2>4
  <2>7. /\ frame' \in [Frame -> Cell] /\ frame'[j] = command[i + 1]
        /\ \A k \in Frame : k # j => frame'[k] = frame[k]
    BY <1>0, <1>3, <2>5, <2>6
  <2>8. ASSUME NEW k \in 1..(i + 1 - a)
        PROVE  frame'[k - 1] = command[a + k]
    <3>1. CASE k = j + 1
      <4>1. k - 1 = j /\ a + k = i + 1
        BY <1>1, <2>2, <2>4, <3>1
      <4> QED
        BY <2>7, <4>1
    <3>2. CASE k # j + 1
      <4>1. k \in 1..(i - a) /\ k - 1 # j /\ k - 1 \in Frame
        BY <2>2, <2>4, <3>2, Sizes DEF Frame
      <4> QED
        BY <2>3, <2>7, <4>1
    <3> QED
      BY <3>1, <3>2
  <2>9. Cut'
    <3>1. a \in 1..(i + 1)
      BY <2>2
    <3>2. NoSpace(a - 1)'
      BY <1>2, <2>3 DEF NoSpace
    <3> QED
      BY <1>2, <2>1, <2>2, <2>3, <2>8, <3>1, <3>2 DEF Cut
  <2>10. ASSUME command \in Fitting
         PROVE  NameCut'
    <3>1. /\ InWord(a - 1) /\ frame[BUF + (a - 1)] = NUL
          /\ \A k \in 2 * BUF..(2 * BUF + DENTRY - 1) : frame[k] = FOREIGN
      BY <1>0, <2>1, <2>2, <2>10 DEF NameCut
    <3>2. a - 1 < BUF + DENTRY
      <4>1. PICK w \in 0..Len(command) : w = a - 1
        BY <1>0, <1>1, <2>2
      <4> QED
        BY <1>0, <2>3, <4>1, Reach
    <3>3. ASSUME NEW k \in 0..(a - 1) PROVE frame'[BUF + k] = frame[BUF + k]
      <4>1. BUF + k \in Frame /\ BUF + k # j
        BY <2>2, <2>4, <2>10, <3>2, Sizes DEF Frame
      <4> QED
        BY <2>7, <4>1
    <3>4. ASSUME NEW k \in 2 * BUF..(2 * BUF + DENTRY - 1) PROVE frame'[k] = FOREIGN
      <4>1. k \in Frame /\ k # j
        BY <2>4, Sizes DEF Frame
      <4> QED
        BY <2>7, <3>1, <4>1
    <3>5. InWord(a - 1)'
      <4>1. \A k \in 1..(a - 1) : k - 1 \in 0..(a - 1)
        OBVIOUS
      <4> QED
        BY <1>2, <3>1, <3>3, <4>1 DEF InWord
    <3>6. frame'[BUF + (a - 1)] = NUL
      BY <2>2, <3>1, <3>3
    <3> QED
      BY <2>1, <2>2, <3>4, <3>5, <3>6 DEF NameCut
  <2> QED
    BY <1>0, <1>1, <1>2, <1>3, <2>1, <2>7, <2>9, <2>10
<1>6. CASE NameChar
  <2>1. /\ command[i + 1] # SP /\ ~first_sp /\ UNCHANGED <<first_sp, arg_off>>
        /\ frame' = [frame EXCEPT ![BUF + i] = command[i + 1]]
    BY <1>1, <1>6 DEF NameChar, Char, Named
  <2>2. NoSpace(i + 1) /\ arg_off = 0
    <3>1. NoSpace(i) /\ arg_off = 0
      BY <1>0, <1>1, <2>1 DEF Cut
    <3>2. \A k \in 1..(i + 1) : k = i + 1 \/ k \in 1..i
      OBVIOUS
    <3> QED
      BY <2>1, <3>1, <3>2 DEF NoSpace
  <2>3. i + 1 < BUF + DENTRY /\ (command \in Fitting => i + 1 < BUF)
    BY <1>0, <1>3, <2>2, Reach
  <2>4. BUF + i \in Frame
    BY <2>3, Sizes DEF Frame
  <2>5. /\ frame' \in [Frame -> Cell] /\ frame'[BUF + i] = command[i + 1]
        /\ \A k \in Frame : k # BUF + i => frame'[k] = frame[k]
    BY <1>0, <1>3, <2>1, <2>4
  <2>6. Cut'
    <3>1. NoSpace(i + 1)'
      BY <1>2, <2>2 DEF NoSpace
    <3> QED
      BY <1>2, <2>1, <2>2, <3>1 DEF Cut
  <2>7. ASSUME command \in Fitting
        PROVE  NameCut'
    <3>1. InWord(i) /\ \A k \in 2 * BUF..(2 * BUF + DENTRY - 1) : frame[k] = FOREIGN
      BY <1>0, <1>1, <2>1, <2>7 DEF NameCut
    <3>2. ASSUME NEW k \in 1..(i + 1) PROVE frame'[BUF + (k - 1)] = command[k]
      <4>1. CASE k = i + 1
        <5>1. k - 1 = i
          BY <4>1
        <5> QED
          BY <2>5, <4>1, <5>1
      <4>2. CASE k # i + 1
        <5>1. k \in 1..i /\ BUF + (k - 1) \in Frame /\ BUF + (k - 1) # BUF + i
          BY <2>3, <4>2, Sizes DEF Frame
        <5> QED
          BY <2>5, <3>1, <5>1 DEF InWord
      <4> QED
        BY <4>1, <4>2
    <3>3. ASSUME NEW k \in 2 * BUF..(2 * BUF + DENTRY - 1) PROVE frame'[k] = FOREIGN
      <4>1. k \in Frame /\ k # BUF + i
        BY <2>3, <2>7, Sizes DEF Frame
      <4> QED
        BY <2>5, <3>1, <4>1
    <3>4. InWord(i + 1)'
      BY <1>2, <3>2 DEF InWord
    <3> QED
      BY <1>2, <2>1, <3>3, <3>4 DEF NameCut
  <2> QED
    BY <1>0, <1>1, <1>2, <1>3, <2>1, <2>5, <2>6, <2>7
<1> QED
  BY <1>4, <1>5, <1>6

\* The end of the loop ends both texts.
LEMMA ParseEndCuts ==
  ASSUME CommandInv, ParseEnds
  PROVE  /\ frame' \in [Frame -> Cell]
         /\ Cut' /\ (command \in Fitting => NameCut') /\ CutDone'
         /\ UNCHANGED <<command, cmd_idx, first_sp, arg_buf, programs>> /\ pc' = "load"
<1>0. /\ command \in Reaching /\ Len(command) \in Nat
      /\ cmd_idx = Len(command) /\ Cut /\ (command \in Fitting => NameCut)
      /\ first_sp \in BOOLEAN /\ frame \in [Frame -> Cell] /\ NUL \in Cell
      /\ UNCHANGED <<command, cmd_idx, first_sp, arg_off, arg_buf, programs>> /\ pc' = "load"
      /\ frame' = IF first_sp THEN [frame EXCEPT ![cmd_idx - arg_off] = NUL]
                  ELSE [[frame EXCEPT ![cmd_idx - arg_off] = NUL] EXCEPT ![BUF + cmd_idx] = NUL]
  BY LenProperties, Letters
     DEF CommandInv, CommandTyped, Reaching, Line, ParseEnds, ArgumentsEnded, Argued, Cell
<1>1. PICK e \in Nat : e = cmd_idx /\ e = Len(command)
  BY <1>0, Zenon
<1>2. CASE first_sp
  <2>1. PICK a \in 1..e : a = arg_off
    BY <1>0, <1>1, <1>2 DEF Cut
  <2>2. /\ command[a] = SP /\ NoSpace(a - 1)
        /\ \A k \in 1..(e - a) : frame[k - 1] = command[a + k]
    BY <1>0, <1>1, <1>2, <2>1 DEF Cut
  <2>3. PICK w \in 0..Len(command) : w = a - 1 /\ w < Len(command) /\ w + 1 = a
    BY <1>1, <2>1
  <2>4. /\ w < BUF + DENTRY
        /\ Len(command) - (w + 1) < 2 * BUF
        /\ command \in Fitting => Len(command) - (w + 1) < BUF
    BY <1>0, <2>2, <2>3, Reach
  <2>5. PICK j \in Nat : j = e - a /\ j < 2 * BUF /\ (command \in Fitting => j < BUF)
    <3>1. e - a \in Nat
      BY <2>1
    <3> QED
      BY <1>1, <2>3, <2>4, <3>1
  <2>6. j \in Frame
    BY <2>5, Sizes DEF Frame
  <2>7. /\ frame' \in [Frame -> Cell] /\ frame'[j] = NUL
        /\ \A k \in Frame : k # j => frame'[k] = frame[k]
    <3>1. frame' = [frame EXCEPT ![j] = NUL]
      BY <1>0, <1>1, <1>2, <2>1, <2>5
    <3> QED
      BY <1>0, <2>6, <3>1
  <2>8. Cut'
    <3>1. ASSUME NEW k \in 1..(e - a) PROVE frame'[k - 1] = command[a + k]
      <4>1. k - 1 \in Frame /\ k - 1 # j
        BY <2>5, Sizes DEF Frame
      <4> QED
        BY <2>2, <2>7, <4>1
    <3>2. NoSpace(a - 1)'
      BY <1>0, <2>2 DEF NoSpace
    <3> QED
      BY <1>0, <1>1, <1>2, <2>1, <2>2, <3>1, <3>2 DEF Cut
  <2>9. CutDone'
    BY <1>0, <1>1, <1>2, <2>1, <2>5, <2>7 DEF CutDone
  <2>10. ASSUME command \in Fitting
         PROVE  NameCut'
    <3>1. /\ InWord(w) /\ frame[BUF + w] = NUL
          /\ \A k \in 2 * BUF..(2 * BUF + DENTRY - 1) : frame[k] = FOREIGN
      BY <1>0, <1>2, <2>1, <2>3, <2>10 DEF NameCut
    <3>2. ASSUME NEW k \in 0..w PROVE frame'[BUF + k] = frame[BUF + k]
      <4>1. BUF + k \in Frame /\ BUF + k # j
        BY <2>4, <2>5, <2>10, Sizes DEF Frame
      <4> QED
        BY <2>7, <4>1
    <3>3. ASSUME NEW k \in 2 * BUF..(2 * BUF + DENTRY - 1) PROVE frame'[k] = FOREIGN
      <4>1. k \in Frame /\ k # j
        BY <2>5, Sizes DEF Frame
      <4> QED
        BY <2>7, <3>1, <4>1
    <3>4. InWord(w)'
      <4>1. \A k \in 1..w : k - 1 \in 0..w
        OBVIOUS
      <4> QED
        BY <1>0, <3>1, <3>2, <4>1 DEF InWord
    <3>5. frame'[BUF + w] = NUL
      BY <3>1, <3>2
    <3> QED
      BY <1>0, <1>2, <2>1, <2>3, <3>3, <3>4, <3>5 DEF NameCut
  <2> QED
    BY <1>0, <2>7, <2>8, <2>9, <2>10
<1>3. CASE ~first_sp
  <2>1. arg_off = 0 /\ NoSpace(e) /\ e - arg_off = e
    BY <1>0, <1>1, <1>3 DEF Cut
  <2>2. e < BUF + DENTRY /\ (command \in Fitting => e < BUF)
    <3>1. e \in 0..Len(command)
      BY <1>1
    <3> QED
      BY <1>0, <2>1, <3>1, Reach
  <2>3. e \in Frame /\ BUF + e \in Frame /\ e # BUF + e
    BY <2>2, Sizes DEF Frame
  <2>4. /\ frame' \in [Frame -> Cell] /\ frame'[e] = NUL /\ frame'[BUF + e] = NUL
        /\ \A k \in Frame : k # e /\ k # BUF + e => frame'[k] = frame[k]
    <3>1. frame' = [[frame EXCEPT ![e] = NUL] EXCEPT ![BUF + e] = NUL]
      BY <1>0, <1>1, <1>3, <2>1
    <3> QED
      BY <1>0, <2>3, <3>1
  <2>5. Cut'
    <3>1. NoSpace(e)'
      BY <1>0, <2>1 DEF NoSpace
    <3> QED
      BY <1>0, <1>1, <1>3, <2>1, <3>1 DEF Cut
  <2>6. CutDone'
    BY <1>0, <1>1, <1>3, <2>1, <2>4 DEF CutDone
  <2>7. ASSUME command \in Fitting
        PROVE  NameCut'
    <3>1. /\ InWord(e)
          /\ \A k \in 2 * BUF..(2 * BUF + DENTRY - 1) : frame[k] = FOREIGN
      BY <1>0, <1>1, <1>3, <2>7 DEF NameCut
    <3>2. ASSUME NEW k \in 1..e PROVE frame'[BUF + (k - 1)] = command[k]
      <4>1. BUF + (k - 1) \in Frame /\ BUF + (k - 1) # e /\ BUF + (k - 1) # BUF + e
        BY <2>2, <2>7, Sizes DEF Frame
      <4> QED
        BY <2>4, <3>1, <4>1 DEF InWord
    <3>3. ASSUME NEW k \in 2 * BUF..(2 * BUF + DENTRY - 1) PROVE frame'[k] = FOREIGN
      <4>1. k \in Frame /\ k # e /\ k # BUF + e
        BY <2>2, <2>7, Sizes DEF Frame
      <4> QED
        BY <2>4, <3>1, <4>1
    <3>4. InWord(e)'
      BY <1>0, <3>2 DEF InWord
    <3> QED
      BY <1>0, <1>1, <1>3, <3>3, <3>4 DEF NameCut
  <2> QED
    BY <1>0, <2>4, <2>5, <2>6, <2>7
<1> QED
  BY <1>0, <1>2, <1>3

\* An entry is one of the directory, and if the command fits it is the one named.
LEMMA EntryIs ==
  ASSUME CommandInv, pc = "load"
  PROVE  /\ Entry # -1 => Entry \in DOMAIN Dir
         /\ command \in Fitting =>
              /\ Entry # -1 => Entry \in NamedBy(FirstWord(command))
              /\ Entry = -1 => NamedBy(FirstWord(command)) = {}
<1>1. Entry # -1 => Entry \in DOMAIN Dir
  <2> DEFINE same == {n \in DOMAIN Dir : SameName(Memory(Dir[n].name, FNAME), exe_cmd)}
  <2>1. same \in SUBSET Nat /\ same \subseteq DOMAIN Dir
    BY CommandBounds
  <2>2. Entry = IF same = {} THEN -1 ELSE Min(same)
    BY DEF Entry, Lookup
  <2> HIDE DEF same
  <2>3. same # {} => Min(same) \in same
    BY <2>1, MinIn
  <2> QED
    BY <2>1, <2>2, <2>3
<1>2. ASSUME command \in Fitting
      PROVE  Entry \in IF NamedBy(FirstWord(command)) = {} THEN {-1}
                       ELSE NamedBy(FirstWord(command))
  <2>1. FirstWord(command) \in Seq(Letter) /\ Holds(exe_cmd, FirstWord(command))
    BY <1>2, WordsCut
  <2> QED
    BY <2>1, LookupIs DEF Entry
<1>3. \A n \in NamedBy(FirstWord(command)) : n # -1
  BY CommandBounds DEF NamedBy
<1> QED
  BY <1>1, <1>2, <1>3

\* The base shell can always be loaded.
LEMMA ShellLoadable ==
  ASSUME CommandInv, pc = "load", command = SHELL
  PROVE  Loadable
<1>1. command \in Fitting /\ FirstWord(command) = SHELL
  BY CommandType DEF FirstWord
<1>2. NamedBy(SHELL) # {} /\ \A n \in NamedBy(SHELL) : Dir[n].program
  BY CommandBounds DEF Names, NamedBy
<1> QED
  BY <1>1, <1>2, EntryIs DEF Loadable

\* What execute leaves of its frame.
LEMMA LeavesTyped ==
  ASSUME CommandInv, Leaves
  PROVE  /\ pc' = "user" /\ command' \in Reaching
         /\ cmd_idx' \in 0..Len(command') /\ first_sp' \in BOOLEAN
         /\ frame' \in [Frame -> Cell]
<1>1. /\ pc' = "user" /\ command' = << >> /\ cmd_idx' = 0 /\ first_sp' = FALSE
      /\ frame' = Junk(NUL)
  BY DEF Leaves
<1>2. << >> \in Line /\ Len(<< >>) = 0 /\ 0 \in 0..0 /\ Spaces(<< >>) = {}
  BY DEF Line, Spaces
<1>3. InFrame(<< >>)
  BY <1>2, Sizes DEF InFrame, FirstWord
<1>4. frame' \in [Frame -> Cell]
  BY <1>1, Letters, JunkType
<1>5. first_sp' \in BOOLEAN
  BY <1>1, Zenon
<1> QED
  BY <1>1, <1>2, <1>3, <1>4, <1>5 DEF Reaching

LEMMA CommandInvStep == CommandInv /\ [Next]_vars => CommandInv'
<1> SUFFICES ASSUME CommandInv, [Next]_vars
             PROVE  CommandInv'
  OBVIOUS
<1>0. /\ PER_TERM \in Nat \ {0} /\ Depth \in Nat /\ Depth <= PER_TERM
      /\ programs \in Seq([entry : DOMAIN Dir, command : Line]) /\ Len(programs) = Depth
      /\ arg_buf \in [1..PER_TERM -> {s \in Seq(Cell) : Len(s) < 2 * BUF}]
      /\ Fetched /\ Based
  BY CommandBounds, LenProperties DEF CommandInv, CommandTyped, Depth
<1>1. ASSUME NEW text \in Command, Execute(text)
      PROVE  CommandInv'
  <2>1. Called(text) /\ text \in Reaching /\ UNCHANGED <<arg_buf, programs>>
        /\ pc = "user"
    BY <1>1, CommandType DEF Execute
  <2>2. /\ pc' = "parse" /\ command' = text
        /\ cmd_idx' \in 0..Len(command') /\ first_sp' \in BOOLEAN
        /\ frame' \in [Frame -> Cell]
        /\ Cut' /\ NameCut'
    BY <2>1, CalledCuts
  <2>3. CommandTyped'
    BY <1>0, <2>1, <2>2 DEF CommandTyped, Depth
  <2>4. Fetched' /\ Depth' = Depth /\ Depth >= 1
    BY <1>0, <2>1 DEF Fetched, Based, Depth
  <2>5. Based'
    BY <1>0, <2>2, <2>4 DEF Based
  <2> QED
    BY <2>2, <2>3, <2>4, <2>5 DEF CommandInv
<1>2. CASE FirstSpace \/ ArgumentChar \/ NameChar
  <2>1. /\ cmd_idx' \in 0..Len(command) /\ first_sp' \in BOOLEAN
        /\ frame' \in [Frame -> Cell]
        /\ Cut' /\ (command \in Fitting => NameCut')
        /\ UNCHANGED <<pc, command, arg_buf, programs>> /\ pc = "parse"
    BY <1>2, CharCuts
  <2>2. CommandTyped'
    BY <2>1 DEF CommandInv, CommandTyped, Depth
  <2>3. Fetched' /\ Based'
    BY <1>0, <2>1 DEF Fetched, Based, Depth
  <2> QED
    BY <2>1, <2>2, <2>3 DEF CommandInv
<1>3. CASE ParseEnds
  <2>1. /\ frame' \in [Frame -> Cell]
        /\ Cut' /\ (command \in Fitting => NameCut') /\ CutDone'
        /\ UNCHANGED <<command, cmd_idx, first_sp, arg_buf, programs>> /\ pc' = "load"
    BY <1>3, ParseEndCuts
  <2>2. CommandTyped'
    BY <2>1 DEF CommandInv, CommandTyped, Depth
  <2>3. Fetched' /\ Based'
    BY <1>0, <2>1 DEF Fetched, Based, Depth
  <2> QED
    BY <2>1, <2>2, <2>3 DEF CommandInv
<1>4. CASE ExecuteFails
  <2>1. /\ pc = "load" /\ Leaves /\ UNCHANGED <<arg_buf, programs>>
        /\ ~Loadable \/ Depth = PER_TERM
    BY <1>4 DEF ExecuteFails
  <2>2. Depth # 0
    BY <1>0, <2>1, ShellLoadable DEF Based
  <2>3. /\ pc' = "user" /\ command' \in Reaching
        /\ cmd_idx' \in 0..Len(command') /\ first_sp' \in BOOLEAN
        /\ frame' \in [Frame -> Cell]
    BY <2>1, LeavesTyped
  <2>4. CommandTyped'
    BY <1>0, <2>1, <2>3 DEF CommandTyped, Depth
  <2>5. Depth' = Depth
    BY <2>1 DEF Depth
  <2>6. Based'
    BY <1>0, <2>2, <2>5 DEF Based
  <2>7. Fetched'
    BY <1>0, <2>1, <2>5 DEF Fetched
  <2> QED
    BY <2>3, <2>4, <2>6, <2>7 DEF CommandInv
<1>5. CASE ProgramStarts
  <2>1. /\ pc = "load" /\ Leaves /\ Loadable /\ Depth < PER_TERM
        /\ arg_buf' = [arg_buf EXCEPT ![Depth + 1] = Text(argument_buffer)]
        /\ programs' = Append(programs, [entry |-> Entry, command |-> command])
    BY <1>5 DEF ProgramStarts, Stored
  <2>2. Entry \in DOMAIN Dir /\ command \in Line
    BY <2>1, EntryIs DEF Loadable, CommandInv, CommandTyped, Reaching
  <2>3. /\ Text(argument_buffer) \in {s \in Seq(Cell) : Len(s) < 2 * BUF}
        /\ Spaces(command) # {} => Text(argument_buffer) = Rest(command)
    BY <2>1, WordsCut
  <2>4. /\ programs' \in Seq([entry : DOMAIN Dir, command : Line])
        /\ Len(programs') = Depth + 1
        /\ \A n \in 1..Depth : programs'[n] = programs[n]
        /\ programs'[Depth + 1] = [entry |-> Entry, command |-> command]
    <3>1. PICK r \in [entry : DOMAIN Dir, command : Line] :
            r = [entry |-> Entry, command |-> command]
      BY <2>2
    <3>2. programs' = Append(programs, r)
      BY <2>1, <3>1
    <3> QED
      BY <1>0, <3>1, <3>2, AppendProperties
  <2>5. /\ arg_buf' \in [1..PER_TERM -> {s \in Seq(Cell) : Len(s) < 2 * BUF}]
        /\ \A n \in 1..Depth : arg_buf'[n] = arg_buf[n]
        /\ arg_buf'[Depth + 1] = Text(argument_buffer)
    <3>1. Depth + 1 \in 1..PER_TERM /\ \A n \in 1..Depth : n \in 1..PER_TERM /\ n # Depth + 1
      BY <1>0, <2>1
    <3> QED
      BY <1>0, <2>1, <2>3, <3>1
  <2>6. /\ pc' = "user" /\ command' \in Reaching
        /\ cmd_idx' \in 0..Len(command') /\ first_sp' \in BOOLEAN
        /\ frame' \in [Frame -> Cell]
    BY <2>1, LeavesTyped
  <2>7. Depth' = Depth + 1
    BY <2>4 DEF Depth
  <2>8. CommandTyped'
    <3>1. Depth' <= PER_TERM
      BY <1>0, <2>1, <2>7
    <3> QED
      BY <2>4, <2>5, <2>6, <3>1 DEF CommandTyped
  <2>9. Fetched'
    <3> SUFFICES ASSUME NEW n \in 1..(Depth + 1), Spaces(programs'[n].command) # {}
                 PROVE  arg_buf'[n] = Rest(programs'[n].command)
      BY <2>7 DEF Fetched, Spaces, Rest
    <3>1. CASE n \in 1..Depth
      BY <1>0, <2>4, <2>5, <3>1 DEF Fetched
    <3>2. CASE n = Depth + 1
      <4>1. programs'[n].command = command
        BY <2>4, <3>2
      <4> QED
        BY <2>3, <2>5, <3>2, <4>1
    <3> QED
      BY <1>0, <3>1, <3>2
  <2>10. Based'
    BY <1>0, <2>7 DEF Based
  <2> QED
    BY <2>6, <2>8, <2>9, <2>10 DEF CommandInv
<1>6. CASE HaltChild
  <2>1. /\ pc = "user" /\ Depth > 1 /\ programs' = SubSeq(programs, 1, Depth - 1)
        /\ UNCHANGED <<pc, command, cmd_idx, first_sp, arg_off, frame, arg_buf>>
    BY <1>6 DEF HaltChild, loopVars
  <2>2. PICK d \in Nat : d = Depth - 1
    BY <1>0, <2>1
  <2>3. /\ programs' \in Seq([entry : DOMAIN Dir, command : Line]) /\ Len(programs') = d
        /\ \A n \in 1..d : programs'[n] = programs[n]
    <3>1. /\ \A n \in 1..d : n \in 1..Depth /\ 1 + n - 1 = n
          /\ 1 <= d /\ d - 1 + 1 = d
      BY <1>0, <2>1, <2>2
    <3>2. \A n \in 1..d : programs[n] \in [entry : DOMAIN Dir, command : Line]
      BY <1>0, <3>1, ElementOfSeq
    <3> QED
      BY <2>1, <2>2, <3>1, <3>2, SubSeqProperties
  <2>4. Depth' = d /\ d >= 1 /\ d <= PER_TERM
    BY <1>0, <2>1, <2>2, <2>3 DEF Depth
  <2>5. CommandTyped'
    BY <2>1, <2>3, <2>4 DEF CommandInv, CommandTyped
  <2>6. Fetched'
    <3> SUFFICES ASSUME NEW n \in 1..d, Spaces(programs'[n].command) # {}
                 PROVE  arg_buf'[n] = Rest(programs'[n].command)
      BY <2>4 DEF Fetched, Spaces, Rest
    <3>1. n \in 1..Depth
      BY <1>0, <2>2
    <3>2. programs'[n] = programs[n]
      BY <2>3
    <3> QED
      BY <1>0, <2>1, <3>1, <3>2 DEF Fetched
  <2>7. Based'
    BY <2>4 DEF Based
  <2> QED
    BY <2>1, <2>5, <2>6, <2>7 DEF CommandInv
<1>7. CASE HaltShell
  <2>1. Called(SHELL) /\ programs' = << >> /\ UNCHANGED arg_buf
    BY <1>7 DEF HaltShell
  <2>2. /\ pc' = "parse" /\ command' = SHELL
        /\ cmd_idx' \in 0..Len(command') /\ first_sp' \in BOOLEAN
        /\ frame' \in [Frame -> Cell]
        /\ Cut' /\ NameCut'
    BY <2>1, CommandType, CalledCuts
  <2>3. programs' \in Seq([entry : DOMAIN Dir, command : Line]) /\ Depth' = 0
    BY <2>1 DEF Depth
  <2>4. CommandTyped'
    BY <1>0, <2>1, <2>2, <2>3, CommandType DEF CommandTyped
  <2>5. Fetched' /\ Based'
    BY <2>2, <2>3 DEF Fetched, Based
  <2> QED
    BY <2>2, <2>4, <2>5 DEF CommandInv
<1>8. CASE \/ \E nbytes \in NBYTES : getargs(nbytes)
           \/ \E name \in {text \in Command : Spaces(text) = {}} \cup {DOT} : open(name)
           \/ UNCHANGED vars
  <2>1. UNCHANGED <<pc, command, cmd_idx, first_sp, arg_off, frame, arg_buf,
                    programs>>
    BY <1>8 DEF getargs, open, vars, loopVars
  <2> QED
    BY <2>1 DEF CommandInv, CommandTyped, Fetched, Based, Depth, Cut, NameCut, CutDone, NoSpace, InWord
<1> QED
  BY <1>1, <1>2, <1>3, <1>4, <1>5, <1>6, <1>7, <1>8 DEF Next
\* The loop has cut the command right in every state, and the slots hold their
\* programs' arguments.
LEMMA CommandInvariant == Spec => []CommandInv
BY CommandInvInit, CommandInvStep, PTL DEF Spec

-----------------------------------------------------------------------------
(* Theorems about commands *)

\* A command whose parts fit, up to the last byte of both buffers, is kept within
\* them and its arguments out of its name; and what the PCB gets of any command
\* that spills no further than dentry_struct is shorter than both together.
THEOREM PartsStay == Spec => []PartsStayApart
<1>1. CommandInv => TypeOK
  BY DEF CommandInv, CommandTyped, Cell, TypeOK
<1>2. ASSUME CommandInv, pc # "user", Fits(command)
      PROVE  /\ \A k \in 2 * BUF..(2 * BUF + DENTRY - 1) : frame[k] = FOREIGN
             /\ pc = "load" => Text(exe_cmd) = FirstWord(command)
  <2>1. command \in Fitting
    BY <1>2 DEF CommandInv, CommandTyped, Reaching, Fitting
  <2> QED
    BY <1>2, <2>1, WordsCut DEF CommandInv, NameCut
<1>3. CommandInv => PartsStayApart
  BY <1>1, <1>2 DEF PartsStayApart
<1> QED
  BY <1>3, CommandInvariant, PTL

\* The name given to open is compared with whole names.
LEMMA OpenIs ==
  ASSUME NEW name \in Command \ {DOT}, open(name), Spaces(name) = {}
  PROVE  result'.entry \in IF NamedBy(name) = {} THEN {-1} ELSE NamedBy(name)
<1>1. name \in Line /\ Len(name) \in Nat
  BY CommandType, LenProperties DEF Reaching, Line
<1>2. \A k \in 1..Len(name) : name[k] \in Letter
  <2>1. DOMAIN name = 1..Len(name) /\ \A k \in 1..Len(name) : name[k] \in Letter \cup {SP}
    BY <1>1, ElementOfSeq, LenProperties DEF Line
  <2> QED
    BY <2>1 DEF Spaces
<1>3. ASSUME NEW S, Letter \subseteq S
      PROVE  name \in Seq(S)
  <2>1. name \in [1..Len(name) -> S]
    BY <1>1, <1>2, <1>3, LenProperties DEF Line
  <2> QED
    BY <1>1, <2>1, SeqDef
<1>4. name \in Seq(Letter)
  BY <1>3
<1> DEFINE mem == Memory(name, Len(name) + FNAME)
<1>5. Holds(mem, name)
  BY <1>1, Sizes DEF Holds, Memory
<1>6. ~SameName(Memory(DOT, FNAME), mem)
  <2> DEFINE S == Letter \cup {"."}
  <2>1. NUL \notin S
    BY Letters DEF NUL
  <2>2. DOT \in Seq(S) /\ Len(DOT) < FNAME
    BY Sizes DEF DOT
  <2>3. name \in Seq(S)
    BY <1>3
  <2> HIDE DEF S, mem
  <2>4. SameName(Memory(DOT, FNAME), mem) <=> DOT = name
    BY <1>5, <2>1, <2>2, <2>3, SameNameIs
  <2> QED
    BY <2>4
<1>7. result' = [entry |-> Lookup(mem)]
  BY <1>6 DEF open
<1> HIDE DEF mem
<1>8. Lookup(mem) \in IF NamedBy(name) = {} THEN {-1} ELSE NamedBy(name)
  BY <1>4, <1>5, LookupIs
<1> QED
  BY <1>7, <1>8

\* For every command whose parts fit in the buffers, the program that runs is the
\* one that the first word names, and it is refused for its name only if no
\* program has it; and open finds the file of exactly the name given to it.
THEOREM NamesFound == Spec => FoundByName
<1> DEFINE Found ==
       /\ ProgramStarts /\ Fits(command) =>
            LET p == programs'[Depth + 1]
            IN  p.entry \in NamedBy(FirstWord(p.command)) /\ Dir[p.entry].program
       /\ ExecuteFails /\ Fits(command) =>
            Depth = PER_TERM \/ \A n \in NamedBy(FirstWord(command)) : ~Dir[n].program
       /\ \A name \in Command \ {DOT} : open(name) /\ Spaces(name) = {} =>
            result'.entry \in IF NamedBy(name) = {} THEN {-1} ELSE NamedBy(name)
<1>1. CommandInv /\ [Next]_vars => [Found]_vars
  <2> SUFFICES ASSUME CommandInv
               PROVE  Found
    OBVIOUS
  <2>1. ASSUME ProgramStarts, Fits(command)
        PROVE  /\ programs'[Depth + 1].entry \in NamedBy(FirstWord(programs'[Depth + 1].command))
               /\ Dir[programs'[Depth + 1].entry].program
    <3>1. /\ pc = "load" /\ Loadable
          /\ programs' = Append(programs, [entry |-> Entry, command |-> command])
      BY <2>1 DEF ProgramStarts
    <3>2. /\ programs \in Seq([entry : DOMAIN Dir, command : Line]) /\ command \in Line
          /\ command \in Fitting
      BY <2>1 DEF CommandInv, CommandTyped, Reaching, Fitting
    <3>3. Entry \in NamedBy(FirstWord(command)) /\ Entry \in DOMAIN Dir /\ Dir[Entry].program
      BY <3>1, <3>2, EntryIs DEF Loadable
    <3>4. PICK r \in [entry : DOMAIN Dir, command : Line] :
            r = [entry |-> Entry, command |-> command]
      BY <3>2, <3>3
    <3>5. programs'[Depth + 1] = r
      BY <3>1, <3>2, <3>4, AppendProperties DEF Depth
    <3>6. r.entry = Entry /\ r.command = command
      BY <3>4
    <3> QED
      BY <3>3, <3>5, <3>6
  <2>2. ASSUME ExecuteFails, Fits(command), Depth # PER_TERM
        PROVE  \A n \in NamedBy(FirstWord(command)) : ~Dir[n].program
    <3>1. pc = "load" /\ ~Loadable
      BY <2>2 DEF ExecuteFails
    <3>2. command \in Fitting
      BY <2>2 DEF CommandInv, CommandTyped, Reaching, Fitting
    <3>3. CASE Entry = -1
      BY <3>1, <3>2, <3>3, EntryIs
    <3>4. CASE Entry # -1
      <4>1. Entry \in NamedBy(FirstWord(command)) /\ ~Dir[Entry].program
        BY <3>1, <3>2, <3>4, EntryIs DEF Loadable
      <4> QED
        BY <4>1, CommandBounds DEF NamedBy
    <3> QED
      BY <3>3, <3>4
  <2> QED
    BY <2>1, <2>2, OpenIs
<1> QED
  BY <1>1, CommandInvariant, PTL DEF Spec, FoundByName
\* getargs gives a program what followed the first space of its own command,
\* whatever it has executed since and whoever had its slot before.
THEOREM ArgumentsReachPrograms == Spec => ArgumentsDelivered
<1>1. CommandInv /\ [Next]_vars
      => [\A nbytes \in NBYTES : getargs(nbytes) /\ Spaces(programs[Depth].command) # {} =>
            result'.text = Rest(programs[Depth].command)]_vars
  <2> SUFFICES ASSUME CommandInv, NEW nbytes \in NBYTES, getargs(nbytes),
                      Spaces(programs[Depth].command) # {}
               PROVE  result'.text = Rest(programs[Depth].command)
    OBVIOUS
  <2>1. pc = "user" /\ result' = [text |-> arg_buf[Depth]]
    BY DEF getargs
  <2>2. Depth \in 1..Depth
    BY <2>1, LenProperties DEF CommandInv, CommandTyped, Based, Depth
  <2>3. arg_buf[Depth] = Rest(programs[Depth].command)
    BY <2>2 DEF CommandInv, Fetched
  <2> QED
    BY <2>1, <2>3
<1> QED
  BY <1>1, CommandInvariant, PTL DEF Spec, ArgumentsDelivered
=============================================================================

------------------------------ MODULE FileReading ------------------------------
(***************************************************************************)
(* file_read on one descriptor, and the loading of a program by execute:   *)
(* the copy loops of read_data_by_ptr and read_data, byte by byte.         *)
(*                                                                         *)
(* The two loops are the same but for one more condition in read_data's.   *)
(* A system call runs with IF = 0 and an inode is never written, so that   *)
(* nothing else moves while a loop runs: the steps are there for the loop. *)
(* A reader goes on until it is given 0 or -1, as programs do.             *)
(*                                                                         *)
(* A data byte is its place, <<block number, index>>.  The image is laid   *)
(* out by another program (createfs): numbers of used blocks are valid and *)
(* unused entries of block_num are 0.  Behind the array lies the length of *)
(* the next inode.                                                         *)
(***************************************************************************)
EXTENDS Integers, Sequences

CONSTANTS
    block_pad,      \* bytes of a data block (4096)
    MAX_BLOCKS,     \* entries of block_num (1023)
    num_data,       \* boot_block->num_data
    Length,         \* the lengths of files
    NextLength,     \* the lengths of the file with the next inode
    READ_SIZES,     \* the values of nbytes that readers use
    WORD            \* 2^32: fpos is unsigned

ASSUME ReadingBounds ==
    /\ block_pad \in Nat \ {0}
    /\ MAX_BLOCKS \in Nat \ {0}
    /\ num_data \in Nat \ {0}
    /\ Length \subseteq 0..(MAX_BLOCKS * block_pad)
    /\ NextLength \subseteq Nat
    /\ READ_SIZES \subseteq Nat \ {0}
    /\ WORD \in Nat /\ WORD > MAX_BLOCKS * block_pad

DataBlock == 0..(num_data - 1)
DataByte == DataBlock \X (0..(block_pad - 1))
\* The blocks that a file of this length uses.
UsedBlocks(len) == {b \in 0..(MAX_BLOCKS - 1) : b * block_pad < len}

Inode == UNION {
    [length : {len},
     block_num : {f \in [0..MAX_BLOCKS -> DataBlock \cup NextLength] :
        /\ f[MAX_BLOCKS] \in NextLength
        /\ \A b \in 0..(MAX_BLOCKS - 1) :
            IF b \in UsedBlocks(len) THEN f[b] \in DataBlock ELSE f[b] = 0}] :
    len \in Length}

VARIABLES
    inode,              \* the file
    fpos,               \* fd_array[fd].fpos
    caller,             \* who runs the loop: "none", "file_read" or "execute"
    offset, length,     \* the loop's parameters
    buf,                \* what it has put into buf: length_read is its length
    data_block_index,
    data_index,
    ret,                \* what file_read returned last
    got,                \* history: the bytes that file_read has returned
    image               \* the memory into which execute loads the file

copyVars == <<offset, length, buf, data_block_index, data_index>>
readingVars == <<inode, fpos, caller, copyVars, ret, got, image>>

length_read == Len(buf)

\* The loop's variables are gone when it has returned.
LeaveLoop ==
    /\ caller' = "none"
    /\ offset' = 0 /\ length' = 0 /\ buf' = << >>
    /\ data_block_index' = 0 /\ data_index' = 0

ReadingInit ==
    /\ inode \in Inode
    /\ fpos = 0
    /\ caller = "none"
    /\ offset = 0 /\ length = 0 /\ buf = << >>
    /\ data_block_index = 0 /\ data_index = 0
    /\ ret = 1              \* nothing read yet
    /\ got = << >>
    /\ image = << >>

-----------------------------------------------------------------------------

\* The index of the first byte, forgetting that a read may begin inside a block.
StartOfBlock(from) == 0

StartIndex(from) == from % block_pad

Begin(who, from, n) ==
    /\ caller = "none"
    /\ caller' = who
    /\ offset' = from
    /\ length' = n
    /\ data_block_index' = from \div block_pad
    /\ data_index' = StartIndex(from)
    /\ UNCHANGED <<inode, fpos, buf, ret, got, image>>

FileRead(n) == ret > 0 /\ Begin("file_read", fpos, n)

LoadImage == image = << >> /\ Begin("execute", 0, inode.length)

\* Refuses the last block of the image as well.
BadBlockInclusive(b) == inode.block_num[b] >= num_data - 1

BadBlock(b) == inode.block_num[b] >= num_data

\* The test of the block's number: at the start, and on entering another block.
Failed ==
    /\ offset < inode.length
    /\ buf = << >> \/ data_index = 0
    /\ BadBlock(data_block_index)

\* The condition of the while loop; the last conjunct is read_data's alone.
More ==
    /\ length_read < length
    /\ offset + length_read < inode.length
    /\ caller = "execute" => data_block_index < MAX_BLOCKS

LeavesBlock(index) == index = block_pad

Copy ==
    /\ caller # "none"
    /\ ~Failed /\ More
    /\ buf' = Append(buf, <<inode.block_num[data_block_index], data_index>>)
    /\ IF LeavesBlock(data_index + 1)
       THEN data_index' = 0 /\ data_block_index' = data_block_index + 1
       ELSE data_index' = data_index + 1 /\ UNCHANGED data_block_index
    /\ UNCHANGED <<inode, fpos, caller, offset, length, ret, got, image>>

Ended == Failed \/ ~More
Result == IF Failed THEN -1 ELSE length_read

\* fpos moves by whatever the loop returned, -1 included.
Moved(r) == (fpos + r) % WORD

ReadEnds ==
    /\ caller = "file_read"
    /\ Ended
    /\ ret' = Result
    /\ fpos' = Moved(Result)
    /\ got' = IF Result > 0 THEN got \o buf ELSE got
    /\ LeaveLoop
    /\ UNCHANGED <<inode, image>>

\* execute does not look at the result.
LoadEnds ==
    /\ caller = "execute"
    /\ Ended
    /\ image' = buf
    /\ LeaveLoop
    /\ UNCHANGED <<inode, fpos, ret, got>>

ReadingNext ==
    \/ \E n \in READ_SIZES : FileRead(n)
    \/ LoadImage \/ Copy \/ ReadEnds \/ LoadEnds

\* A program that has read the whole file stops.
ReadingSpec == ReadingInit /\ [][ReadingNext]_readingVars

-----------------------------------------------------------------------------
(* Properties *)

\* The bytes of the file: those of its blocks one after the other, as many as
\* its length says.
Contents ==
    [k \in 1..inode.length |->
        <<inode.block_num[(k - 1) \div block_pad], (k - 1) % block_pad>>]

Stream == INSTANCE FileStream WITH
    Byte <- DataByte, NBYTES <- READ_SIZES,
    file <- Contents, delivered <- got, loaded <- image

\* Every variable stays in its range; the loop never stands outside a block.
ReadingTypeOK ==
    /\ inode \in Inode
    /\ fpos \in 0..(WORD - 1)
    /\ caller \in {"none", "file_read", "execute"}
    /\ offset \in Nat /\ length \in Nat
    /\ buf \in Seq(DataByte) /\ got \in Seq(DataByte) /\ image \in Seq(DataByte)
    /\ data_block_index \in 0..MAX_BLOCKS
    /\ data_index \in 0..(block_pad - 1)
    /\ ret \in Int

\* "So we could have up to 1024-1 block num" (file_helper.h:16): a reader that
\* goes on until file_read returns no byte has then read the whole file, and
\* was not stopped by an error.
EndsOnlyAtEnd == ReadingTypeOK /\ (ret <= 0 => ret = 0 /\ got = Contents)

\* "returning the number of tyes read and plcaed in the buffer"
\* (file_helper.c:188): reads give the file's bytes in order, as many as were
\* asked for while there are that many, and a program is loaded whole.
ImplementsStream == Stream!Spec
=============================================================================

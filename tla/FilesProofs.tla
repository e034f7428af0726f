------------------------------ MODULE FilesProofs ------------------------------
(***************************************************************************)
(* Proofs about Files, for every number of slots, terminals, descriptors   *)
(* and directory entries.  The process table is that of Processes, whose   *)
(* invariant IInv holds here too; what is added is that a slot that nobody *)
(* holds has every descriptor closed, and where a listing of the directory *)
(* stands.                                                                 *)
(***************************************************************************)
EXTENDS Files, ProcessesProofs

\* A descriptor table that a program starts with, and goes on with.
Streams ==
    \A p \in Pid : pid_used[p] =>
        \A fd \in Fd :
            /\ fd = 0 <=> fd_array[p][fd].fops = "stdin"
            /\ fd = 1 <=> fd_array[p][fd].fops = "stdout"

FInv == FilesTypeOK /\ FreshDescriptors /\ Streams

-----------------------------------------------------------------------------
(* The steps of Files are steps of Processes *)

\* Each call on descriptors leaves the process table alone; the rest are its steps.
LEMMA FilesStep == [FNext]_fvars => [Next]_vars
<1> SUFFICES ASSUME FNext, UNCHANGED vars \/ TRUE PROVE [Next]_vars
  BY DEF fvars
<1>1. CASE FStart \/ FHalt \/ FOther
  BY <1>1 DEF FStart, FHalt, FOther, Next
<1>2. CASE \E type \in FileType : Open(type)
  BY <1>2 DEF Open
<1>3. CASE \E fd \in Fd : \/ Close(fd) \/ DirReadSelf(fd) \/ DirReadEntry(fd) \/ DirReadEnd(fd)
                          \/ \E n \in NBYTES : FileRead(fd, n)
  BY <1>3 DEF Close, DirReadSelf, DirReadEntry, DirReadEnd, FileRead
<1> QED
  BY <1>1, <1>2, <1>3 DEF FNext

\* The process table of Files keeps the invariant of Processes.
LEMMA FilesInvariance == FSpec => []IInv
<1>1. FInit => IInv
  BY InitInv DEF FInit
<1>2. IInv /\ [FNext]_fvars => IInv'
  BY FilesStep, StepInv
<1> QED
  BY <1>1, <1>2, PTL DEF FSpec

-----------------------------------------------------------------------------
(* Descriptors *)

\* open gives the running process the descriptor fd.
Opened(type, fd) ==
    /\ Open(type)
    /\ fd \notin {0, 1}
    /\ mine[fd].fops = "none"
    /\ fd_array' = [fd_array EXCEPT ![pid_num][fd] = Fresh(type)]
    /\ listing' = [listing EXCEPT ![pid_num][fd] = << >>]

\* open gives a free descriptor of the running process, never 0 or 1.
LEMMA OpenGives ==
  ASSUME NEW type \in FileType, Open(type)
  PROVE  \E fd \in Fd : Opened(type, fd)
<1>1. PICK fd \in 2..(FD_MAX - 1) :
         /\ mine[fd].fops = "none"
         /\ fd_array' = [fd_array EXCEPT ![pid_num][fd] = Fresh(type)]
         /\ listing' = [listing EXCEPT ![pid_num][fd] = << >>]
  BY DEF Open
<1>2. fd \in Fd /\ fd \notin {0, 1}
  BY FileBounds DEF Fd
<1> QED
  BY <1>1, <1>2 DEF Opened

\* What the descriptors are after a program was started in slot p.
LEMMA StartStep ==
  ASSUME IInv, FInv, FStart
  PROVE  \E p \in Pid :
            /\ ~pid_used[p] /\ pid_num' = p
            /\ pid_used' = [pid_used EXCEPT ![p] = TRUE]
            /\ fd_array' = [fd_array EXCEPT ![p] = [fd \in Fd |->
                    IF fd = 0 THEN Fresh("stdin")
                    ELSE IF fd = 1 THEN Fresh("stdout") ELSE CLOSED]]
            /\ UNCHANGED <<dirVars, listing>>
<1>1. PICK isShell \in BOOLEAN : StartProcess(isShell)
  BY DEF FStart, BootShell, StartShell, RespawnShell, Execute
<1>2. PICK p \in Pid : FirstFree(p) /\ Occupy(p, isShell)
  BY <1>1 DEF StartProcess
<1>3. ~pid_used[p] /\ pid_num' = p /\ pid_used' = [pid_used EXCEPT ![p] = TRUE]
  BY <1>2 DEF FirstFree, FreePids, Occupy
<1>4. fd_array[p] = [fd \in Fd |-> CLOSED] /\ 0 \in Fd /\ 1 \in Fd
  BY <1>3, FileBounds DEF FInv, FilesTypeOK, FreshDescriptors, Fd
<1>5. fd_array' = [fd_array EXCEPT ![p][0] = Fresh("stdin"), ![p][1] = Fresh("stdout")]
  BY <1>3 DEF FStart
<1>6. fd_array' = [fd_array EXCEPT ![p] = [fd \in Fd |->
            IF fd = 0 THEN Fresh("stdin")
            ELSE IF fd = 1 THEN Fresh("stdout") ELSE CLOSED]]
  <2>1. fd_array' = [fd_array EXCEPT ![p] =
            [fd_array[p] EXCEPT ![0] = Fresh("stdin"), ![1] = Fresh("stdout")]]
    BY <1>5 DEF FInv, FilesTypeOK
  <2>2. [fd_array[p] EXCEPT ![0] = Fresh("stdin"), ![1] = Fresh("stdout")] =
            [fd \in Fd |-> IF fd = 0 THEN Fresh("stdin")
                           ELSE IF fd = 1 THEN Fresh("stdout") ELSE CLOSED]
    BY <1>4
  <2> QED
    BY <2>1, <2>2
<1> QED
  BY <1>3, <1>6 DEF FStart

\* What they are after the program in slot pid_num has ended.
LEMMA HaltStep ==
  ASSUME IInv, FInv, FHalt
  PROVE  /\ pid_num \in Pid
         /\ pid_used' = [pid_used EXCEPT ![pid_num] = FALSE]
         /\ fd_array' = [fd_array EXCEPT ![pid_num] = [fd \in Fd |-> CLOSED]]
         /\ listing' = [listing EXCEPT ![pid_num] = [fd \in Fd |-> << >>]]
         /\ UNCHANGED dirVars
<1>1. pc = "run" /\ pid_used' = [pid_used EXCEPT ![pid_num] = FALSE]
  BY DEF FHalt, HaltChild, HaltShell, Release
<1>2. pid_num \in Pid
  BY <1>1, CurrentIsDeepest
<1>3. LeftByHalt(pid_num) = [fd \in Fd |-> CLOSED]
  BY DEF LeftByHalt, AfterClose
<1> QED
  BY <1>1, <1>2, <1>3 DEF FHalt, ClosedFor

\* open, close and file_read change one descriptor of the running process, and
\* no stream: what open gives is above 1, and close refuses 0 and 1.
LEMMA CallStep ==
  ASSUME IInv, FInv,
         NEW fd \in Fd,
         \/ \E type \in FileType : Opened(type, fd)
         \/ Close(fd)
         \/ \E n \in NBYTES : FileRead(fd, n)
  PROVE  /\ UNCHANGED <<vars, dirVars>>
         /\ pid_num \in Pid /\ pid_used[pid_num]
         /\ \/ fd_array' = fd_array
            \/ fd \notin {0, 1} /\ \E d \in Descriptor :
                  /\ d.fops \notin {"stdin", "stdout"}
                  /\ fd_array' = [fd_array EXCEPT ![pid_num][fd] = d]
<1>1. pc = "run" /\ UNCHANGED <<vars, dirVars>>
  BY DEF Opened, Open, Close, FileRead, ReadThrough
<1>2. pid_num \in Pid /\ pid_used[pid_num]
  BY <1>1, CurrentIsDeepest
<1>3. fd_array[pid_num][fd] \in Descriptor
  BY <1>2 DEF FInv, FilesTypeOK
<1>4. ASSUME NEW type \in FileType, Opened(type, fd)
      PROVE  fd \notin {0, 1} /\ \E d \in Descriptor :
                  /\ d.fops \notin {"stdin", "stdout"}
                  /\ fd_array' = [fd_array EXCEPT ![pid_num][fd] = d]
  <2>1. Fresh(type) \in Descriptor /\ Fresh(type).fops \notin {"stdin", "stdout"}
    BY FileBounds DEF Fresh, Descriptor, FileType, Fops
  <2> QED
    BY <1>4, <2>1 DEF Opened
<1>5. ASSUME Close(fd)
      PROVE  \/ fd_array' = fd_array
             \/ fd \notin {0, 1} /\ \E d \in Descriptor :
                  /\ d.fops \notin {"stdin", "stdout"}
                  /\ fd_array' = [fd_array EXCEPT ![pid_num][fd] = d]
  <2>1. CLOSED \in Descriptor /\ CLOSED.fops \notin {"stdin", "stdout"}
    BY FileBounds DEF CLOSED, Descriptor, Fops
  <2>2. fd_array' = [fd_array EXCEPT ![pid_num][fd] =
                        AfterClose(pid_used[pid_num], fd, fd_array[pid_num][fd])]
    BY <1>5 DEF Close
  <2>3. CASE fd \in {0, 1}
    <3>1. AfterClose(pid_used[pid_num], fd, fd_array[pid_num][fd]) = fd_array[pid_num][fd]
      BY <1>2, <2>3 DEF AfterClose
    <3> QED
      BY <2>2, <3>1, <1>2 DEF FInv, FilesTypeOK
  <2>4. CASE fd \notin {0, 1}
    <3>1. AfterClose(pid_used[pid_num], fd, fd_array[pid_num][fd]) = CLOSED
      BY <1>5, <2>4 DEF AfterClose, Close, mine, Fd
    <3> QED
      BY <2>1, <2>2, <2>4, <3>1
  <2> QED
    BY <2>3, <2>4
<1>6. ASSUME NEW n \in NBYTES, FileRead(fd, n)
      PROVE  fd \notin {0, 1} /\ \E d \in Descriptor :
                  /\ d.fops \notin {"stdin", "stdout"}
                  /\ fd_array' = [fd_array EXCEPT ![pid_num][fd] = d]
  <2> DEFINE old == fd_array[pid_num][fd]
             d == [old EXCEPT !.fpos = IF @ + n < FILE_SIZE THEN @ + n ELSE FILE_SIZE]
  <2>1. old.fops = "file"
    BY <1>6 DEF FileRead, ReadThrough, mine
  <2>2. fd \notin {0, 1}
    BY <1>2, <2>1 DEF FInv, Streams
  <2>3. d \in Descriptor /\ d.fops = "file"
    BY <1>3, <2>1, FileBounds DEF Descriptor
  <2>4. fd_array' = [fd_array EXCEPT ![pid_num][fd] = d]
    BY <1>6, <1>2, <1>3 DEF FileRead, FInv, FilesTypeOK, Descriptor
  <2> QED
    BY <2>2, <2>3, <2>4
<1> QED
  BY <1>1, <1>2, <1>4, <1>5, <1>6

\* The calls that move the directory cursor and leave the descriptors alone.
DirRead == \E fd \in Fd : DirReadSelf(fd) \/ DirReadEntry(fd) \/ DirReadEnd(fd)

\* A read of the directory moves only the cursor and the listing.
LEMMA DirReadStep ==
  ASSUME IInv, FInv, DirRead
  PROVE  /\ UNCHANGED <<vars, fd_array>>
         /\ dir_index' \in 0..(NUM_DIR - 1)
         /\ dir_itself_read' \in BOOLEAN
<1>1. dir_index \in 0..(NUM_DIR - 1) /\ dir_itself_read \in BOOLEAN
  BY DEF FInv, FilesTypeOK
<1>2. ASSUME NEW fd \in Fd, DirReadSelf(fd)
      PROVE  UNCHANGED <<vars, fd_array, dir_index>> /\ dir_itself_read' = TRUE
  BY <1>2 DEF DirReadSelf
<1>3. ASSUME NEW fd \in Fd, DirReadEntry(fd)
      PROVE  /\ UNCHANGED <<vars, fd_array, dir_itself_read>>
             /\ dir_index + 1 # NUM_DIR /\ dir_index' = dir_index + 1
  BY <1>3 DEF DirReadEntry, AtEnd
<1>4. ASSUME NEW fd \in Fd, DirReadEnd(fd)
      PROVE  UNCHANGED <<vars, fd_array>> /\ dir_index' = 0 /\ dir_itself_read' = FALSE
  BY <1>4 DEF DirReadEnd
<1>5. dir_index + 1 # NUM_DIR => dir_index + 1 \in 0..(NUM_DIR - 1)
  BY <1>1, FileBounds
<1>6. 0 \in 0..(NUM_DIR - 1)
  BY FileBounds
<1> QED
  BY <1>1, <1>2, <1>3, <1>4, <1>5, <1>6 DEF DirRead

\* The descriptors of all slots after a call of the running process.
LEMMA CallInv ==
  ASSUME IInv, FInv, UNCHANGED <<vars, dirVars>>, pid_num \in Pid, pid_used[pid_num],
         NEW fd \in Fd, fd \notin {0, 1}, NEW d \in Descriptor,
         d.fops \notin {"stdin", "stdout"},
         fd_array' = [fd_array EXCEPT ![pid_num][fd] = d]
  PROVE  FInv'
<1>1. fd_array \in [Pid -> [Fd -> Descriptor]]
  BY DEF FInv, FilesTypeOK
<1>2. fd_array' \in [Pid -> [Fd -> Descriptor]]
  BY <1>1
<1>3. \A p \in Pid, g \in Fd :
        fd_array'[p][g] = IF p = pid_num /\ g = fd THEN d ELSE fd_array[p][g]
  BY <1>1
<1>4. FilesTypeOK' /\ pid_used' = pid_used /\ pid_num' = pid_num
  BY <1>2 DEF FInv, FilesTypeOK, dirVars, vars, procVars
<1>5. FreshDescriptors'
  BY <1>3, <1>4 DEF FInv, FreshDescriptors
<1>6. Streams'
  BY <1>3, <1>4 DEF FInv, Streams
<1> QED
  BY <1>4, <1>5, <1>6 DEF FInv

\* The descriptors of free slots stay closed, those of programs keep their streams.
LEMMA FilesInv == IInv /\ FInv /\ [FNext]_fvars => FInv'
<1> SUFFICES ASSUME IInv, FInv, [FNext]_fvars PROVE FInv'
  OBVIOUS
<1>0. fd_array \in [Pid -> [Fd -> Descriptor]] /\ pid_used \in [Pid -> BOOLEAN]
  BY DEF FInv, FilesTypeOK, IInv, TypeOK
<1>1. CASE FStart
  <2>1. PICK p \in Pid :
            /\ ~pid_used[p] /\ pid_num' = p
            /\ pid_used' = [pid_used EXCEPT ![p] = TRUE]
            /\ fd_array' = [fd_array EXCEPT ![p] = [fd \in Fd |->
                    IF fd = 0 THEN Fresh("stdin")
                    ELSE IF fd = 1 THEN Fresh("stdout") ELSE CLOSED]]
            /\ UNCHANGED <<dirVars, listing>>
    BY <1>1, StartStep
  <2>2. /\ Fresh("stdin") \in Descriptor /\ Fresh("stdout") \in Descriptor /\ CLOSED \in Descriptor
        /\ Fresh("stdin").fops = "stdin" /\ Fresh("stdout").fops = "stdout" /\ CLOSED.fops = "none"
    BY FileBounds DEF Fresh, CLOSED, Descriptor, Fops
  <2>3. \A fd \in Fd : fd_array'[p][fd] =
            IF fd = 0 THEN Fresh("stdin") ELSE IF fd = 1 THEN Fresh("stdout") ELSE CLOSED
    BY <1>0, <2>1
  <2>4. \A q \in Pid : q # p => fd_array'[q] = fd_array[q] /\ pid_used'[q] = pid_used[q]
    BY <1>0, <2>1
  <2>5. pid_used'[p]
    BY <1>0, <2>1
  <2>6. FilesTypeOK'
    <3>1. fd_array' \in [Pid -> [Fd -> Descriptor]]
      BY <1>0, <2>1, <2>2
    <3> QED
      BY <2>1, <3>1 DEF FInv, FilesTypeOK, dirVars
  <2>7. FreshDescriptors'
    BY <2>4, <2>5 DEF FInv, FreshDescriptors
  <2>8. Streams'
    <3>1. \A q \in Pid : pid_used'[q] /\ q # p =>
            \A fd \in Fd : /\ fd = 0 <=> fd_array'[q][fd].fops = "stdin"
                           /\ fd = 1 <=> fd_array'[q][fd].fops = "stdout"
      BY <2>4 DEF FInv, Streams
    <3>2. \A fd \in Fd : /\ fd = 0 <=> fd_array'[p][fd].fops = "stdin"
                         /\ fd = 1 <=> fd_array'[p][fd].fops = "stdout"
      BY <2>2, <2>3
    <3> QED
      BY <3>1, <3>2 DEF Streams
  <2> QED
    BY <2>6, <2>7, <2>8 DEF FInv
<1>2. CASE FHalt
  <2>1. /\ pid_num \in Pid
        /\ pid_used' = [pid_used EXCEPT ![pid_num] = FALSE]
        /\ fd_array' = [fd_array EXCEPT ![pid_num] = [fd \in Fd |-> CLOSED]]
        /\ UNCHANGED dirVars
    BY <1>2, HaltStep
  <2>2. CLOSED \in Descriptor
    BY FileBounds DEF CLOSED, Descriptor
  <2>3. \A q \in Pid : q # pid_num => fd_array'[q] = fd_array[q] /\ pid_used'[q] = pid_used[q]
    BY <1>0, <2>1
  <2>4. ~pid_used'[pid_num] /\ \A fd \in Fd : fd_array'[pid_num][fd] = CLOSED
    BY <1>0, <2>1
  <2>5. FilesTypeOK'
    <3>1. fd_array' \in [Pid -> [Fd -> Descriptor]]
      BY <1>0, <2>1, <2>2
    <3> QED
      BY <2>1, <3>1 DEF FInv, FilesTypeOK, dirVars
  <2>6. FreshDescriptors'
    BY <2>3, <2>4 DEF FInv, FreshDescriptors
  <2>7. Streams'
    BY <2>3, <2>4 DEF FInv, Streams
  <2> QED
    BY <2>5, <2>6, <2>7 DEF FInv
<1>3. CASE FOther \/ UNCHANGED fvars
  <2>1. pid_used' = pid_used /\ UNCHANGED fdVars
    BY <1>3 DEF FOther, StartFails, ExecuteNoProgram, ExecuteNoSlot, Crashed,
                SwitchToRunning, SwitchToNew, Resume, procVars, vars, fvars
  <2> QED
    BY <2>1 DEF fdVars, dirVars, FInv, FilesTypeOK, FreshDescriptors, Streams
<1>4. CASE DirRead
  <2>1. pid_used' = pid_used /\ fd_array' = fd_array
    BY <1>4, DirReadStep DEF vars, procVars
  <2> QED
    BY <1>4, <2>1, DirReadStep DEF FInv, FilesTypeOK, FreshDescriptors, Streams
<1>5. ASSUME NEW fd \in Fd,
             \/ \E type \in FileType : Opened(type, fd)
             \/ Close(fd)
             \/ \E n \in NBYTES : FileRead(fd, n)
      PROVE  FInv'
  <2>1. UNCHANGED <<vars, dirVars>> /\ pid_num \in Pid /\ pid_used[pid_num]
    BY <1>5, CallStep
  <2>2. CASE fd_array' = fd_array
    BY <2>1, <2>2 DEF vars, procVars, dirVars, FInv, FilesTypeOK, FreshDescriptors, Streams
  <2>3. CASE fd \notin {0, 1} /\ \E d \in Descriptor :
                  /\ d.fops \notin {"stdin", "stdout"}
                  /\ fd_array' = [fd_array EXCEPT ![pid_num][fd] = d]
    BY <2>1, <2>3, CallInv
  <2> QED
    BY <1>5, <2>2, <2>3, CallStep
<1>6. CASE \E type \in FileType : Open(type)
  BY <1>5, <1>6, OpenGives
<1> QED
  BY <1>1, <1>2, <1>3, <1>4, <1>5, <1>6 DEF FNext, DirRead

\* No descriptor is open in memory that is zero.
LEMMA FilesInitInv == FInit => FInv
<1> SUFFICES ASSUME FInit PROVE FInv
  OBVIOUS
<1>1. CLOSED \in Descriptor
  BY FileBounds DEF CLOSED, Descriptor
<1>2. /\ fd_array = [p \in Pid |-> [fd \in Fd |-> CLOSED]]
      /\ pid_used = [p \in Pid |-> FALSE]
      /\ dir_index = 0 /\ dir_itself_read = FALSE
  BY DEF FInit, Init
<1>3. 0 \in 0..(NUM_DIR - 1)
  BY FileBounds
<1> QED
  BY <1>1, <1>2, <1>3 DEF FInv, FilesTypeOK, FreshDescriptors, Streams

\* The two invariants hold in every state.
LEMMA FilesAlways == FSpec => [](IInv /\ FInv)
<1>1. FInit => FInv
  BY FilesInitInv
<1>2. IInv /\ FInv /\ [FNext]_fvars => FInv'
  BY FilesInv
<1> QED
  BY <1>1, <1>2, FilesInvariance, PTL DEF FSpec

\* A program finds every descriptor of the slot it gets closed, although execute
\* opens two of them and leaves the rest as they are: halt closed them all.
THEOREM DescriptorsFresh == FSpec => []FreshDescriptors
<1>1. FInv => FreshDescriptors
  BY DEF FInv
<1> QED
  BY <1>1, FilesAlways, PTL

\* As long as it lives a process has stdin at 0 and stdout at 1 and nowhere
\* else, and descriptors and the directory cursor stay in their ranges.
THEOREM StreamsOpen == FSpec => []StandardStreams
<1>1. FInv => StandardStreams
  BY DEF FInv, StandardStreams, Streams
<1> QED
  BY <1>1, FilesAlways, PTL

\* Whoever runs, ends or takes a slot, a suspended process keeps its descriptors
\* and their positions: execute writes to a slot that was free, halt and the
\* calls of open, close and read to the slot of the process that makes them.
THEOREM DescriptorsKept == FSpec => SuspendedKeepDescriptors
<1>1. ASSUME IInv, FInv, [FNext]_fvars, NEW p \in Pid, pid_used[p], p # pid_num
      PROVE  fd_array'[p] = fd_array[p]
  <2>0. fd_array \in [Pid -> [Fd -> Descriptor]]
    BY <1>1 DEF FInv, FilesTypeOK
  <2>1. CASE FStart
    BY <1>1, <2>0, <2>1, StartStep
  <2>2. CASE FHalt
    BY <1>1, <2>0, <2>2, HaltStep
  <2>3. CASE FOther \/ UNCHANGED fvars
    BY <2>3 DEF FOther, fvars, fdVars
  <2>4. CASE DirRead
    BY <1>1, <2>4, DirReadStep
  <2>5. ASSUME NEW fd \in Fd,
               \/ \E type \in FileType : Opened(type, fd)
               \/ Close(fd)
               \/ \E n \in NBYTES : FileRead(fd, n)
        PROVE  fd_array'[p] = fd_array[p]
    BY <1>1, <2>0, <2>5, CallStep
  <2>6. CASE \E type \in FileType : Open(type)
    BY <2>5, <2>6, OpenGives
  <2> QED
    BY <1>1, <2>1, <2>2, <2>3, <2>4, <2>5, <2>6 DEF FNext, DirRead
<1> DEFINE Kept == \A p \in Pid : pid_used[p] /\ p # pid_num => fd_array'[p] = fd_array[p]
<1>2. IInv /\ FInv /\ [FNext]_fvars => Kept
  BY <1>1
<1>3. IInv /\ FInv /\ [FNext]_fvars => [Kept]_fvars
  BY <1>2
<1> QED
  BY <1>3, FilesAlways, PTL DEF FSpec, SuspendedKeepDescriptors

-----------------------------------------------------------------------------
(* The directory, when it is opened only while no listing is under way *)

\* What reads of the directory have returned since it was opened.
Given(self, n) == IF self THEN <<SELF>> \o [i \in 1..n |-> i - 1] ELSE << >>

Entry == {SELF} \cup Nat

Reading(p, fd) == fd_array[p][fd].fops = "dir"

(***************************************************************************)
(* The cursor is one for all descriptors, so a listing is whole only if    *)
(* nobody else moves it: at most one descriptor is open on the directory,  *)
(* and it has been given what the cursor says.  A process that ends in the *)
(* middle of a listing leaves dir_itself_read set, and under the           *)
(* assumption nobody opens the directory after that.                       *)
(***************************************************************************)
DirInv ==
    /\ listing \in [Pid -> [Fd -> Seq(Entry)]]
    /\ ~dir_itself_read => dir_index = 0
    /\ \A p, q \in Pid, f, g \in Fd : Reading(p, f) /\ Reading(q, g) => p = q /\ f = g
    /\ \A p \in Pid, f \in Fd : Reading(p, f) => listing[p][f] = Given(dir_itself_read, dir_index)

\* One more entry read is one more entry of the listing.
LEMMA GivenGrows ==
  ASSUME NEW n \in Nat
  PROVE  /\ Given(FALSE, 0) = << >>
         /\ Append(<< >>, SELF) = Given(TRUE, 0)
         /\ Given(TRUE, n) \in Seq(Entry)
         /\ Append(Given(TRUE, n), n) = Given(TRUE, n + 1)
<1> DEFINE Upto(k) == [i \in 1..k |-> i - 1]
           Is(s, k) == /\ s \in Seq(Entry) /\ Len(s) = k
                       /\ \A i \in 1..k : (i = 1 => s[i] = SELF) /\ (i # 1 => s[i] = i - 2)
<1>0. SELF \in Entry /\ \A k \in Nat : k \in Entry
  BY DEF Entry
<1>1. ASSUME NEW k \in Nat
      PROVE  Upto(k) \in Seq(Entry) /\ Len(Upto(k)) = k /\ \A i \in 1..k : Upto(k)[i] = i - 1
  <2>1. \A i \in 1..k : i - 1 \in Entry
    <3>1. \A i \in 1..k : i - 1 \in Nat
      OBVIOUS
    <3> QED
      BY <1>0, <3>1
  <2>2. Upto(k) \in [1..k -> Entry]
    BY <2>1
  <2> QED
    BY <2>2
<1>2. /\ <<SELF>> \in Seq(Entry) /\ Len(<<SELF>>) = 1 /\ <<SELF>>[1] = SELF
      /\ << >> \in Seq(Entry) /\ Len(<< >>) = 0
  BY <1>0
<1>3. ASSUME NEW k \in Nat
      PROVE  Is(Given(TRUE, k), k + 1)
  <2> DEFINE T == Upto(k)
             H == <<SELF>>
  <2>1. T \in Seq(Entry) /\ Len(T) = k /\ \A i \in 1..k : T[i] = i - 1
    BY <1>1
  <2>2. Given(TRUE, k) = H \o T
    BY DEF Given
  <2>3. H \in Seq(Entry) /\ Len(H) = 1 /\ H[1] = SELF
    BY <1>2
  <2> HIDE DEF T, H
  <2>4. /\ H \o T \in Seq(Entry)
        /\ Len(H \o T) = Len(H) + Len(T)
        /\ \A i \in 1..(Len(H) + Len(T)) : (H \o T)[i] = IF i <= Len(H) THEN H[i] ELSE T[i - Len(H)]
    BY <2>1, <2>3, ConcatProperties
  <2>5. ASSUME NEW i \in 1..(k + 1)
        PROVE  (i = 1 => (H \o T)[i] = SELF) /\ (i # 1 => (H \o T)[i] = i - 2)
    <3>1. CASE i = 1
      BY <3>1, <2>1, <2>3, <2>4
    <3>2. CASE i # 1
      <4>1. i - 1 \in 1..k /\ (i - 1) - 1 = i - 2 /\ ~(i <= 1) /\ i \in 1..(1 + k)
        BY <3>2
      <4>2. (H \o T)[i] = T[i - 1]
        BY <4>1, <2>1, <2>3, <2>4
      <4>3. T[i - 1] = i - 2
        BY <4>1, <2>1
      <4> QED
        BY <3>2, <4>2, <4>3
    <3> QED
      BY <3>1, <3>2
  <2>6. H \o T \in Seq(Entry) /\ Len(H \o T) = k + 1
    BY <2>1, <2>3, <2>4
  <2>7. Is(H \o T, k + 1)
    BY <2>5, <2>6
  <2> HIDE DEF Is
  <2> QED
    BY <2>2, <2>7
<1>4. Append(Given(TRUE, n), n) = Given(TRUE, n + 1)
  <2> DEFINE G == Given(TRUE, n)
             A == Append(G, n)
             B == Given(TRUE, n + 1)
  <2>1. n \in Entry
    BY <1>0
  <2>2. Is(G, n + 1)
    BY <1>3
  <2>3. Is(B, n + 2)
    <3>1. n + 1 \in Nat /\ (n + 1) + 1 = n + 2
      OBVIOUS
    <3> HIDE DEF Is
    <3> QED
      BY <1>3, <3>1
  <2> HIDE DEF G, B
  <2>4. A \in Seq(Entry) /\ Len(A) = n + 2
    BY <2>1, <2>2
  <2>5. ASSUME NEW i \in 1..(n + 2) PROVE A[i] = B[i]
    <3>1. CASE i = n + 2
      <4>1. A[i] = n
        BY <3>1, <2>2
      <4>2. B[i] = n
        BY <3>1, <2>3
      <4> QED
        BY <4>1, <4>2
    <3>2. CASE i # n + 2
      <4>1. i \in 1..(n + 1)
        BY <3>2
      <4>2. A[i] = G[i]
        BY <4>1, <2>1, <2>2
      <4> QED
        BY <4>1, <4>2, <2>2, <2>3
    <3> QED
      BY <3>1, <3>2
  <2>6. A \in Seq(Entry) /\ B \in Seq(Entry) /\ Len(A) = Len(B) /\ Len(A) = n + 2
    BY <2>3, <2>4
  <2> HIDE DEF A
  <2>7. A = B
    BY <2>5, <2>6, SeqEqual
  <2> QED
    BY <2>7 DEF A, B, G
<1>5. Append(<< >>, SELF) = Given(TRUE, 0)
  <2> DEFINE A == Append(<< >>, SELF)
             B == Given(TRUE, 0)
  <2>1. A \in Seq(Entry) /\ Len(A) = 1 /\ A[1] = SELF
    BY <1>0
  <2>2. Is(B, 1)
    <3>1. 0 \in Nat /\ 0 + 1 = 1
      OBVIOUS
    <3> HIDE DEF Is
    <3> QED
      BY <1>3, <3>1
  <2>3. \A i \in 1..1 : A[i] = B[i]
    <3> HIDE DEF A, B
    <3>1. A[1] = B[1]
      BY <2>1, <2>2
    <3>2. 1..1 = {1}
      OBVIOUS
    <3> QED
      BY <3>1, <3>2
  <2> HIDE DEF A, B
  <2>4. A \in Seq(Entry) /\ B \in Seq(Entry) /\ Len(A) = Len(B) /\ Len(A) = 1
    BY <2>1, <2>2
  <2>5. A = B
    BY <2>3, <2>4, SeqEqual
  <2> QED
    BY <2>5 DEF A, B
<1> QED
  BY <1>3, <1>4, <1>5 DEF Given

\* A step that opens no descriptor on the directory and leaves the cursor alone.
LEMMA NoNewReader ==
  ASSUME DirInv, UNCHANGED dirVars,
         listing' \in [Pid -> [Fd -> Seq(Entry)]],
         \A p \in Pid, f \in Fd : Reading(p, f)' => Reading(p, f) /\ listing'[p][f] = listing[p][f]
  PROVE  DirInv'
BY DEF DirInv, dirVars

\* dir_read changes the listing and the cursor of the one reader there is.
LEMMA DirReadDirInv ==
  ASSUME IInv, FInv, DirInv, NEW fd \in Fd,
         DirReadSelf(fd) \/ DirReadEntry(fd) \/ DirReadEnd(fd)
  PROVE  /\ pid_num \in Pid /\ Reading(pid_num, fd) /\ dir_itself_read \in BOOLEAN
         /\ listing[pid_num][fd] = Given(dir_itself_read, dir_index)
         /\ DirInv'
<1>1. pc = "run" /\ fd_array[pid_num][fd].fops = "dir" /\ UNCHANGED <<vars, fd_array>>
  BY DEF DirReadSelf, DirReadEntry, DirReadEnd, ReadThrough, mine
<1>2. pid_num \in Pid /\ Reading(pid_num, fd)
  BY <1>1, CurrentIsDeepest DEF Reading
<1>3. listing[pid_num][fd] = Given(dir_itself_read, dir_index)
  BY <1>2 DEF DirInv
<1>4. dir_index \in Nat /\ dir_itself_read \in BOOLEAN
  BY FileBounds DEF FInv, FilesTypeOK
<1>5. \E s \in Seq(Entry) :
        /\ listing' = [listing EXCEPT ![pid_num][fd] = s]
        /\ s = Given(dir_itself_read', dir_index')
        /\ ~dir_itself_read' => dir_index' = 0
  <2>1. CASE DirReadSelf(fd)
    <3>1. /\ dir_itself_read = FALSE /\ dir_itself_read' = TRUE /\ dir_index' = dir_index
          /\ listing' = [listing EXCEPT ![pid_num][fd] = Append(@, SELF)]
      BY <2>1, <1>4 DEF DirReadSelf
    <3>2. dir_index = 0
      BY <3>1 DEF DirInv
    <3>3. Append(listing[pid_num][fd], SELF) = Given(TRUE, 0) /\ Given(TRUE, 0) \in Seq(Entry)
      BY <1>3, <3>1, <3>2, GivenGrows
    <3> QED
      BY <3>1, <3>2, <3>3
  <2>2. CASE DirReadEntry(fd)
    <3>1. /\ dir_itself_read = TRUE /\ dir_itself_read' = TRUE /\ dir_index' = dir_index + 1
          /\ listing' = [listing EXCEPT ![pid_num][fd] = Append(@, dir_index)]
      BY <2>2, <1>4 DEF DirReadEntry
    <3>2. /\ Append(listing[pid_num][fd], dir_index) = Given(TRUE, dir_index + 1)
          /\ Given(TRUE, dir_index + 1) \in Seq(Entry)
      <4>1. dir_index + 1 \in Nat
        BY <1>4
      <4> QED
        BY <1>3, <1>4, <3>1, <4>1, GivenGrows
    <3> QED
      BY <3>1, <3>2
  <2>3. CASE DirReadEnd(fd)
    <3>1. /\ dir_itself_read' = FALSE /\ dir_index' = 0
          /\ listing' = [listing EXCEPT ![pid_num][fd] = << >>]
      BY <2>3 DEF DirReadEnd
    <3>2. Given(FALSE, 0) = << >> /\ << >> \in Seq(Entry)
      BY DEF Given
    <3> QED
      BY <3>1, <3>2
  <2> QED
    BY <2>1, <2>2, <2>3
<1>6. PICK s \in Seq(Entry) :
        /\ listing' = [listing EXCEPT ![pid_num][fd] = s]
        /\ s = Given(dir_itself_read', dir_index')
        /\ ~dir_itself_read' => dir_index' = 0
  BY <1>5
<1>7. listing \in [Pid -> [Fd -> Seq(Entry)]]
  BY DEF DirInv
<1>8. /\ listing' \in [Pid -> [Fd -> Seq(Entry)]]
      /\ listing'[pid_num][fd] = s
  BY <1>2, <1>6, <1>7
<1>9. \A p \in Pid, f \in Fd : Reading(p, f)' => Reading(p, f) /\ p = pid_num /\ f = fd
  BY <1>1, <1>2 DEF DirInv, Reading
<1>10. DirInv'
  BY <1>6, <1>8, <1>9 DEF DirInv
<1> QED
  BY <1>2, <1>3, <1>4, <1>10

\* With one listing at a time, the listing stays the part of the directory before
\* its cursor.
LEMMA DirStep == OneListing /\ IInv /\ FInv /\ DirInv /\ [FNext]_fvars => DirInv'
<1> SUFFICES ASSUME OneListing, IInv, FInv, DirInv, [FNext]_fvars PROVE DirInv'
  OBVIOUS
<1>0. /\ fd_array \in [Pid -> [Fd -> Descriptor]]
      /\ listing \in [Pid -> [Fd -> Seq(Entry)]]
      /\ << >> \in Seq(Entry)
      /\ CLOSED.fops # "dir" /\ Fresh("stdin").fops # "dir" /\ Fresh("stdout").fops # "dir"
  BY DEF FInv, FilesTypeOK, DirInv, CLOSED, Fresh
<1>1. CASE FStart
  <2>1. PICK p \in Pid :
            /\ fd_array' = [fd_array EXCEPT ![p] = [fd \in Fd |->
                    IF fd = 0 THEN Fresh("stdin")
                    ELSE IF fd = 1 THEN Fresh("stdout") ELSE CLOSED]]
            /\ UNCHANGED <<dirVars, listing>>
    BY <1>1, StartStep
  <2>2. \A f \in Fd : ~Reading(p, f)'
    BY <1>0, <2>1 DEF Reading
  <2>3. \A q \in Pid, f \in Fd : Reading(q, f)' => Reading(q, f)
    BY <1>0, <2>1, <2>2 DEF Reading
  <2> QED
    BY <1>0, <2>1, <2>3, NoNewReader
<1>2. CASE FHalt
  <2>1. /\ pid_num \in Pid
        /\ fd_array' = [fd_array EXCEPT ![pid_num] = [fd \in Fd |-> CLOSED]]
        /\ listing' = [listing EXCEPT ![pid_num] = [fd \in Fd |-> << >>]]
        /\ UNCHANGED dirVars
    BY <1>2, HaltStep
  <2>2. listing' \in [Pid -> [Fd -> Seq(Entry)]]
    BY <1>0, <2>1
  <2>3. \A f \in Fd : ~(fd_array'[pid_num][f].fops = "dir")
    BY <1>0, <2>1
  <2>4. \A q \in Pid, f \in Fd : Reading(q, f)' => Reading(q, f) /\ listing'[q][f] = listing[q][f]
    BY <1>0, <2>1, <2>3 DEF Reading
  <2> QED
    BY <2>1, <2>2, <2>4, NoNewReader
<1>3. CASE FOther \/ UNCHANGED fvars
  <2>1. UNCHANGED fdVars
    BY <1>3 DEF FOther, fvars
  <2> QED
    BY <2>1, <1>0, NoNewReader DEF fdVars, Reading
<1>4. CASE DirRead
  BY <1>4, DirReadDirInv DEF DirRead
<1>5. ASSUME NEW type \in FileType, Open(type) PROVE DirInv'
  <2>1. PICK fd \in Fd : Opened(type, fd)
    BY <1>5, OpenGives
  <2>2. /\ pid_num \in Pid /\ UNCHANGED dirVars
        /\ fd_array' = [fd_array EXCEPT ![pid_num][fd] = Fresh(type)]
        /\ listing' = [listing EXCEPT ![pid_num][fd] = << >>]
    BY <2>1, CallStep DEF Opened
  <2>3. listing' \in [Pid -> [Fd -> Seq(Entry)]]
    BY <1>0, <2>2
  <2>4. \A q \in Pid, f \in Fd : ~(q = pid_num /\ f = fd) =>
            fd_array'[q][f] = fd_array[q][f] /\ listing'[q][f] = listing[q][f]
    BY <1>0, <2>2
  <2>5. fd_array'[pid_num][fd].fops = type /\ listing'[pid_num][fd] = << >>
    BY <1>0, <2>2 DEF Fresh
  <2>6. CASE type # "dir"
    <3>1. \A q \in Pid, f \in Fd : Reading(q, f)' => Reading(q, f) /\ listing'[q][f] = listing[q][f]
      BY <2>4, <2>5, <2>6, <2>2 DEF Reading
    <3> QED
      BY <2>2, <2>3, <3>1, NoNewReader
  <2>7. CASE type = "dir"
    <3>1. ~ListingUnderWay
      BY <1>5, <2>7 DEF Open
    <3>2. \A q \in Pid, f \in Fd : ~Reading(q, f)
      BY <1>0, <3>1 DEF ListingUnderWay, Reading, FInv, FreshDescriptors
    <3>3. dir_itself_read' = FALSE /\ dir_index' = 0
      BY <2>2, <3>1 DEF ListingUnderWay, DirInv, dirVars, FInv, FilesTypeOK
    <3>4. \A q \in Pid, f \in Fd : Reading(q, f)' => q = pid_num /\ f = fd
      BY <2>4, <3>2 DEF Reading
    <3>5. listing'[pid_num][fd] = Given(dir_itself_read', dir_index')
      BY <2>5, <3>3, GivenGrows
    <3> QED
      BY <2>3, <3>3, <3>4, <3>5 DEF DirInv
  <2> QED
    BY <2>6, <2>7
<1>6. ASSUME NEW fd \in Fd, Close(fd) PROVE DirInv'
  <2>1. /\ pid_num \in Pid /\ pid_used[pid_num] /\ UNCHANGED dirVars
        /\ fd_array' = [fd_array EXCEPT ![pid_num][fd] =
                            AfterClose(pid_used[pid_num], fd, fd_array[pid_num][fd])]
        /\ listing' = [listing EXCEPT ![pid_num][fd] = << >>]
    BY <1>6, CallStep DEF Close
  <2>2. listing' \in [Pid -> [Fd -> Seq(Entry)]]
    BY <1>0, <2>1
  <2>3. \A q \in Pid, f \in Fd : ~(q = pid_num /\ f = fd) =>
            fd_array'[q][f] = fd_array[q][f] /\ listing'[q][f] = listing[q][f]
    BY <1>0, <2>1
  <2>4. fd_array'[pid_num][fd].fops # "dir"
    <3>1. fd_array'[pid_num][fd] = AfterClose(pid_used[pid_num], fd, fd_array[pid_num][fd])
      BY <1>0, <2>1
    <3>2. CASE fd <= 1
      <4>1. fd \in {0, 1}
        BY <3>2, FileBounds DEF Fd
      <4>2. fd_array[pid_num][fd].fops \in {"stdin", "stdout"}
        BY <2>1, <4>1 DEF FInv, Streams
      <4> QED
        BY <1>0, <3>1, <4>2 DEF AfterClose
    <3>3. CASE ~(fd <= 1)
      BY <1>0, <3>1, <3>3 DEF AfterClose
    <3> QED
      BY <3>2, <3>3
  <2>5. \A q \in Pid, f \in Fd : Reading(q, f)' => Reading(q, f) /\ listing'[q][f] = listing[q][f]
    BY <2>3, <2>4 DEF Reading
  <2> QED
    BY <2>1, <2>2, <2>5, NoNewReader
<1>7. ASSUME NEW fd \in Fd, NEW n \in NBYTES, FileRead(fd, n) PROVE DirInv'
  <2>1. pid_num \in Pid /\ UNCHANGED dirVars
    BY <1>7, CallStep
  <2>2. fd_array' = [fd_array EXCEPT ![pid_num][fd].fpos =
            IF @ + n < FILE_SIZE THEN @ + n ELSE FILE_SIZE] /\ listing' = listing
    BY <1>7 DEF FileRead
  <2>3. \A q \in Pid, f \in Fd : fd_array'[q][f].fops = fd_array[q][f].fops
    BY <1>0, <2>1, <2>2 DEF Descriptor
  <2> QED
    BY <1>0, <2>1, <2>2, <2>3, NoNewReader DEF Reading
<1> QED
  BY <1>1, <1>2, <1>3, <1>4, <1>5, <1>6, <1>7 DEF FNext, DirRead

\* Nobody reads the directory at first.
LEMMA DirInitInv == FInit => DirInv
<1> SUFFICES ASSUME FInit PROVE DirInv
  OBVIOUS
<1>1. \A p \in Pid, f \in Fd : ~Reading(p, f)
  BY DEF FInit, Reading, CLOSED
<1>2. dir_index = 0 /\ listing = [p \in Pid |-> [fd \in Fd |-> << >>]] /\ << >> \in Seq(Entry)
  BY DEF FInit
<1> QED
  BY <1>1, <1>2 DEF DirInv

\* A program that reads the directory from open until dir_read returns 0 has
\* been given every name exactly once, provided the directory is opened only
\* while no listing is under way: the cursor of file_helper.c is one for all.
THEOREM ListingWhole ==
  ASSUME OneListing
  PROVE  FSpec => ListingComplete
<1>1. FInit => FInv /\ DirInv
  BY FilesInitInv, DirInitInv
<1>2. IInv /\ FInv /\ DirInv /\ [FNext]_fvars => FInv' /\ DirInv'
  BY OneListing, FilesInv, DirStep
<1>3. FSpec => [](IInv /\ FInv /\ DirInv)
  BY <1>1, <1>2, FilesInvariance, PTL DEF FSpec
<1> DEFINE Whole == \A fd \in Fd : DirReadEnd(fd) => listing[pid_num][fd] = Names
<1>4. IInv /\ FInv /\ DirInv => Whole
  <2> SUFFICES ASSUME IInv, FInv, DirInv, NEW fd \in Fd, DirReadEnd(fd)
               PROVE  listing[pid_num][fd] = Names
    OBVIOUS
  <2>1. dir_itself_read = TRUE /\ dir_index = NUM_DIR - 1
    BY FileBounds DEF DirReadEnd, AtEnd, FInv, FilesTypeOK
  <2>2. listing[pid_num][fd] = Given(dir_itself_read, dir_index)
    BY DirReadDirInv
  <2> QED
    BY <2>1, <2>2 DEF Given, Names
<1>5. IInv /\ FInv /\ DirInv => [Whole]_fvars
  BY <1>4
<1> QED
  BY <1>3, <1>5, PTL DEF ListingComplete

=============================================================================

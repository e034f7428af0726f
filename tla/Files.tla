--------------------------------- MODULE Files ---------------------------------
(***************************************************************************)
(* The file descriptors: Processes, with each slot's fd_array and the      *)
(* calls open, close and read, and the directory cursor of file_helper.c.  *)
(*                                                                         *)
(* A descriptor is what its fops_ptr names, or none.  What execute and     *)
(* halt do to descriptors belongs to the steps of Processes; every other   *)
(* call here runs with IF = 0 and is one step.  Calls that fail without    *)
(* changing anything (open with no descriptor left or of an unknown name,  *)
(* close and read of a closed one) are left out, and so is write, whose    *)
(* effects are elsewhere: the screen and the clock.                        *)
(*                                                                         *)
(* The image lists the directory itself in dir_itself and counts it in     *)
(* num_dir, so that the last of the num_dir entries of dir_entry is blank. *)
(***************************************************************************)
EXTENDS Processes, Sequences

CONSTANTS
    FD_MAX,     \* descriptors of a process (fd_max, 8)
    NUM_DIR,    \* boot_block->num_dir
    FILE_SIZE,  \* length of the regular file that is opened
    NBYTES,     \* the values of nbytes that readers use
    OneListing  \* is the directory opened only when no listing is under way?

Fd == 0..(FD_MAX - 1)
FileType == {"rtc", "dir", "file"}
Fops == {"stdin", "stdout"} \cup FileType
CLOSED == [fops |-> "none", fpos |-> 0]
Fresh(f) == [fops |-> f, fpos |-> 0]
Descriptor == [fops : Fops \cup {"none"}, fpos : 0..FILE_SIZE]

ASSUME FileBounds ==
    /\ FD_MAX \in Nat /\ FD_MAX > 2
    /\ NUM_DIR \in Nat \ {0}
    /\ FILE_SIZE \in Nat
    /\ NBYTES \subseteq Nat \ {0}
    /\ OneListing \in BOOLEAN

VARIABLES
    fd_array,           \* pcb_t.fd_array of each slot
    dir_index,          \* file_helper.c: one for all readers
    dir_itself_read,
    listing             \* history: the entries a descriptor's reads returned, in order

dirVars == <<dir_index, dir_itself_read>>
fdVars == <<fd_array, dirVars, listing>>
fvars == <<vars, fdVars>>

SELF == "."
\* What a listing is: the directory, then the entries before the blank one.
Names == <<SELF>> \o [n \in 1..(NUM_DIR - 1) |-> n - 1]

\* No code sets the descriptors of a PCB never used: its memory is zero (README).
FInit ==
    /\ Init
    /\ fd_array = [p \in Pid |-> [fd \in Fd |-> CLOSED]]
    /\ dir_index = 0
    /\ dir_itself_read = FALSE
    /\ listing = [p \in Pid |-> [fd \in Fd |-> << >>]]

-----------------------------------------------------------------------------

\* Without the test for the first two descriptors.
AfterCloseAny(used, fd, d) == IF used /\ d = CLOSED THEN d ELSE CLOSED

\* close: refused for 0, 1 and a closed descriptor, unless pid_used is already 0.
AfterClose(used, fd, d) == IF used /\ (fd <= 1 \/ d = CLOSED) THEN d ELSE CLOSED

\* pid_used cleared after the descriptors.
LeftLate(p) == [fd \in Fd |-> AfterClose(TRUE, fd, fd_array[p][fd])]

\* halt has cleared pid_used when it closes the descriptors.
LeftByHalt(p) == [fd \in Fd |-> AfterClose(FALSE, fd, fd_array[p][fd])]

\* pid_num after it is restored to the parent's.
ClosedForParent == pid_num'

\* Whose descriptors the calls of close in halt find: pid_num is not restored yet.
ClosedFor == pid_num

\* execute opens 0 and 1 and leaves the others as they are.
FStart ==
    /\ BootShell \/ StartShell \/ RespawnShell \/ \E isShell \in BOOLEAN : Execute(isShell)
    /\ fd_array' = [fd_array EXCEPT ![pid_num'][0] = Fresh("stdin"),
                                    ![pid_num'][1] = Fresh("stdout")]
    /\ UNCHANGED <<dirVars, listing>>

FHalt ==
    /\ HaltChild \/ HaltShell
    /\ fd_array' = [fd_array EXCEPT ![ClosedFor] = LeftByHalt(ClosedFor)]
    /\ listing' = [listing EXCEPT ![pid_num] = [fd \in Fd |-> << >>]]
    /\ UNCHANGED dirVars

\* The steps of Processes that touch no descriptor.
FOther ==
    /\ \/ StartFails \/ ExecuteNoProgram \/ ExecuteNoSlot \/ Crashed
       \/ \E t \in Term : SwitchToRunning(t) \/ SwitchToNew(t)
    /\ UNCHANGED fdVars

-----------------------------------------------------------------------------
(* The running process *)

mine == fd_array[pid_num]

ListingUnderWay ==
    \/ dir_itself_read
    \/ \E p \in Pid, fd \in Fd : pid_used[p] /\ fd_array[p][fd].fops = "dir"

\* The first closed descriptor from 2 on.
Open(type) ==
    /\ pc = "run"
    /\ OneListing /\ type = "dir" => ~ListingUnderWay
    /\ \E fd \in 2..(FD_MAX - 1) :
        /\ mine[fd].fops = "none"
        /\ \A other \in 2..(fd - 1) : mine[other].fops # "none"
        /\ fd_array' = [fd_array EXCEPT ![pid_num][fd] = Fresh(type)]
        /\ listing' = [listing EXCEPT ![pid_num][fd] = << >>]
    /\ UNCHANGED <<vars, dirVars>>

Close(fd) ==
    /\ pc = "run"
    /\ mine[fd] # CLOSED
    /\ fd_array' = [fd_array EXCEPT ![pid_num][fd] = AfterClose(pid_used[pid_num], fd, @)]
    /\ listing' = [listing EXCEPT ![pid_num][fd] = << >>]
    /\ UNCHANGED <<vars, dirVars>>

\* read calls the routine of the descriptor's table.
ReadThrough(fd, fops) == pc = "run" /\ mine[fd].fops = fops

\* file_read, which returns what the file still has, at most n.
FileRead(fd, n) ==
    /\ ReadThrough(fd, "file")
    /\ fd_array' = [fd_array EXCEPT ![pid_num][fd].fpos =
            IF @ + n < FILE_SIZE THEN @ + n ELSE FILE_SIZE]
    /\ UNCHANGED <<vars, dirVars, listing>>

\* dir_read returns 0 when index i, just advanced, is past the last entry.
AtEndEarly(i) == i = NUM_DIR - 1

AtEnd(i) == i = NUM_DIR

DirReadSelf(fd) ==
    /\ ReadThrough(fd, "dir")
    /\ ~dir_itself_read
    /\ dir_itself_read' = TRUE
    /\ listing' = [listing EXCEPT ![pid_num][fd] = Append(@, SELF)]
    /\ UNCHANGED <<vars, fd_array, dir_index>>

DirReadEntry(fd) ==
    /\ ReadThrough(fd, "dir")
    /\ dir_itself_read
    /\ ~AtEnd(dir_index + 1)
    /\ dir_index' = dir_index + 1
    /\ listing' = [listing EXCEPT ![pid_num][fd] = Append(@, dir_index)]
    /\ UNCHANGED <<vars, fd_array, dir_itself_read>>

DirReadEnd(fd) ==
    /\ ReadThrough(fd, "dir")
    /\ dir_itself_read
    /\ AtEnd(dir_index + 1)
    /\ dir_index' = 0
    /\ dir_itself_read' = FALSE
    /\ listing' = [listing EXCEPT ![pid_num][fd] = << >>]
    /\ UNCHANGED <<vars, fd_array>>

FNext ==
    \/ FStart \/ FHalt \/ FOther
    \/ \E type \in FileType : Open(type)
    \/ \E fd \in Fd :
        \/ Close(fd)
        \/ \E n \in NBYTES : FileRead(fd, n)
        \/ DirReadSelf(fd) \/ DirReadEntry(fd) \/ DirReadEnd(fd)

FSpec == FInit /\ [][FNext]_fvars

-----------------------------------------------------------------------------
(* Properties *)

\* Descriptors and the directory cursor stay in their ranges.
FilesTypeOK ==
    /\ fd_array \in [Pid -> [Fd -> Descriptor]]
    /\ dir_index \in 0..(NUM_DIR - 1)
    /\ dir_itself_read \in BOOLEAN

\* "initialize other things in PCB" (syscall.c:219): a program starts with
\* stdin and stdout and no other descriptor, although execute sets only these
\* two: whoever had the slot before it left every descriptor closed.
FreshDescriptors ==
    \A p \in Pid : ~pid_used[p] => \A fd \in Fd : fd_array[p][fd] = CLOSED

\* "you cant clost stdin stdout" (syscall.c:387): a live process has stdin at
\* 0 and stdout at 1, and these tables, whose missing operation is a NULL
\* pointer, nowhere else: read and write never call through NULL.
StandardStreams ==
    FilesTypeOK /\ \A p \in Pid : pid_used[p] =>
        \A fd \in Fd :
            /\ fd = 0 <=> fd_array[p][fd].fops = "stdin"
            /\ fd = 1 <=> fd_array[p][fd].fops = "stdout"

\* A suspended process finds its descriptors and their positions as it left
\* them, whichever programs ran, ended and took slots meanwhile.
SuspendedKeepDescriptors ==
    [][\A p \in Pid : pid_used[p] /\ p # pid_num => fd_array'[p] = fd_array[p]]_fvars

\* "starting from position offset in the file" (file_helper.c:272): a program
\* that reads a directory from open until dir_read returns 0 has been given
\* every name exactly once.
ListingComplete ==
    [][\A fd \in Fd : DirReadEnd(fd) => listing[pid_num][fd] = Names]_fvars
=============================================================================

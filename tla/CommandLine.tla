------------------------------ MODULE CommandLine ------------------------------
(***************************************************************************)
(* What execute makes of a command: the loop that cuts it into a name and  *)
(* arguments, the look-up of the name in the directory, the copy of the    *)
(* arguments to the PCB, and getargs, which gives them to the program.     *)
(* open looks names up the same way.                                       *)
(*                                                                         *)
(* The programs of one terminal, one on top of the other; the n-th one has *)
(* the n-th slot.  execute and getargs run with IF = 0: the loop is in     *)
(* steps for its own sake.                                                 *)
(*                                                                         *)
(* The buffers of execute are on the stack and hold anything when it is    *)
(* called.  No store into them is checked.  They lie as the build puts     *)
(* them: argument_buffer, exe_cmd behind it, dentry_struct behind that.    *)
(***************************************************************************)
EXTENDS Integers, Sequences, FiniteSetsExt

CONSTANTS
    BUF,        \* cmd_length, buf_length, the length of pcb_t.arg_buf (128)
    FNAME,      \* fname_length (32)
    DENTRY,     \* the size of dentry_struct (64)
    PER_TERM,   \* programs a terminal may hold (4)
    Letter,     \* characters of names and arguments
    Dir,        \* dir_entry as far as num_dir: names, and whether they are programs
    SHELL,      \* the name of the shell, a program
    Command,    \* what programs give to execute
    OLD,        \* the bytes that the stack may hold when execute is called
    NBYTES      \* the lengths of the buffers that programs give to getargs

SP == "space"
NUL == "nul"
FOREIGN == "other"                  \* a byte of dentry_struct
NONE == [none |-> TRUE]
Byte == Letter \cup {SP, NUL}
Frame == 0..(2 * BUF + DENTRY - 1)
Names == {Dir[n].name : n \in DOMAIN Dir}
DOT == <<".">>

\* What a command means: the first word is the name, the rest the arguments.
Spaces(text) == {k \in DOMAIN text : text[k] = SP}
FirstWord(text) ==
    IF Spaces(text) = {} THEN text ELSE SubSeq(text, 1, Min(Spaces(text)) - 1)
Rest(text) == SubSeq(text, Min(Spaces(text)) + 1, Len(text))

\* The two parts and their NULs fit in the buffers of execute.
Fits(text) ==
    /\ Len(FirstWord(text)) < BUF
    /\ Spaces(text) # {} => Len(Rest(text)) < BUF

\* They overrun them as far as dentry_struct, no further.
InFrame(text) ==
    /\ Len(FirstWord(text)) < BUF + DENTRY
    /\ Spaces(text) # {} => Len(Rest(text)) < 2 * BUF

ASSUME CommandBounds ==
    /\ BUF \in Nat /\ FNAME \in 2..BUF /\ DENTRY \in 1..BUF
    /\ PER_TERM \in Nat \ {0}
    /\ Letter \cap {SP, NUL, FOREIGN} = {}
    /\ OLD \subseteq Byte
    /\ NBYTES \subseteq Nat \ {0}
    /\ DOMAIN Dir \subseteq Nat \ {0}       \* entry 0 is the directory itself
    /\ \A name \in Names : name \in Seq(Letter) /\ Len(name) < FNAME
    /\ \E n \in DOMAIN Dir : Dir[n].name = SHELL /\ Dir[n].program
    /\ \A m, n \in DOMAIN Dir :              \* files have different names
        Dir[m].name = Dir[n].name => Dir[m].program = Dir[n].program
    /\ \A text \in Command : text \in Seq(Letter \cup {SP}) /\ InFrame(text)

VARIABLES
    pc,                 \* "user", or in execute: "parse" its loop, "load" after it
    command,
    cmd_idx, first_sp, arg_off,
    frame,              \* the buffers of execute and what lies behind them
    arg_buf,            \* the text in pcb_t.arg_buf of each slot
    programs,           \* the entry that each program was loaded from, and its command
    result              \* what the call that has just returned gave: for open the
                        \* entry (0 the directory itself, -1 none), for getargs a text

loopVars == <<cmd_idx, first_sp, arg_off, frame>>
vars == <<pc, command, loopVars, arg_buf, programs, result>>

Depth == Len(programs)
Junk(b) == [k \in Frame |-> IF k < 2 * BUF THEN b ELSE FOREIGN]
argument_buffer == frame
exe_cmd == [k \in 0..(BUF + DENTRY - 1) |-> frame[BUF + k]]

\* Stores into exe_cmd and argument_buffer, wherever they land.
Named(k, c) == [frame EXCEPT ![BUF + k] = c]
Argued(k, c) == [frame EXCEPT ![k] = c]

\* A text in memory, with the NUL that ends it.
Memory(text, size) ==
    [k \in 0..(size - 1) |-> IF k < Len(text) THEN text[k + 1] ELSE NUL]

\* The text in memory, up to its NUL: all that strcpy copies and strlen counts.
Text(mem) == [k \in 1..Min({k \in DOMAIN mem : mem[k] = NUL}) |-> mem[k - 1]]

\* The comparison stops before it has seen the end of s1.
SamePrefix(s1, s2) ==
    \A k \in 0..(FNAME - 1) : (\A j \in 0..k : s1[j] # NUL) => s1[k] = s2[k]

\* strncmp of 32 bytes is 0: no difference up to the end of s1.
SameName(s1, s2) ==
    \A k \in 0..(FNAME - 1) : (\A j \in 0..(k - 1) : s1[j] # NUL) => s1[k] = s2[k]

\* The loop of read_exec_dentry_by_name and the second half of
\* read_dentry_by_name: the first entry of that name, or -1.
Lookup(mem) ==
    LET same == {n \in DOMAIN Dir : SameName(Memory(Dir[n].name, FNAME), mem)}
    IN  IF same = {} THEN -1 ELSE Min(same)

\* execute is called; its buffers hold what the stack held.
Called(text) ==
    /\ pc' = "parse"
    /\ command' = text
    /\ cmd_idx' = 0 /\ first_sp' = FALSE /\ arg_off' = 0
    /\ \E b \in OLD : frame' = Junk(b)

\* entry executes the first shell; the memory of the PCBs is zero.
Init ==
    /\ pc = "parse"
    /\ command = SHELL
    /\ cmd_idx = 0 /\ first_sp = FALSE /\ arg_off = 0
    /\ \E b \in OLD : frame = Junk(b)
    /\ arg_buf = [n \in 1..PER_TERM |-> << >>]
    /\ programs = << >>
    /\ result = NONE

-----------------------------------------------------------------------------
(* execute *)

Execute(text) ==
    /\ pc = "user"
    /\ Called(text)
    /\ result' = NONE
    /\ UNCHANGED <<arg_buf, programs>>

Parsing == pc = "parse" /\ cmd_idx < Len(command)
Char == command[cmd_idx + 1]
Parsed == cmd_idx' = cmd_idx + 1 /\ UNCHANGED <<pc, command, arg_buf, programs, result>>

\* The offset before "modify the argument offset by plus 1" (buglog.txt:36).
OffsetAtSpace == cmd_idx

OffsetAfterSpace == cmd_idx + 1

FirstSpace ==
    /\ Parsing
    /\ Char = SP /\ ~first_sp
    /\ frame' = Named(cmd_idx, NUL)
    /\ first_sp' = TRUE
    /\ arg_off' = OffsetAfterSpace
    /\ Parsed

ArgumentChar ==
    /\ Parsing
    /\ first_sp
    /\ frame' = Argued(cmd_idx - arg_off, Char)
    /\ UNCHANGED <<first_sp, arg_off>>
    /\ Parsed

NameChar ==
    /\ Parsing
    /\ Char # SP /\ ~first_sp
    /\ frame' = Named(cmd_idx, Char)
    /\ UNCHANGED <<first_sp, arg_off>>
    /\ Parsed

\* The NUL one cell late.
ArgumentsEndedLate == Argued(cmd_idx - arg_off + 1, NUL)

ArgumentsEnded == Argued(cmd_idx - arg_off, NUL)

ParseEnds ==
    /\ pc = "parse" /\ cmd_idx = Len(command)
    /\ frame' = IF first_sp THEN ArgumentsEnded
                ELSE [ArgumentsEnded EXCEPT ![BUF + cmd_idx] = NUL]
    /\ pc' = "load"
    /\ UNCHANGED <<command, cmd_idx, first_sp, arg_off, arg_buf, programs, result>>

Entry == Lookup(exe_cmd)
Loadable == Entry # -1 /\ Dir[Entry].program

\* The variables of execute's frame are dead when it has returned or started a
\* program: they get one value.
Leaves ==
    /\ pc' = "user"
    /\ command' = << >>
    /\ cmd_idx' = 0 /\ first_sp' = FALSE /\ arg_off' = 0
    /\ frame' = Junk(NUL)
    /\ UNCHANGED result

\* execute returns -1: no such name, or no magic number; 256: no room.
ExecuteFails ==
    /\ pc = "load"
    /\ ~Loadable \/ Depth = PER_TERM
    /\ Leaves
    /\ UNCHANGED <<arg_buf, programs>>

\* The arguments stay in the parent's PCB.
StoredInParent(n) == IF n = 1 THEN arg_buf
    ELSE [arg_buf EXCEPT ![n - 1] = Text(argument_buffer)]

Stored(n) == [arg_buf EXCEPT ![n] = Text(argument_buffer)]

ProgramStarts ==
    /\ pc = "load"
    /\ Loadable /\ Depth < PER_TERM
    /\ arg_buf' = Stored(Depth + 1)
    /\ programs' = Append(programs, [entry |-> Entry, command |-> command])
    /\ Leaves

\* halt; the base shell is executed again.
HaltChild ==
    /\ pc = "user" /\ Depth > 1
    /\ programs' = SubSeq(programs, 1, Depth - 1)
    /\ result' = NONE
    /\ UNCHANGED <<pc, command, loopVars, arg_buf>>

HaltShell ==
    /\ pc = "user" /\ Depth = 1
    /\ programs' = << >>
    /\ Called(SHELL)
    /\ result' = NONE
    /\ UNCHANGED arg_buf

-----------------------------------------------------------------------------
(* Other calls *)

\* "if the arguments do not fit in the buffer, is a error" (syscall.c:417): the
\* NUL that strcpy adds is not counted.
getargs(nbytes) ==
    /\ pc = "user"
    /\ Len(arg_buf[Depth]) <= nbytes
    /\ result' = [text |-> arg_buf[Depth]]
    /\ UNCHANGED <<pc, command, loopVars, arg_buf, programs>>

\* The name of the directory comes first.  open refuses an empty name, which
\* the blank entry has.
open(name) ==
    /\ pc = "user"
    /\ name # << >>
    /\ LET mem == Memory(name, Len(name) + FNAME) IN
        result' = [entry |-> IF SameName(Memory(DOT, FNAME), mem) THEN 0 ELSE Lookup(mem)]
    /\ UNCHANGED <<pc, command, loopVars, arg_buf, programs>>

Next ==
    \/ \E text \in Command : Execute(text)
    \/ FirstSpace \/ ArgumentChar \/ NameChar \/ ParseEnds
    \/ ExecuteFails \/ ProgramStarts \/ HaltChild \/ HaltShell
    \/ \E nbytes \in NBYTES : getargs(nbytes)
    \/ \E name \in {text \in Command : Spaces(text) = {}} \cup {DOT} : open(name)

Spec == Init /\ [][Next]_vars

-----------------------------------------------------------------------------
(* Properties *)

NamedBy(name) == {n \in DOMAIN Dir : Dir[n].name = name}

\* Every variable stays in its range.
TypeOK ==
    /\ pc \in {"user", "parse", "load"}
    /\ cmd_idx \in 0..Len(command)
    /\ frame \in [Frame -> Byte \cup {FOREIGN}]
    /\ \A n \in 1..PER_TERM : Len(arg_buf[n]) < 2 * BUF

\* "taking the argument" (syscall.c:126): of a command whose parts fit, up to
\* the last byte of both buffers, no store goes behind the buffers, and none of
\* the arguments or of their NUL gets into the name.
PartsStayApart ==
    TypeOK /\ (pc # "user" /\ Fits(command) =>
        /\ \A k \in 2 * BUF..(2 * BUF + DENTRY - 1) : frame[k] = FOREIGN
        /\ pc = "load" => Text(exe_cmd) = FirstWord(command))

\* "found matched file name" (file_helper.c:21): the program that runs is the
\* one that the command's first word names, a command is refused for its name
\* only if no program has it, and open finds the file of exactly that name.
FoundByName ==
    [][/\ ProgramStarts /\ Fits(command) =>
            LET p == programs'[Depth + 1]
            IN  p.entry \in NamedBy(FirstWord(p.command)) /\ Dir[p.entry].program
       /\ ExecuteFails /\ Fits(command) =>
            Depth = PER_TERM \/ \A n \in NamedBy(FirstWord(command)) : ~Dir[n].program
       /\ \A name \in Command \ {DOT} : open(name) /\ Spaces(name) = {} =>
            result'.entry \in IF NamedBy(name) = {} THEN {-1} ELSE NamedBy(name)]_vars

\* "The execute function can not get argument correctly" and "The argument is
\* not place in the correct position" (buglog.txt:32-36): a program that calls
\* getargs is given what followed the first space of its own command, whatever
\* it has executed since and whoever had its slot before.
ArgumentsDelivered ==
    [][\A nbytes \in NBYTES :
            getargs(nbytes) /\ Spaces(programs[Depth].command) # {} =>
                result'.text = Rest(programs[Depth].command)]_vars
=============================================================================

------------------------------ MODULE Processes ------------------------------
(***************************************************************************)
(* The process table of the kernel (syscall.c) and its coupling to the     *)
(* terminals (terminal.c, keyboard.c): execute, halt, and the Alt+Fn       *)
(* switch.                                                                 *)
(*                                                                         *)
(* There is no scheduler.  One process runs at a time: the current process *)
(* of the terminal on display.  pid_num names it.  execute suspends the    *)
(* caller and starts a child, halt resumes the parent, and Alt+Fn suspends *)
(* the running process inside the keyboard handler and resumes the one     *)
(* that was suspended when the other terminal was last left.               *)
(*                                                                         *)
(* Granularity.  A system call enters through an interrupt gate (IF = 0),  *)
(* so execute and halt are atomic when a process calls them.  execute is   *)
(* also called with IF = 1 by kernel.c:303 and keyboard.c:203; this module *)
(* takes those two calls as one step too, which means: no key is pressed   *)
(* while they load the shell.  README.md says what a key does there.       *)
(***************************************************************************)
EXTENDS Integers, FiniteSets

CONSTANTS
    MAX_PROCESS,    \* process slots in pid_used (6, syscall.c:25)
    TM_MAX,         \* terminals (3, terminal.h:12)
    PER_TERM        \* processes a terminal may hold (4, syscall.c:155)

ASSUME ProcessBounds ==
    /\ MAX_PROCESS \in Nat \ {0}
    /\ TM_MAX \in Nat \ {0}
    /\ PER_TERM \in Nat \ {0}

Pid  == 1..MAX_PROCESS
Term == 0..(TM_MAX - 1)
NULL == 0           \* no process: prev_pcb == NULL, pid_num == 0, the boot stack

VARIABLES
    pc,             \* what the processor is executing, see Control
    terminal_idx,   \* the terminal on display
    pid_num,        \* the current process
    pid_used,       \* slots in use
    prev_pcb,       \* pcb_t.prev_pcb of each slot, as the pid it points at
    running,        \* term_t.running
    cur_pid,        \* term_t.cur_pid
    term_pid,       \* term_t.term_pid
    process_num,    \* term_t.process_num
    user_page,      \* pid whose 4 MB frame is mapped at 128 MB (page_dir[32])
    esp0,           \* pid whose kernel stack tss.esp0 points at
    eax,            \* what execute last returned to the process that called it
    owner,          \* history: the terminal in which a slot's process was started
    level           \* history: the depth at which it was started, 1 for a shell

procVars == <<pid_num, pid_used, prev_pcb>>
termVars == <<running, cur_pid, term_pid, process_num>>
cpuVars  == <<user_page, esp0>>
histVars == <<owner, level>>
vars == <<pc, terminal_idx, procVars, termVars, cpuVars, eax, histVars>>

(***************************************************************************)
(* "boot"    kernel.c:303, about to execute the first shell                *)
(* "run"     user code, or a system call other than execute and halt       *)
(* "start"   keyboard.c:203, about to execute the shell of a terminal      *)
(*           displayed for the first time                                  *)
(* "respawn" syscall.c:261, a terminal's base shell has halted             *)
(* "crash"   keyboard.c:209-217 has loaded an esp and ebp never saved      *)
(***************************************************************************)
Control == {"boot", "run", "start", "respawn", "crash"}

EXE_EXCEPTION == 256
FAILURE == -1

Init ==
    /\ pc = "boot"
    /\ terminal_idx = 0
    /\ pid_num = NULL
    /\ pid_used = [p \in Pid |-> FALSE]
    /\ prev_pcb = [p \in Pid |-> NULL]
    /\ running = [t \in Term |-> FALSE]
    /\ cur_pid = [t \in Term |-> NULL]
    /\ term_pid = [t \in Term |-> NULL]
    /\ process_num = [t \in Term |-> 0]
    /\ user_page = NULL
    /\ esp0 = NULL
    /\ eax = 0
    /\ owner = [p \in Pid |-> 0]
    /\ level = [p \in Pid |-> 0]

-----------------------------------------------------------------------------
(* execute *)

FreePids == {p \in Pid : ~pid_used[p]}

\* The loop over pid_used without its test of pid_used.
FirstSlot(p) == \A q \in FreePids : p <= q

\* The loop over pid_used takes the first free slot.
FirstFree(p) == p \in FreePids /\ \A q \in FreePids : p <= q

\* Line 155 written with >, one too many.
HasRoomInclusive == process_num[terminal_idx] <= PER_TERM /\ FreePids # {}

HasRoom == process_num[terminal_idx] < PER_TERM /\ FreePids # {}

(***************************************************************************)
(* The successful path of execute.  A shell started in a terminal that is  *)
(* not running becomes its base shell and has no parent; any other process *)
(* gets the process that called execute.  All of the slot's descriptors,   *)
(* arguments and image are set up here too; they are not part of this      *)
(* module.                                                                 *)
(***************************************************************************)
Occupy(p, isShell) ==
    LET base == isShell /\ ~running[terminal_idx] IN
    /\ pid_used' = [pid_used EXCEPT ![p] = TRUE]
    /\ pid_num' = p
    /\ process_num' = [process_num EXCEPT ![terminal_idx] = @ + 1]
    /\ cur_pid' = [cur_pid EXCEPT ![terminal_idx] = p]
    /\ prev_pcb' = [prev_pcb EXCEPT ![p] = IF base THEN NULL ELSE pid_num]
    /\ running' = [running EXCEPT ![terminal_idx] = @ \/ base]
    /\ term_pid' = [term_pid EXCEPT ![terminal_idx] = IF base THEN p ELSE @]
    /\ user_page' = p
    /\ esp0' = p
    /\ owner' = [owner EXCEPT ![p] = terminal_idx]
    /\ level' = [level EXCEPT ![p] = process_num[terminal_idx] + 1]
    /\ pc' = "run"
    /\ UNCHANGED <<terminal_idx, eax>>

StartProcess(isShell) ==
    /\ HasRoom
    /\ \E p \in Pid : FirstFree(p) /\ Occupy(p, isShell)

\* The running process calls execute; the first word of the command may be "shell".
Execute(isShell) == pc = "run" /\ StartProcess(isShell)

\* The returns at lines 141, 148 and 151: no such file, or not an executable.
ExecuteNoProgram ==
    /\ pc = "run"
    /\ eax' = FAILURE
    /\ UNCHANGED <<pc, terminal_idx, procVars, termVars, cpuVars, histVars>>

\* The returns at lines 156 and 167: the terminal or the process table is full.
ExecuteNoSlot ==
    /\ pc = "run"
    /\ ~HasRoom
    /\ eax' = EXE_EXCEPTION
    /\ UNCHANGED <<pc, terminal_idx, procVars, termVars, cpuVars, histVars>>

\* The three calls of execute("shell") that the kernel itself makes.
BootShell    == pc = "boot" /\ StartProcess(TRUE)
StartShell   == pc = "start" /\ StartProcess(TRUE)
RespawnShell == pc = "respawn" /\ StartProcess(TRUE)

(***************************************************************************)
(* The kernel's own execute("shell") finds no slot.  The keyboard handler  *)
(* goes on to load the esp and ebp of a terminal that was never left.      *)
(***************************************************************************)
StartFails ==
    /\ pc \in {"boot", "start", "respawn"}
    /\ ~HasRoom
    /\ pc' = "crash"
    /\ UNCHANGED <<terminal_idx, procVars, termVars, cpuVars, eax, histVars>>

-----------------------------------------------------------------------------
(* halt, up to the end of the execute it returns through *)

\* The slot's parent given back instead, the result of updating pid_num first.
ReleaseParent(p) ==
    /\ pid_used' = [pid_used EXCEPT ![prev_pcb[p]] = FALSE]
    /\ process_num' = [process_num EXCEPT ![terminal_idx] = @ - 1]
    /\ owner' = [owner EXCEPT ![p] = 0]
    /\ level' = [level EXCEPT ![p] = 0]

\* The count not given back.
ReleaseUncounted(p) ==
    /\ pid_used' = [pid_used EXCEPT ![p] = FALSE]
    /\ owner' = [owner EXCEPT ![p] = 0]
    /\ level' = [level EXCEPT ![p] = 0]
    /\ UNCHANGED process_num

\* The slot and its place in the terminal's count are given back.
Release(p) ==
    /\ pid_used' = [pid_used EXCEPT ![p] = FALSE]
    /\ process_num' = [process_num EXCEPT ![terminal_idx] = @ - 1]
    /\ owner' = [owner EXCEPT ![p] = 0]
    /\ level' = [level EXCEPT ![p] = 0]

\* The page of the process that ran before stays mapped.
ResumeUnmapped(p) == pid_num' = p /\ esp0' = p /\ UNCHANGED user_page

\* Kernel stack and user page of the process that runs next.
Resume(p) == pid_num' = p /\ esp0' = p /\ user_page' = p

HaltChild ==
    LET parent == prev_pcb[pid_num] IN
    /\ pc = "run"
    /\ parent # NULL
    /\ Release(pid_num)
    /\ Resume(parent)
    /\ cur_pid' = [cur_pid EXCEPT ![terminal_idx] = parent]     \* HALT_LABEL
    /\ eax' = 0
    /\ UNCHANGED <<pc, terminal_idx, prev_pcb, running, term_pid>>

HaltShell ==
    /\ pc = "run"
    /\ prev_pcb[pid_num] = NULL
    /\ Release(pid_num)
    /\ running' = [running EXCEPT ![terminal_idx] = FALSE]
    /\ pid_num' = NULL
    /\ esp0' = NULL
    /\ cur_pid' = [cur_pid EXCEPT ![terminal_idx] = NULL]       \* HALT_LABEL
    /\ pc' = "respawn"
    /\ UNCHANGED <<terminal_idx, prev_pcb, term_pid, user_page, eax>>

-----------------------------------------------------------------------------
(* Alt+Fn *)

SwitchToRunning(t) ==
    LET saved == [cur_pid EXCEPT ![terminal_idx] = pid_num] IN
    /\ pc = "run"
    /\ running[t]
    /\ cur_pid' = saved
    /\ terminal_idx' = t
    /\ Resume(saved[t])
    /\ UNCHANGED <<pc, pid_used, prev_pcb, running, term_pid, process_num, eax, histVars>>

SwitchToNew(t) ==
    /\ pc = "run"
    /\ ~running[t]
    /\ cur_pid' = [cur_pid EXCEPT ![terminal_idx] = pid_num]
    /\ terminal_idx' = t
    /\ pc' = "start"
    /\ UNCHANGED <<procVars, running, term_pid, process_num, cpuVars, eax, histVars>>

\* The machine does nothing more.
Crashed == pc = "crash" /\ UNCHANGED vars

Next ==
    \/ BootShell \/ StartShell \/ RespawnShell \/ StartFails
    \/ \E isShell \in BOOLEAN : Execute(isShell)
    \/ ExecuteNoProgram \/ ExecuteNoSlot
    \/ HaltChild \/ HaltShell
    \/ \E t \in Term : SwitchToRunning(t) \/ SwitchToNew(t)
    \/ Crashed

Spec == Init /\ [][Next]_vars

-----------------------------------------------------------------------------
(* Properties *)

\* Every variable stays in its range: in particular process_num neither
\* wraps below zero in halt nor passes the limit execute enforces.
TypeOK ==
    /\ pc \in Control
    /\ terminal_idx \in Term
    /\ pid_num \in Pid \cup {NULL}
    /\ pid_used \in [Pid -> BOOLEAN]
    /\ prev_pcb \in [Pid -> Pid \cup {NULL}]
    /\ running \in [Term -> BOOLEAN]
    /\ cur_pid \in [Term -> Pid \cup {NULL}]
    /\ term_pid \in [Term -> Pid \cup {NULL}]
    /\ process_num \in [Term -> 0..PER_TERM]
    /\ user_page \in Pid \cup {NULL}
    /\ esp0 \in Pid \cup {NULL}
    /\ eax \in {0, FAILURE, EXE_EXCEPTION}
    /\ owner \in [Pid -> Term]
    /\ level \in [Pid -> 0..PER_TERM]

\* The process tss.esp0, the user page and the displayed terminal's cur_pid
\* name is the one pid_num names, it holds a slot, and it was started in the
\* terminal on display: no path through execute, halt and the switch leaves
\* one of the four behind.
ContextAgrees ==
    pc = "run" =>
        /\ pid_num \in Pid
        /\ pid_used[pid_num]
        /\ owner[pid_num] = terminal_idx
        /\ cur_pid[terminal_idx] = pid_num
        /\ user_page = pid_num
        /\ esp0 = pid_num

\* A hidden terminal resumes where it was left: its cur_pid is a live process
\* of that terminal and the deepest one of it.
HiddenTerminalsResumable ==
    \A t \in Term : running[t] =>
        /\ cur_pid[t] \in Pid
        /\ pid_used[cur_pid[t]]
        /\ owner[cur_pid[t]] = t
        /\ level[cur_pid[t]] = process_num[t]

\* The processes of a terminal form one line of process_num[t] processes from
\* its base shell (the only one without a parent, named by term_pid) to
\* cur_pid; prev_pcb leads from each one to the live one started just before
\* it.  A slot freed and taken again, by any terminal, never breaks a line.
Lineage ==
    /\ \A p \in Pid : pid_used[p] =>
        /\ running[owner[p]]
        /\ level[p] \in 1..process_num[owner[p]]
        /\ level[p] = 1 <=> prev_pcb[p] = NULL
        /\ level[p] = 1 => term_pid[owner[p]] = p
        /\ prev_pcb[p] # NULL =>
            /\ pid_used[prev_pcb[p]]
            /\ owner[prev_pcb[p]] = owner[p]
            /\ level[p] = level[prev_pcb[p]] + 1
    /\ \A p, q \in Pid :
        pid_used[p] /\ pid_used[q] /\ owner[p] = owner[q] /\ level[p] = level[q] => p = q

\* process_num counts exactly the live processes of its terminal, although the
\* terminal it is counted against is found through terminal_idx each time.
CountsAgree ==
    \A t \in Term :
        process_num[t] = Cardinality({p \in Pid : pid_used[p] /\ owner[p] = t})

\* "user cannot exit last shell program. If so, execute shell again"
\* (syscall.c:259): the slot the base shell gave back is always there for the
\* next one, so execute("shell") at line 261 cannot fail.
RespawnSucceeds == pc = "respawn" => HasRoom

\* A process ends only by its own halt: no execute, switch or halt of another
\* terminal takes the slot of a live process away.
OnlyCurrentEnds ==
    [][\A p \in Pid : pid_used[p] /\ ~pid_used'[p] =>
            p = pid_num /\ \A q \in Pid : pid_used[q] => prev_pcb[q] # p]_vars

\* Nothing that happens on the displayed terminal changes the processes of a
\* hidden one, nor the parent, the count or the process it will resume.
HiddenUntouched ==
    [][\A t \in Term : t # terminal_idx =>
        /\ process_num'[t] = process_num[t]
        /\ cur_pid'[t] = cur_pid[t]
        /\ \A p \in Pid : pid_used[p] /\ owner[p] = t =>
            pid_used'[p] /\ owner'[p] = t /\ prev_pcb'[p] = prev_pcb[p]]_vars
=============================================================================

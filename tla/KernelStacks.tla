----------------------------- MODULE KernelStacks -----------------------------
(***************************************************************************)
(* Processes, with the kernel stacks and with the steps of the execute     *)
(* calls that run with interrupts enabled.                                 *)
(*                                                                         *)
(* halt resumes the esp and ebp that execute stored in the PCB, and Alt+Fn *)
(* resumes the esp and ebp that the keyboard handler stored in term[].     *)
(* Both are addresses inside some process's kernel stack; they mean        *)
(* something only while that stack has not been popped below them.  Here a *)
(* kernel stack is a number of frames, an address is the place of a frame, *)
(* and popping a stack makes the places above it DEAD.                     *)
(*                                                                         *)
(* The first shell of a terminal is executed by the keyboard handler       *)
(* itself (keyboard.c:203), after send_eoi and sti, on the kernel stack of *)
(* the process that was running in the terminal being left.  A key can     *)
(* arrive at any point of it.  SwitchInWindow says whether Alt+Fn does;    *)
(* any other key leaves everything here as it is.                          *)
(***************************************************************************)
EXTENDS Processes

CONSTANTS
    SwitchInWindow, \* may Alt+Fn be pressed while a shell is being loaded?
    DEPTH           \* bound on the frames of a kernel stack in a run

ASSUME StackBounds == SwitchInWindow \in BOOLEAN /\ DEPTH \in Nat \ {0}

BOOT == NULL        \* the stack kernel.c runs on, above every process's
Stack == Pid \cup {BOOT}

\* Where a saved esp and ebp point: frame number "at" of a kernel stack.
NEVER == [stack |-> BOOT, at |-> 0]     \* nothing stored yet
DEAD  == [stack |-> BOOT, at |-> -1]    \* the stack was popped below the frame
Place == [stack : Stack, at : 1..(DEPTH + 1)] \cup {NEVER, DEAD}
Usable(place) == place \notin {NEVER, DEAD}

VARIABLES
    host,       \* the kernel stack in use, or to be used on entry from user code
    depth,      \* frames in use on it
    slot,       \* execute's local pcblock, as a pid, while a shell is loaded
    saved,      \* term_t.esp and ebp: the keyboard handler's frame
    doing,      \* what that frame returns to: a value of pc and of slot
    home        \* pcb_t.esp and ebp: the frame of execute that started a process

stackVars == <<host, depth, slot, saved, doing, home>>
kvars == <<vars, stackVars>>

(***************************************************************************)
(* execute("shell") with IF = 1 is split where a key makes a difference:   *)
(* "boot" and "start" before a slot is taken, "alloc" before running is    *)
(* set, "marked" before the iret to the shell.                             *)
(***************************************************************************)
Windows == {"boot", "start", "alloc", "marked"}

KInit ==
    /\ Init
    /\ host = BOOT
    /\ depth = 0
    /\ slot = NULL
    /\ saved = [t \in Term |-> NEVER]
    /\ doing = [t \in Term |-> [pc |-> "run", slot |-> NULL]]
    /\ home = [p \in Pid |-> NEVER]

-----------------------------------------------------------------------------

Top == [stack |-> host, at |-> depth + 1]

\* Run on stack s with d frames: the frames above are gone.
RunOn(s, d, sv, hm) ==
    LET Survives(place) == IF place.stack = s /\ place.at > d THEN DEAD ELSE place IN
    /\ host' = s
    /\ depth' = d
    /\ saved' = [t \in Term |-> Survives(sv[t])]
    /\ home' = [p \in Pid |-> Survives(hm[p])]

-----------------------------------------------------------------------------
(* System calls: IF = 0 throughout *)

KExecute(isShell) ==
    /\ Execute(isShell)
    /\ RunOn(pid_num', 0, saved, [home EXCEPT ![pid_num'] = Top])
    /\ UNCHANGED <<slot, doing>>

KExecuteFails == (ExecuteNoProgram \/ ExecuteNoSlot) /\ UNCHANGED stackVars

\* HALT_LABEL in the frame of execute, which returns to the parent's user code.
KHaltChild ==
    /\ HaltChild
    /\ Usable(home[pid_num])
    /\ RunOn(home[pid_num].stack, 0, saved, home)
    /\ UNCHANGED <<slot, doing>>

\* HALT_LABEL in the frame of execute, which calls execute again (line 261).
KHaltShell ==
    /\ HaltShell
    /\ Usable(home[pid_num])
    /\ home[pid_num].at < DEPTH
    /\ RunOn(home[pid_num].stack, home[pid_num].at, saved, home)
    /\ UNCHANGED <<slot, doing>>

KRespawnShell ==
    /\ RespawnShell
    /\ RunOn(pid_num', 0, saved, [home EXCEPT ![pid_num'] = Top])
    /\ UNCHANGED <<slot, doing>>

\* halt loads an esp and ebp whose frame is gone: nothing is claimed after it.
HaltIntoDeadFrame ==
    /\ pc = "run"
    /\ ~Usable(home[pid_num])
    /\ pc' = "undefined"
    /\ UNCHANGED <<terminal_idx, procVars, termVars, cpuVars, eax, histVars, stackVars>>

-----------------------------------------------------------------------------
(* execute("shell") with IF = 1, called by kernel.c:303 and keyboard.c:203 *)

\* Lines 153-180: take a slot, fill in pid and prev_pcb.
TakeSlot ==
    /\ pc \in {"boot", "start"}
    /\ HasRoom
    /\ \E p \in Pid :
        /\ FirstFree(p)
        /\ pid_used' = [pid_used EXCEPT ![p] = TRUE]
        /\ prev_pcb' = [prev_pcb EXCEPT ![p] = pid_num]
        /\ pid_num' = p
        /\ slot' = p
        /\ process_num' = [process_num EXCEPT ![terminal_idx] = @ + 1]
        /\ cur_pid' = [cur_pid EXCEPT ![terminal_idx] = p]
        /\ owner' = [owner EXCEPT ![p] = terminal_idx]
        /\ level' = [level EXCEPT ![p] = process_num[terminal_idx] + 1]
    /\ depth' = depth + 1
    /\ pc' = "alloc"
    /\ UNCHANGED <<terminal_idx, running, term_pid, cpuVars, eax, host, saved, doing, home>>

\* Without line 187: the process of the terminal left becomes the parent.
MarkRunningWithParent ==
    /\ pc = "alloc"
    /\ running' = [running EXCEPT ![terminal_idx] = TRUE]
    /\ term_pid' = [term_pid EXCEPT ![terminal_idx] = pid_num]
    /\ pc' = "marked"
    /\ UNCHANGED <<terminal_idx, procVars, cur_pid, process_num, cpuVars,
                   eax, histVars, stackVars>>

\* Lines 182-189: the first shell of the terminal has no parent.
MarkRunning ==
    /\ pc = "alloc"
    /\ IF running[terminal_idx]
       THEN UNCHANGED <<running, term_pid, prev_pcb>>
       ELSE /\ running' = [running EXCEPT ![terminal_idx] = TRUE]
            /\ term_pid' = [term_pid EXCEPT ![terminal_idx] = pid_num]
            /\ prev_pcb' = [prev_pcb EXCEPT ![slot] = NULL]
    /\ pc' = "marked"
    /\ UNCHANGED <<terminal_idx, pid_num, pid_used, cur_pid, process_num, cpuVars,
                   eax, histVars, stackVars>>

\* Lines 191-250: map and load the image, store esp and ebp, iret.
EnterShell ==
    /\ pc = "marked"
    /\ user_page' = pid_num
    /\ esp0' = pid_num
    /\ RunOn(pid_num, 0, saved, [home EXCEPT ![slot] = [stack |-> host, at |-> depth]])
    /\ pc' = "run"
    /\ UNCHANGED <<terminal_idx, procVars, termVars, eax, histVars, slot, doing>>

-----------------------------------------------------------------------------
(* The keyboard handler *)

AltFnArrives == (pc = "run" \/ (SwitchInWindow /\ pc \in Windows)) /\ depth + 1 < DEPTH

\* Line 191 dropped.
SavedNothing == saved

\* Lines 190-192 store cur_pid, esp and ebp of the displayed terminal.
SavedNow == [saved EXCEPT ![terminal_idx] = Top]
DoingNow == [doing EXCEPT ![terminal_idx] = [pc |-> pc, slot |-> slot]]
CurNow   == [cur_pid EXCEPT ![terminal_idx] = pid_num]

\* The handler's own frame is not popped.
ReturnUnpopped(t, sv, dg) ==
    /\ doing' = dg
    /\ RunOn(sv[t].stack, sv[t].at, sv, home)
    /\ pc' = dg[t].pc
    /\ slot' = dg[t].slot

\* Lines 205-217: load the esp and ebp stored for terminal t and return from
\* the call of the handler that stored them.
ReturnTo(t, sv, dg) ==
    /\ doing' = dg
    /\ IF Usable(sv[t])
       THEN /\ RunOn(sv[t].stack, sv[t].at - 1, sv, home)
            /\ pc' = dg[t].pc
            /\ slot' = dg[t].slot
       ELSE /\ pc' = IF sv[t] = NEVER THEN "crash" ELSE "undefined"
            /\ saved' = sv
            /\ UNCHANGED <<host, depth, slot, home>>

KSwitchToRunning(t) ==
    /\ AltFnArrives
    /\ running[t]
    /\ cur_pid' = CurNow
    /\ terminal_idx' = t
    /\ pid_num' = CurNow[t]
    /\ user_page' = CurNow[t]
    /\ esp0' = CurNow[t]
    /\ ReturnTo(t, SavedNow, DoingNow)
    /\ UNCHANGED <<pid_used, prev_pcb, running, term_pid, process_num, eax, histVars>>

\* The handler goes on to execute("shell") on the stack it interrupted.
KSwitchToNew(t) ==
    /\ AltFnArrives
    /\ ~running[t]
    /\ cur_pid' = CurNow
    /\ terminal_idx' = t
    /\ saved' = SavedNow
    /\ doing' = DoingNow
    /\ depth' = depth + 1
    /\ pc' = "start"
    /\ UNCHANGED <<procVars, running, term_pid, process_num, cpuVars, eax, histVars,
                   host, slot, home>>

\* execute returned EXE_EXCEPTION to the handler.
KStartFails ==
    /\ pc = "start"
    /\ ~HasRoom
    /\ esp0' = pid_num
    /\ ReturnTo(terminal_idx, saved, doing)
    /\ UNCHANGED <<terminal_idx, procVars, termVars, user_page, eax, histVars>>

Stopped == pc \in {"crash", "undefined"} /\ UNCHANGED kvars

KNext ==
    \/ \E isShell \in BOOLEAN : KExecute(isShell)
    \/ KExecuteFails
    \/ KHaltChild \/ KHaltShell \/ KRespawnShell \/ HaltIntoDeadFrame
    \/ TakeSlot \/ MarkRunning \/ EnterShell
    \/ \E t \in Term : KSwitchToRunning(t) \/ KSwitchToNew(t)
    \/ KStartFails
    \/ Stopped

KSpec == KInit /\ [][KNext]_kvars

-----------------------------------------------------------------------------
(* Properties *)

\* Every variable stays in its range, with or without Alt+Fn in the window.
StackTypeOK ==
    /\ pc \in Control \cup Windows \cup {"undefined"}
    /\ pid_num \in Pid \cup {NULL}
    /\ process_num \in [Term -> 0..PER_TERM]
    /\ host \in Stack
    /\ depth \in 0..DEPTH
    /\ slot \in Pid \cup {NULL}
    /\ saved \in [Term -> Place]
    /\ doing \in [Term -> [pc : Windows \cup {"run"}, slot : Pid \cup {NULL}]]
    /\ home \in [Pid -> Place]

\* The frame a child's halt resumes is the bottom frame of its parent's kernel
\* stack, and it outlives every switch and every shell started meanwhile.
ParentFrameLive ==
    \A p \in Pid : pid_used[p] /\ prev_pcb[p] # NULL /\ pc \notin Windows =>
        home[p] = [stack |-> prev_pcb[p], at |-> 1]

\* The frame Alt+Fn loads for a hidden terminal is live, lies on the kernel
\* stack of that terminal's current process and returns to that process.
HiddenFrameLive ==
    \A t \in Term : running[t] /\ t # terminal_idx /\ pc # "undefined" =>
        saved[t] = [stack |-> cur_pid[t], at |-> 1] /\ doing[t].pc = "run"

\* "PCB should store parent ESP&EBP" (buglog.txt:26), so that a process that
\* halts can go back: the frame stored when it was started still exists.
HaltFrameLive == pc = "run" => Usable(home[pid_num])

\* "first check whether the current terminal is running; if it is running,
\* restore" it (terminal.c:468-469): displaying a running terminal resumes the
\* context in which it was left.
SwitchResumes == [][terminal_idx' # terminal_idx => pc' # "undefined"]_kvars
=============================================================================

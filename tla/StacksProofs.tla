----------------------------- MODULE StacksProofs -----------------------------
(***************************************************************************)
(* Proofs about KernelStacks and Paging for every number of slots,         *)
(* terminals and frames; all but NoLateFaultSafe when no Alt+Fn is pressed *)
(* while a shell is loaded.                                                *)
(*                                                                         *)
(* The kernel with its stacks is the process table of Processes seen       *)
(* through the refinement mapping of MCKernelStacks.  The argument goes    *)
(* both ways: a step is a step of Processes because the stacks are where   *)
(* the switch and halt expect them, and the stacks stay there because what *)
(* ProcessesProofs shows of the table holds of the table as it is seen     *)
(* through the mapping.                                                    *)
(***************************************************************************)
EXTENDS MCPaging, FiniteSets, TLAPS

(* The mapping of MCKernelStacks, by name *)
ShownPc      == IF Loading \/ pc = "undefined" THEN "run" ELSE pc
ShownRunning == IF Loading THEN [running EXCEPT ![terminal_idx] = TRUE] ELSE running
ShownTermPid == IF Loading THEN [term_pid EXCEPT ![terminal_idx] = pid_num] ELSE term_pid
ShownPrev    == IF Loading THEN [prev_pcb EXCEPT ![pid_num] = NULL] ELSE prev_pcb
ShownPage    == IF Loading THEN pid_num ELSE user_page
ShownEsp0    == IF Loading THEN pid_num ELSE esp0

\* Processes and what is proved about it, of the table as it is shown.
T == INSTANCE ProcessesProofs WITH
        pc <- ShownPc, running <- ShownRunning, term_pid <- ShownTermPid,
        prev_pcb <- ShownPrev, user_page <- ShownPage, esp0 <- ShownEsp0

\* The two instances of Processes are one.
LEMMA SameTable ==
    /\ P!Init <=> T!Init
    /\ P!Next <=> T!Next
    /\ P!vars = T!vars /\ (P!vars)' = (T!vars)'
BY DEF P!Init, P!Next, P!BootShell, P!StartShell, P!RespawnShell, P!StartFails, P!Execute,
       P!ExecuteNoProgram, P!ExecuteNoSlot, P!HaltChild, P!HaltShell, P!SwitchToRunning,
       P!SwitchToNew, P!Crashed, P!StartProcess, P!HasRoom, P!FirstFree, P!FreePids,
       P!Occupy, P!Release, P!Resume, P!vars, P!procVars, P!termVars, P!cpuVars,
       P!histVars, P!Pid, P!Term, P!NULL, P!FAILURE, P!EXE_EXCEPTION,
       T!Init, T!Next, T!BootShell, T!StartShell, T!RespawnShell, T!StartFails, T!Execute,
       T!ExecuteNoProgram, T!ExecuteNoSlot, T!HaltChild, T!HaltShell, T!SwitchToRunning,
       T!SwitchToNew, T!Crashed, T!StartProcess, T!HasRoom, T!FirstFree, T!FreePids,
       T!Occupy, T!Release, T!Resume, T!vars, T!procVars, T!termVars, T!cpuVars,
       T!histVars, T!Pid, T!Term, T!NULL, T!FAILURE, T!EXE_EXCEPTION,
       ShownPc, ShownRunning, ShownTermPid, ShownPrev, ShownPage, ShownEsp0

-----------------------------------------------------------------------------
(* Where the mapping shows the table as it is *)

\* Between two states in which no shell is being loaded, a step of Processes is
\* one of the table as it is shown.
LEMMA PlainStep ==
  ASSUME ~Loading, pc # "undefined", (~Loading)', pc' # "undefined", Next
  PROVE  T!Next
<1>1. /\ ShownPc = pc /\ ShownRunning = running /\ ShownTermPid = term_pid
      /\ ShownPrev = prev_pcb /\ ShownPage = user_page /\ ShownEsp0 = esp0
  BY DEF ShownPc, ShownRunning, ShownTermPid, ShownPrev, ShownPage, ShownEsp0
<1>2. /\ ShownPc' = pc' /\ ShownRunning' = running' /\ ShownTermPid' = term_pid'
      /\ ShownPrev' = prev_pcb' /\ ShownPage' = user_page' /\ ShownEsp0' = esp0'
  BY DEF ShownPc, ShownRunning, ShownTermPid, ShownPrev, ShownPage, ShownEsp0
<1>3. /\ T!FreePids = FreePids /\ (T!HasRoom <=> HasRoom)
      /\ T!Pid = Pid /\ T!Term = Term /\ T!NULL = NULL
      /\ T!FAILURE = FAILURE /\ T!EXE_EXCEPTION = EXE_EXCEPTION
  BY DEF T!FreePids, FreePids, T!HasRoom, HasRoom, T!Pid, Pid, T!Term, Term, T!NULL, NULL,
         T!FAILURE, FAILURE, T!EXE_EXCEPTION, EXE_EXCEPTION
<1>4. ASSUME NEW isShell \in BOOLEAN, StartProcess(isShell)
      PROVE  T!StartProcess(isShell)
  <2>1. PICK p \in Pid : FirstFree(p) /\ Occupy(p, isShell)
    BY <1>4 DEF StartProcess
  <2>2. T!FirstFree(p)
    BY <1>3, <2>1 DEF FirstFree, T!FirstFree
  <2>3. T!Occupy(p, isShell)
    BY <1>1, <1>2, <1>3, <2>1 DEF Occupy, T!Occupy
  <2> QED
    BY <1>3, <1>4, <2>2, <2>3 DEF StartProcess, T!StartProcess
<1>5. CASE BootShell \/ StartShell \/ RespawnShell
  BY <1>1, <1>4, <1>5 DEF BootShell, StartShell, RespawnShell,
                          T!BootShell, T!StartShell, T!RespawnShell, T!Next
<1>6. CASE \E isShell \in BOOLEAN : Execute(isShell)
  BY <1>1, <1>4, <1>6 DEF Execute, T!Execute, T!Next
<1>7. CASE StartFails \/ ExecuteNoProgram \/ ExecuteNoSlot \/ Crashed
  BY <1>1, <1>2, <1>3, <1>7
     DEF StartFails, ExecuteNoProgram, ExecuteNoSlot, Crashed,
         T!StartFails, T!ExecuteNoProgram, T!ExecuteNoSlot, T!Crashed, T!Next,
         vars, procVars, termVars, cpuVars, histVars,
         T!vars, T!procVars, T!termVars, T!cpuVars, T!histVars
<1>8. CASE HaltChild
  <2>1. T!HaltChild
    BY <1>1, <1>2, <1>3, <1>8
       DEF HaltChild, T!HaltChild, Release, T!Release, Resume, T!Resume
  <2> QED
    BY <2>1 DEF T!Next
<1>9. CASE HaltShell
  <2>1. T!HaltShell
    BY <1>1, <1>2, <1>3, <1>9 DEF HaltShell, T!HaltShell, Release, T!Release
  <2> QED
    BY <2>1 DEF T!Next
<1>10. ASSUME NEW t \in Term, SwitchToRunning(t) PROVE T!Next
  <2>1. T!SwitchToRunning(t)
    BY <1>1, <1>2, <1>3, <1>10
       DEF SwitchToRunning, T!SwitchToRunning, Resume, T!Resume, histVars, T!histVars
  <2> QED
    BY <1>3, <2>1 DEF T!Next
<1>11. ASSUME NEW t \in Term, SwitchToNew(t) PROVE T!Next
  <2>1. T!SwitchToNew(t)
    BY <1>1, <1>2, <1>3, <1>11
       DEF SwitchToNew, T!SwitchToNew, histVars, T!histVars,
           procVars, cpuVars, T!procVars, T!cpuVars
  <2> QED
    BY <1>3, <2>1 DEF T!Next
<1> QED
  BY <1>5, <1>6, <1>7, <1>8, <1>9, <1>10, <1>11 DEF Next

-----------------------------------------------------------------------------
(* The invariant *)

Types ==
    /\ running \in [Term -> BOOLEAN]
    /\ term_pid \in [Term -> Pid \cup {NULL}]
    /\ prev_pcb \in [Pid -> Pid \cup {NULL}]
    /\ user_page \in Pid \cup {NULL} /\ esp0 \in Pid \cup {NULL}
    /\ host \in Stack /\ depth \in 0..DEPTH /\ slot \in Pid \cup {NULL}
    /\ saved \in [Term -> Place] /\ home \in [Pid -> Place]
    /\ doing \in [Term -> [pc : Windows \cup {"run"}, slot : Pid \cup {NULL}]]

(***************************************************************************)
(* What execute has still to do while a shell is loaded, and how much of a *)
(* stack is in use when it begins.  A terminal that was never displayed    *)
(* has nothing saved: a failed start loads the esp it never had.           *)
(***************************************************************************)
Loaded ==
    /\ pc \in Control \cup {"alloc", "marked", "undefined"}
    /\ pc = "run" => host = pid_num /\ depth = 0
    /\ pc = "boot" => depth = 0
    /\ pc = "start" => depth < DEPTH /\ esp0 = pid_num
    /\ Loading => slot = pid_num /\ pid_num \in Pid /\ depth > 0
    /\ pc = "alloc" => ~running[terminal_idx]
    /\ pc = "marked" =>
        running[terminal_idx] /\ term_pid[terminal_idx] = pid_num /\ prev_pcb[pid_num] = NULL
    /\ \A t \in Term : ~running[t] /\ (t # terminal_idx \/ pc \in {"boot", "start"}) =>
        saved[t] = NEVER

\* A child's halt resumes the bottom frame of its parent's kernel stack.
Parents ==
    \A p \in Pid : pid_used[p] /\ ShownPrev[p] # NULL =>
        home[p] = [stack |-> ShownPrev[p], at |-> 1]

\* Alt+Fn resumes the bottom frame of the kernel stack it left.
Hidden ==
    \A t \in Term : running[t] /\ t # terminal_idx =>
        saved[t] = [stack |-> cur_pid[t], at |-> 1] /\ doing[t].pc = "run"

Stacks == Types /\ Loaded /\ Parents /\ Hidden

\* What the invariant of Processes says of the table as it is shown.
LEMMA TableFacts ==
  ASSUME T!IInv
  PROVE  /\ terminal_idx \in Term /\ pid_num \in Pid \cup {NULL}
         /\ pid_used \in [Pid -> BOOLEAN]
         /\ cur_pid \in [Term -> Pid \cup {NULL}]
         /\ process_num \in [Term -> 0..PER_TERM]
         /\ owner \in [Pid -> Term] /\ level \in [Pid -> 0..PER_TERM]
         /\ \A t \in Term : ShownRunning[t] =>
              /\ cur_pid[t] \in Pid /\ pid_used[cur_pid[t]] /\ owner[cur_pid[t]] = t
              /\ \A q \in Pid : pid_used[q] => ShownPrev[q] # cur_pid[t]
         /\ \A q \in Pid : pid_used[q] /\ ShownPrev[q] # NULL =>
              /\ ShownPrev[q] \in Pid /\ pid_used[ShownPrev[q]]
              /\ owner[ShownPrev[q]] = owner[q] /\ level[q] = level[ShownPrev[q]] + 1
         /\ \A q, r \in Pid :
              pid_used[q] /\ pid_used[r] /\ owner[q] = owner[r] /\ level[q] = level[r] => q = r
         /\ ShownPc \in {"boot", "start", "respawn"} => ~ShownRunning[terminal_idx]
<1>1. T!Pid = Pid /\ T!Term = Term /\ T!NULL = NULL
  BY DEF T!Pid, Pid, T!Term, Term, T!NULL, NULL
<1>2. T!TypeOK /\ T!HiddenTerminalsResumable /\ T!Lineage /\ T!Idle
  BY DEF T!IInv
<1>3. /\ terminal_idx \in Term /\ pid_num \in Pid \cup {NULL}
      /\ pid_used \in [Pid -> BOOLEAN]
      /\ cur_pid \in [Term -> Pid \cup {NULL}]
      /\ process_num \in [Term -> 0..PER_TERM]
      /\ owner \in [Pid -> Term] /\ level \in [Pid -> 0..PER_TERM]
      /\ ShownPrev \in [Pid -> Pid \cup {NULL}]
  BY <1>1, <1>2 DEF T!TypeOK
<1>4. \A t \in Term : ShownRunning[t] =>
        cur_pid[t] \in Pid /\ pid_used[cur_pid[t]] /\ owner[cur_pid[t]] = t
  BY <1>1, <1>2 DEF T!HiddenTerminalsResumable
<1>5. \A q \in Pid : pid_used[q] /\ ShownPrev[q] # NULL =>
        /\ ShownPrev[q] \in Pid /\ pid_used[ShownPrev[q]]
        /\ owner[ShownPrev[q]] = owner[q] /\ level[q] = level[ShownPrev[q]] + 1
  BY <1>1, <1>2, <1>3 DEF T!Lineage
<1>6. \A q, r \in Pid :
        pid_used[q] /\ pid_used[r] /\ owner[q] = owner[r] /\ level[q] = level[r] => q = r
  BY <1>1, <1>2 DEF T!Lineage
<1>7. ShownPc \in {"boot", "start", "respawn"} => ~ShownRunning[terminal_idx]
  BY <1>2 DEF T!Idle
<1>8. ASSUME NEW t \in Term, ShownRunning[t], NEW q \in Pid, pid_used[q]
      PROVE  ShownPrev[q] # cur_pid[t]
  <2> SUFFICES ASSUME ShownPrev[q] = cur_pid[t] PROVE FALSE
    OBVIOUS
  <2>1. level[cur_pid[t]] = process_num[t]
    BY <1>1, <1>2, <1>8 DEF T!HiddenTerminalsResumable
  <2>2. owner[q] = t /\ level[q] = process_num[t] + 1
    BY <1>4, <1>5, <1>8, <2>1 DEF Pid, NULL
  <2>3. level[q] \in 1..process_num[t]
    BY <1>1, <1>2, <1>8, <2>2 DEF T!Lineage
  <2> QED
    BY <1>3, <2>2, <2>3, ProcessBounds
<1> QED
  BY <1>3, <1>4, <1>5, <1>6, <1>7, <1>8

\* While a process runs, it and its terminal are the ones every variable names.
LEMMA RunFacts ==
  ASSUME T!IInv, pc = "run"
  PROVE  /\ ~Loading /\ ShownRunning = running /\ ShownPrev = prev_pcb
         /\ pid_num \in Pid /\ pid_used[pid_num] /\ owner[pid_num] = terminal_idx
         /\ running[terminal_idx] /\ cur_pid[terminal_idx] = pid_num
         /\ user_page = pid_num /\ esp0 = pid_num
<1>1. /\ ShownPc = "run" /\ ~Loading /\ ShownRunning = running /\ ShownPrev = prev_pcb
      /\ ShownPage = user_page /\ ShownEsp0 = esp0
  BY DEF ShownPc, Loading, ShownRunning, ShownPrev, ShownPage, ShownEsp0
<1>2. T!Pid = Pid
  BY DEF T!Pid, Pid
<1>3. T!ContextAgrees
  BY DEF T!IInv
<1>4. /\ pid_num \in Pid /\ pid_used[pid_num] /\ owner[pid_num] = terminal_idx
      /\ cur_pid[terminal_idx] = pid_num /\ user_page = pid_num /\ esp0 = pid_num
  BY <1>1, <1>2, <1>3 DEF T!ContextAgrees
<1>5. running[terminal_idx]
  BY <1>1, ProcessBounds, T!CurrentIsDeepest
<1> QED
  BY <1>1, <1>4, <1>5

-----------------------------------------------------------------------------
(* Every step is a step of Processes, or none *)

\* Taking the slot is the step in which the shell starts.
LEMMA TakeSlotStarts ==
  ASSUME T!IInv, Stacks, TakeSlot
  PROVE  T!Next
<1>0. /\ pc \in {"boot", "start"} /\ ~Loading /\ pc' = "alloc" /\ Loading'
      /\ ShownPc = pc /\ ShownRunning = running /\ ShownTermPid = term_pid
      /\ ShownPrev = prev_pcb /\ ShownPage = user_page /\ ShownEsp0 = esp0
  BY DEF TakeSlot, Loading, ShownPc, ShownRunning, ShownTermPid, ShownPrev, ShownPage, ShownEsp0
<1>1. ~running[terminal_idx] /\ terminal_idx \in Term
  BY <1>0, TableFacts
<1>2. PICK p \in Pid :
        /\ FirstFree(p)
        /\ pid_used' = [pid_used EXCEPT ![p] = TRUE]
        /\ prev_pcb' = [prev_pcb EXCEPT ![p] = pid_num]
        /\ pid_num' = p
        /\ process_num' = [process_num EXCEPT ![terminal_idx] = @ + 1]
        /\ cur_pid' = [cur_pid EXCEPT ![terminal_idx] = p]
        /\ owner' = [owner EXCEPT ![p] = terminal_idx]
        /\ level' = [level EXCEPT ![p] = process_num[terminal_idx] + 1]
        /\ HasRoom
        /\ UNCHANGED <<terminal_idx, running, term_pid, eax>>
  BY DEF TakeSlot
<1>3. /\ ShownPc' = "run" /\ ShownPage' = p /\ ShownEsp0' = p
      /\ ShownRunning' = [running EXCEPT ![terminal_idx] = TRUE]
      /\ ShownTermPid' = [term_pid EXCEPT ![terminal_idx] = p]
  BY <1>0, <1>2 DEF ShownPc, ShownRunning, ShownTermPid, ShownPage, ShownEsp0
<1>4. ShownPrev' = [prev_pcb EXCEPT ![p] = NULL]
  <2>1. ShownPrev' = [prev_pcb' EXCEPT ![p] = NULL]
    BY <1>0, <1>2 DEF ShownPrev
  <2> QED
    BY <1>2, <2>1 DEF Stacks, Types
<1>5. /\ T!FreePids = FreePids /\ (T!HasRoom <=> HasRoom)
      /\ T!Pid = Pid /\ T!Term = Term /\ T!NULL = NULL
  BY DEF T!FreePids, FreePids, T!HasRoom, HasRoom, T!Pid, Pid, T!Term, Term, T!NULL, NULL
<1>6. T!FirstFree(p)
  BY <1>2, <1>5 DEF FirstFree, T!FirstFree
<1>7. T!Occupy(p, TRUE)
  <2>1. (ShownRunning[terminal_idx] \/ (TRUE /\ ~ShownRunning[terminal_idx])) = TRUE
    BY <1>0, <1>1
  <2>2. ShownRunning' = [ShownRunning EXCEPT ![terminal_idx] =
                            @ \/ (TRUE /\ ~ShownRunning[terminal_idx])]
    BY <1>0, <1>3, <2>1
  <2> QED
    BY <1>0, <1>1, <1>2, <1>3, <1>4, <1>5, <2>2 DEF T!Occupy
<1>8. T!StartProcess(TRUE)
  BY <1>2, <1>5, <1>6, <1>7 DEF T!StartProcess
<1> QED
  BY <1>0, <1>8 DEF T!BootShell, T!StartShell, T!Next

\* What execute does after that is not seen.
LEMMA LoadingUnseen ==
  ASSUME T!IInv, Stacks, MarkRunning \/ EnterShell
  PROVE  UNCHANGED T!vars
<1>1. terminal_idx \in Term
  BY TableFacts
<1>2. CASE MarkRunning
  <2>1. Loading /\ Loading' /\ slot = pid_num /\ pid_num \in Pid /\ ~running[terminal_idx]
    BY <1>2 DEF MarkRunning, Loading, Stacks, Loaded
  <2>2. /\ UNCHANGED <<terminal_idx, pid_num, pid_used, cur_pid, process_num, eax, histVars>>
        /\ running' = [running EXCEPT ![terminal_idx] = TRUE]
        /\ term_pid' = [term_pid EXCEPT ![terminal_idx] = pid_num]
        /\ prev_pcb' = [prev_pcb EXCEPT ![pid_num] = NULL]
    BY <1>2, <2>1 DEF MarkRunning
  <2>3. /\ ShownPc' = ShownPc /\ ShownPage' = ShownPage /\ ShownEsp0' = ShownEsp0
    BY <2>1, <2>2 DEF ShownPc, ShownPage, ShownEsp0
  <2>4. ShownRunning' = ShownRunning
    BY <1>1, <2>1, <2>2, Zenon DEF ShownRunning, Stacks, Types
  <2>5. ShownTermPid' = ShownTermPid /\ ShownPrev' = ShownPrev
    BY <1>1, <2>1, <2>2 DEF ShownTermPid, ShownPrev, Stacks, Types
  <2> QED
    BY <2>2, <2>3, <2>4, <2>5
       DEF histVars, T!vars, T!procVars, T!termVars, T!cpuVars, T!histVars
<1>3. CASE EnterShell
  <2>1. /\ Loading /\ ~Loading' /\ pc' = "run" /\ pid_num \in Pid
        /\ running[terminal_idx] /\ term_pid[terminal_idx] = pid_num /\ prev_pcb[pid_num] = NULL
    BY <1>3 DEF EnterShell, Loading, Stacks, Loaded
  <2>2. /\ UNCHANGED <<terminal_idx, procVars, termVars, eax, histVars>>
        /\ user_page' = pid_num /\ esp0' = pid_num
    BY <1>3 DEF EnterShell
  <2>3. ShownPc' = ShownPc /\ ShownPage' = ShownPage /\ ShownEsp0' = ShownEsp0
    BY <2>1, <2>2 DEF ShownPc, ShownPage, ShownEsp0
  <2>4. ShownRunning' = ShownRunning
    <3>1. [running EXCEPT ![terminal_idx] = TRUE] = running
      <4>1. running \in [Term -> BOOLEAN] /\ running[terminal_idx] = TRUE
        BY <1>1, <2>1 DEF Stacks, Types
      <4> QED
        BY <4>1
    <3> QED
      BY <2>1, <2>2, <3>1 DEF ShownRunning, termVars
  <2>5. ShownTermPid' = ShownTermPid /\ ShownPrev' = ShownPrev
    BY <1>1, <2>1, <2>2 DEF ShownTermPid, ShownPrev, termVars, procVars, Stacks, Types
  <2> QED
    BY <2>2, <2>3, <2>4, <2>5
       DEF procVars, termVars, histVars, T!vars, T!procVars, T!termVars, T!cpuVars, T!histVars
<1> QED
  BY <1>2, <1>3

\* The keyboard handler resumes what it saved, which is a running process.
LEMMA SwitchIsSwitch ==
  ASSUME ~SwitchInWindow, T!IInv, Stacks, NEW t \in Term
  PROVE  /\ KSwitchToRunning(t) => SwitchToRunning(t) /\ slot' \in Pid \cup {NULL}
         /\ KSwitchToNew(t) => SwitchToNew(t)
<1>1. ASSUME KSwitchToRunning(t)
      PROVE  SwitchToRunning(t) /\ slot' \in Pid \cup {NULL}
  <2>1. pc = "run" /\ running[t]
    BY <1>1 DEF KSwitchToRunning, AltFnArrives
  <2>2. terminal_idx \in Term /\ cur_pid \in [Term -> Pid \cup {NULL}]
    BY TableFacts
  <2>3. Usable(SavedNow[t]) /\ DoingNow[t].pc = "run" /\ DoingNow[t].slot \in Pid \cup {NULL}
    <3>1. CASE t = terminal_idx
      BY <3>1, <2>1, <2>2 DEF Stacks, Types, Loaded, SavedNow, DoingNow, Top, Usable, NEVER, DEAD
    <3>2. CASE t # terminal_idx
      <4>1. saved[t] = [stack |-> cur_pid[t], at |-> 1] /\ doing[t].pc = "run"
        BY <3>2, <2>1 DEF Stacks, Hidden
      <4>2. SavedNow[t] = saved[t] /\ DoingNow[t] = doing[t]
        BY <3>2, <2>2 DEF Stacks, Types, SavedNow, DoingNow
      <4> QED
        BY <4>1, <4>2 DEF Usable, NEVER, DEAD, Stacks, Types
    <3> QED
      BY <3>1, <3>2
  <2>4. pc' = "run" /\ slot' \in Pid \cup {NULL}
    BY <1>1, <2>3 DEF KSwitchToRunning, ReturnTo
  <2> QED
    BY <1>1, <2>1, <2>4 DEF KSwitchToRunning, SwitchToRunning, Resume, CurNow
<1>2. ASSUME KSwitchToNew(t)
      PROVE  SwitchToNew(t)
  BY <1>2 DEF KSwitchToNew, AltFnArrives, SwitchToNew, CurNow
<1> QED
  BY <1>1, <1>2

\* A shell that finds no slot leaves the handler with nothing to return to.
LEMMA FailedStart ==
  ASSUME T!IInv, Stacks, KStartFails
  PROVE  StartFails /\ pc' = "crash" /\ UNCHANGED <<host, depth, slot, saved, doing, home>>
<1>1. pc = "start" /\ ~Loading /\ ShownPc = pc /\ ShownRunning = running
  BY DEF KStartFails, Loading, ShownPc, ShownRunning
<1>2. terminal_idx \in Term /\ ~running[terminal_idx]
  BY <1>1, TableFacts
<1>3. saved[terminal_idx] = NEVER /\ esp0 = pid_num
  BY <1>1, <1>2 DEF Stacks, Loaded
<1>4. pc' = "crash" /\ UNCHANGED <<host, depth, slot, saved, doing, home>>
  BY <1>3 DEF KStartFails, ReturnTo, Usable
<1> QED
  BY <1>1, <1>3, <1>4 DEF KStartFails, StartFails, cpuVars

\* Each step of the kernel with its stacks is one of the table as it is shown.
LEMMA TableStep ==
  ASSUME ~SwitchInWindow, T!IInv, Stacks, [KNext]_kvars
  PROVE  [T!Next]_(T!vars)
<1>1. ASSUME Next, ~Loading, pc # "undefined", ~Loading', pc' # "undefined"
      PROVE  T!Next
  BY <1>1, PlainStep
<1>2. ASSUME NEW isShell \in BOOLEAN, KExecute(isShell)
      PROVE  T!Next
  <2>1. Execute(isShell) /\ pc = "run" /\ pc' = "run"
    BY <1>2 DEF KExecute, Execute, StartProcess, Occupy
  <2> QED
    BY <1>1, <2>1 DEF Next, Loading
<1>3. CASE KExecuteFails
  <2>1. (ExecuteNoProgram \/ ExecuteNoSlot) /\ pc = "run" /\ pc' = "run"
    BY <1>3 DEF KExecuteFails, ExecuteNoProgram, ExecuteNoSlot
  <2> QED
    BY <1>1, <2>1 DEF Next, Loading
<1>4. CASE KHaltChild \/ KHaltShell \/ KRespawnShell
  <2>1. /\ HaltChild \/ HaltShell \/ RespawnShell
        /\ pc \in {"run", "respawn"} /\ pc' \in {"run", "respawn"}
    BY <1>4 DEF KHaltChild, KHaltShell, KRespawnShell, HaltChild, HaltShell, RespawnShell,
                StartProcess, Occupy
  <2> QED
    BY <1>1, <2>1 DEF Next, Loading
<1>5. CASE HaltIntoDeadFrame
  <2>1. /\ pc = "run" /\ pc' = "undefined"
        /\ UNCHANGED <<terminal_idx, procVars, termVars, cpuVars, eax, histVars>>
    BY <1>5 DEF HaltIntoDeadFrame
  <2>2. ~Loading /\ ~Loading'
    BY <2>1 DEF Loading
  <2>3. UNCHANGED T!vars
    BY <2>1, <2>2 DEF procVars, termVars, cpuVars, histVars,
         T!vars, T!procVars, T!termVars, T!cpuVars, T!histVars,
         ShownPc, ShownRunning, ShownTermPid, ShownPrev, ShownPage, ShownEsp0
  <2> QED
    BY <2>3
<1>6. CASE TakeSlot
  BY <1>6, TakeSlotStarts
<1>7. CASE MarkRunning \/ EnterShell
  BY <1>7, LoadingUnseen
<1>8. ASSUME NEW t \in Term, KSwitchToRunning(t) \/ KSwitchToNew(t)
      PROVE  T!Next
  <2>1. SwitchToRunning(t) \/ SwitchToNew(t)
    BY <1>8, SwitchIsSwitch
  <2>2. pc = "run" /\ pc' \in {"run", "start"}
    BY <2>1 DEF SwitchToRunning, SwitchToNew
  <2> QED
    BY <1>1, <2>1, <2>2 DEF Next, Loading
<1>9. CASE KStartFails
  <2>1. StartFails /\ pc \in {"boot", "start", "respawn"} /\ pc' = "crash"
    BY <1>9, FailedStart DEF StartFails
  <2> QED
    BY <1>1, <2>1 DEF Next, Loading
<1>10. CASE Stopped \/ UNCHANGED kvars
  <2>1. UNCHANGED T!vars
    BY <1>10 DEF Stopped, kvars, vars, procVars, termVars, cpuVars, histVars, Loading,
         T!vars, T!procVars, T!termVars, T!cpuVars, T!histVars,
         ShownPc, ShownRunning, ShownTermPid, ShownPrev, ShownPage, ShownEsp0
  <2> QED
    BY <2>1
<1> QED
  BY <1>2, <1>3, <1>4, <1>5, <1>6, <1>7, <1>8, <1>9, <1>10 DEF KNext

-----------------------------------------------------------------------------
(* The stacks *)

BottomOf(s) == [stack |-> s, at |-> 1]

\* Running on stack s with d frames takes nothing from other stacks, and the
\* bottom frame of s only when no frame is left.
LEMMA Survival ==
  ASSUME NEW s \in Stack, NEW d \in 0..DEPTH,
         NEW sv \in [Term -> Place], NEW hm \in [Pid -> Place],
         RunOn(s, d, sv, hm)
  PROVE  /\ host' = s /\ depth' = d
         /\ saved' \in [Term -> Place] /\ home' \in [Pid -> Place]
         /\ \A t \in Term : sv[t] = NEVER => saved'[t] = NEVER
         /\ \A t \in Term, q \in Stack :
              sv[t] = BottomOf(q) /\ (q # s \/ d > 0) => saved'[t] = BottomOf(q)
         /\ \A p \in Pid, q \in Stack :
              hm[p] = BottomOf(q) /\ (q # s \/ d > 0) => home'[p] = BottomOf(q)
<1> DEFINE Left(place) == IF place.stack = s /\ place.at > d THEN DEAD ELSE place
<1>1. /\ host' = s /\ depth' = d
      /\ saved' = [t \in Term |-> Left(sv[t])] /\ home' = [p \in Pid |-> Left(hm[p])]
  BY DEF RunOn
<1>2. DEAD \in Place
  BY DEF Place
<1>3. \A place \in Place : Left(place) \in Place
  BY <1>2
<1>4. Left(NEVER) = NEVER
  BY DEF NEVER
<1>5. \A q \in Stack : q # s \/ d > 0 => Left(BottomOf(q)) = BottomOf(q)
  BY DEF BottomOf
<1> HIDE DEF Left
<1> QED
  BY <1>1, <1>3, <1>4, <1>5

\* The top of the stack in use is a place that can be returned to, and so is the
\* bottom of every stack.
LEMMA PlaceFacts ==
  ASSUME Types
  PROVE  /\ Top \in Place /\ Usable(Top) /\ Top.stack = host /\ Top.at = depth + 1
         /\ NEVER \in Place /\ DEAD \in Place
         /\ \A place \in Place : Usable(place) =>
              place.stack \in Stack /\ place.at \in 1..(DEPTH + 1)
         /\ \A q \in Pid : Usable(BottomOf(q)) /\ q \in Stack
<1>1. Top = [stack |-> host, at |-> depth + 1]
  BY DEF Top
<1>2. host \in Stack /\ depth + 1 \in 1..(DEPTH + 1)
  BY StackBounds DEF Types
<1>3. Top \in Place
  BY <1>1, <1>2 DEF Place
<1>4. Usable(Top)
  BY <1>1, <1>2 DEF Usable, NEVER, DEAD
<1>5. NEVER \in Place /\ DEAD \in Place
  BY DEF Place
<1>6. \A place \in Place : Usable(place) =>
        place.stack \in Stack /\ place.at \in 1..(DEPTH + 1)
  BY DEF Place, Usable
<1>7. \A q \in Pid : Usable(BottomOf(q)) /\ q \in Stack
  BY DEF Usable, BottomOf, NEVER, DEAD, Stack
<1> QED
  BY <1>1, <1>3, <1>4, <1>5, <1>6, <1>7

\* A program that execute starts at once: by a call, or in place of a base shell.
LEMMA StartStacks ==
  ASSUME T!IInv, Stacks, NEW p \in Pid, ~pid_used[p], NEW isShell \in BOOLEAN,
         Occupy(p, isShell),
         RunOn(p, 0, saved, [home EXCEPT ![p] = Top]), UNCHANGED <<slot, doing>>,
         pc = "run" \/ (pc = "respawn" /\ isShell)
  PROVE  Stacks'
<1> DEFINE hm == [home EXCEPT ![p] = Top]
<1>1. Types /\ Loaded /\ Parents /\ Hidden
  BY DEF Stacks
<1>2. p \in Stack /\ 0 \in 0..DEPTH /\ hm \in [Pid -> Place] /\ saved \in [Term -> Place]
  BY <1>1, PlaceFacts, StackBounds DEF Types
<1>3. hm[p] = Top /\ \A q \in Pid : q # p => hm[q] = home[q]
  BY <1>1 DEF Types
<1> HIDE DEF hm
<1>4. RunOn(p, 0, saved, hm)
  BY DEF hm
<1>5. /\ host' = p /\ depth' = 0
      /\ saved' \in [Term -> Place] /\ home' \in [Pid -> Place]
      /\ \A t \in Term : saved[t] = NEVER => saved'[t] = NEVER
      /\ \A t \in Term, q \in Stack : saved[t] = BottomOf(q) /\ q # p => saved'[t] = BottomOf(q)
      /\ \A r \in Pid, q \in Stack : hm[r] = BottomOf(q) /\ q # p => home'[r] = BottomOf(q)
  BY <1>2, <1>4, Survival
<1>6. /\ ~Loading /\ ~Loading' /\ ShownRunning = running /\ ShownPrev = prev_pcb
      /\ ShownPrev' = prev_pcb' /\ pc' = "run" /\ pid_num' = p /\ terminal_idx' = terminal_idx
      /\ ShownPc = pc
  BY DEF Occupy, Loading, ShownRunning, ShownPrev, ShownPc
<1>7. terminal_idx \in Term /\ pid_num \in Pid \cup {NULL} /\ pid_used \in [Pid -> BOOLEAN]
  BY TableFacts
<1>8. CASE pc = "run"
  <2>1. pid_num \in Pid /\ pid_used[pid_num] /\ running[terminal_idx] /\ host = pid_num /\ depth = 0
    BY <1>1, <1>8, RunFacts DEF Loaded
  <2>2. /\ running' = running /\ term_pid' = term_pid /\ user_page' = p /\ esp0' = p
        /\ prev_pcb' = [prev_pcb EXCEPT ![p] = pid_num]
        /\ pid_used' = [pid_used EXCEPT ![p] = TRUE]
        /\ cur_pid' = [cur_pid EXCEPT ![terminal_idx] = p]
    <3>1. running' = running /\ term_pid' = term_pid
      <4>1. running' = [running EXCEPT ![terminal_idx] = @ \/ (isShell /\ ~running[terminal_idx])]
        BY DEF Occupy
      <4>2. (running[terminal_idx] \/ (isShell /\ ~running[terminal_idx])) = running[terminal_idx]
        BY <2>1, <1>1, <1>7 DEF Types
      <4>3. term_pid' = [term_pid EXCEPT ![terminal_idx] = @]
        BY <2>1 DEF Occupy
      <4> QED
        BY <4>1, <4>2, <4>3, <1>1, <1>7 DEF Types
    <3> QED
      BY <2>1, <3>1 DEF Occupy
  <2>3. Types'
    BY <1>1, <1>5, <2>1, <2>2, <1>2, StackBounds DEF Types
  <2>4. Loaded'
    BY <1>1, <1>5, <1>6, <2>2 DEF Loaded, Loading, Control
  <2>5. Parents'
    <3> SUFFICES ASSUME NEW q \in Pid, pid_used'[q], prev_pcb'[q] # NULL
                 PROVE  home'[q] = BottomOf(prev_pcb'[q])
      BY <1>6 DEF Parents, BottomOf
    <3>1. CASE q = p
      <4>1. prev_pcb'[q] = pid_num /\ pid_num # p /\ pid_num \in Stack
        BY <3>1, <2>1, <2>2, <1>1 DEF Types, Stack
      <4>2. hm[q] = BottomOf(pid_num)
        BY <3>1, <1>3, <2>1 DEF Top, BottomOf
      <4> QED
        BY <4>1, <4>2, <1>5
    <3>2. CASE q # p
      <4>1. prev_pcb'[q] = prev_pcb[q] /\ pid_used[q] /\ hm[q] = home[q]
        BY <3>2, <2>2, <1>1, <1>3, <1>7 DEF Types
      <4>2. home[q] = BottomOf(prev_pcb[q])
        BY <4>1, <1>1, <1>6 DEF Parents, BottomOf
      <4>3. prev_pcb[q] \in Pid /\ pid_used[prev_pcb[q]] /\ prev_pcb[q] \in Stack
        BY <4>1, <1>6, TableFacts DEF Stack
      <4> QED
        BY <4>1, <4>2, <4>3, <1>5
    <3> QED
      BY <3>1, <3>2
  <2>6. Hidden'
    <3> SUFFICES ASSUME NEW t \in Term, running[t], t # terminal_idx
                 PROVE  saved'[t] = BottomOf(cur_pid'[t]) /\ doing'[t].pc = "run"
      BY <1>6, <2>2 DEF Hidden, BottomOf
    <3>1. saved[t] = BottomOf(cur_pid[t]) /\ doing[t].pc = "run"
      BY <1>1 DEF Hidden, BottomOf
    <3>2. cur_pid[t] \in Stack /\ cur_pid[t] # p /\ cur_pid'[t] = cur_pid[t]
      BY <1>6, <2>2, TableFacts DEF Stack
    <3> QED
      BY <3>1, <3>2, <1>5
  <2> QED
    BY <2>3, <2>4, <2>5, <2>6 DEF Stacks
<1>9. CASE pc = "respawn" /\ isShell
  <2>1. ~running[terminal_idx]
    BY <1>6, <1>9, TableFacts
  <2>2. /\ running' = [running EXCEPT ![terminal_idx] = TRUE]
        /\ term_pid' = [term_pid EXCEPT ![terminal_idx] = p]
        /\ user_page' = p /\ esp0' = p
        /\ prev_pcb' = [prev_pcb EXCEPT ![p] = NULL]
        /\ pid_used' = [pid_used EXCEPT ![p] = TRUE]
        /\ cur_pid' = [cur_pid EXCEPT ![terminal_idx] = p]
    <3>1. running' = [running EXCEPT ![terminal_idx] = TRUE]
      <4>1. running' = [running EXCEPT ![terminal_idx] = @ \/ (isShell /\ ~running[terminal_idx])]
        BY DEF Occupy
      <4>2. (running[terminal_idx] \/ (isShell /\ ~running[terminal_idx])) = TRUE
        BY <1>9, <2>1
      <4> QED
        BY <4>1, <4>2
    <3> QED
      BY <1>9, <2>1, <3>1 DEF Occupy
  <2>3. Types'
    <3>1. running' \in [Term -> BOOLEAN]
      BY <1>1, <2>2 DEF Types
    <3> QED
      BY <1>1, <1>5, <2>2, <1>2, <3>1, StackBounds DEF Types
  <2>4. Loaded'
    BY <1>1, <1>5, <1>6, <1>7, <2>2 DEF Loaded, Loading, Control, Types
  <2>5. Parents'
    <3> SUFFICES ASSUME NEW q \in Pid, pid_used'[q], prev_pcb'[q] # NULL
                 PROVE  home'[q] = BottomOf(prev_pcb'[q])
      BY <1>6 DEF Parents, BottomOf
    <3>1. q # p
      BY <2>2, <1>1 DEF Types
    <3>2. prev_pcb'[q] = prev_pcb[q] /\ pid_used[q] /\ hm[q] = home[q]
      BY <3>1, <2>2, <1>1, <1>3, <1>7 DEF Types
    <3>3. home[q] = BottomOf(prev_pcb[q])
      BY <3>2, <1>1, <1>6 DEF Parents, BottomOf
    <3>4. prev_pcb[q] \in Pid /\ pid_used[prev_pcb[q]] /\ prev_pcb[q] \in Stack
      BY <3>2, <1>6, TableFacts DEF Stack
    <3> QED
      BY <3>2, <3>3, <3>4, <1>5
  <2>6. Hidden'
    <3> SUFFICES ASSUME NEW t \in Term, running[t], t # terminal_idx
                 PROVE  saved'[t] = BottomOf(cur_pid'[t]) /\ doing'[t].pc = "run"
      BY <1>1, <1>6, <2>2 DEF Hidden, BottomOf, Types
    <3>1. saved[t] = BottomOf(cur_pid[t]) /\ doing[t].pc = "run"
      BY <1>1 DEF Hidden, BottomOf
    <3>2. cur_pid[t] \in Stack /\ cur_pid[t] # p /\ cur_pid'[t] = cur_pid[t]
      BY <1>6, <2>2, TableFacts DEF Stack
    <3> QED
      BY <3>1, <3>2, <1>5
  <2> QED
    BY <2>3, <2>4, <2>5, <2>6 DEF Stacks
<1> QED
  BY <1>8, <1>9

\* halt of a child pops its parent's kernel stack: nobody else's frame is on it.
LEMMA HaltChildStacks ==
  ASSUME T!IInv, Stacks, KHaltChild
  PROVE  Stacks'
<1>1. Types /\ Loaded /\ Parents /\ Hidden
  BY DEF Stacks
<1>2. PICK parent \in Pid \cup {NULL} : parent = prev_pcb[pid_num]
  BY RunFacts, <1>1 DEF KHaltChild, HaltChild, Types
<1>3. /\ pc = "run" /\ pc' = "run" /\ parent # NULL /\ parent \in Pid
      /\ pid_num' = parent /\ user_page' = parent /\ esp0' = parent
      /\ pid_used' = [pid_used EXCEPT ![pid_num] = FALSE]
      /\ cur_pid' = [cur_pid EXCEPT ![terminal_idx] = parent]
      /\ RunOn(home[pid_num].stack, 0, saved, home)
      /\ UNCHANGED <<terminal_idx, prev_pcb, running, term_pid, slot, doing>>
  BY <1>2 DEF KHaltChild, HaltChild, Release, Resume
<1>4. /\ ~Loading /\ ~Loading' /\ ShownRunning = running /\ ShownPrev = prev_pcb
      /\ ShownPrev' = prev_pcb /\ pid_num \in Pid /\ pid_used[pid_num]
      /\ owner[pid_num] = terminal_idx /\ pid_used \in [Pid -> BOOLEAN]
      /\ terminal_idx \in Term
  BY <1>3, RunFacts, TableFacts DEF Loading, ShownPrev
<1>5. home[pid_num] = BottomOf(parent)
  BY <1>1, <1>2, <1>3, <1>4 DEF Parents, BottomOf
<1>6. RunOn(parent, 0, saved, home)
  BY <1>3, <1>5 DEF BottomOf
<1>7. /\ owner[parent] = terminal_idx /\ level[pid_num] = level[parent] + 1
  BY <1>2, <1>3, <1>4, TableFacts
<1>8. /\ host' = parent /\ depth' = 0
      /\ saved' \in [Term -> Place] /\ home' \in [Pid -> Place]
      /\ \A t \in Term : saved[t] = NEVER => saved'[t] = NEVER
      /\ \A t \in Term, q \in Stack : saved[t] = BottomOf(q) /\ q # parent => saved'[t] = BottomOf(q)
      /\ \A r \in Pid, q \in Stack : home[r] = BottomOf(q) /\ q # parent => home'[r] = BottomOf(q)
  <2>1. parent \in Stack /\ 0 \in 0..DEPTH /\ saved \in [Term -> Place] /\ home \in [Pid -> Place]
    BY <1>1, <1>3, StackBounds DEF Types, Stack
  <2> QED
    BY <1>6, <2>1, Survival
<1>9. Types'
  BY <1>1, <1>3, <1>8, StackBounds DEF Types, Stack
<1>10. Loaded'
  BY <1>1, <1>3, <1>4, <1>8 DEF Loaded, Loading, Control
<1>11. Parents'
  <2> SUFFICES ASSUME NEW q \in Pid, pid_used'[q], prev_pcb[q] # NULL
               PROVE  home'[q] = BottomOf(prev_pcb[q])
    BY <1>3, <1>4 DEF Parents, BottomOf
  <2>1. pid_used[q] /\ q # pid_num
    BY <1>3, <1>4
  <2>2. home[q] = BottomOf(prev_pcb[q]) /\ prev_pcb[q] \in Stack
    BY <2>1, <1>1, <1>4, TableFacts DEF Parents, BottomOf, Stack
  <2>3. prev_pcb[q] # parent
    <3> SUFFICES ASSUME prev_pcb[q] = parent PROVE FALSE
      OBVIOUS
    <3>1. owner[q] = owner[parent] /\ level[q] = level[parent] + 1
      BY <2>1, <1>4, TableFacts
    <3>2. owner[q] = owner[pid_num] /\ level[q] = level[pid_num]
      BY <3>1, <1>4, <1>7
    <3> QED
      BY <2>1, <3>2, <1>4, TableFacts
  <2> QED
    BY <2>2, <2>3, <1>8
<1>12. Hidden'
  <2> SUFFICES ASSUME NEW t \in Term, running[t], t # terminal_idx
               PROVE  saved'[t] = BottomOf(cur_pid'[t]) /\ doing'[t].pc = "run"
    BY <1>3 DEF Hidden, BottomOf
  <2>1. saved[t] = BottomOf(cur_pid[t]) /\ doing[t].pc = "run"
    BY <1>1 DEF Hidden, BottomOf
  <2>2. cur_pid[t] \in Stack /\ cur_pid'[t] = cur_pid[t] /\ cur_pid[t] # parent
    BY <1>3, <1>4, <1>7, TableFacts DEF Stack
  <2> QED
    BY <2>1, <2>2, <1>3, <1>8
<1> QED
  BY <1>9, <1>10, <1>11, <1>12 DEF Stacks

\* halt of a base shell resumes a frame that lies above a bottom one, or on it.
LEMMA HaltShellStacks ==
  ASSUME T!IInv, Stacks, KHaltShell
  PROVE  Stacks'
<1>1. Types /\ Loaded /\ Parents /\ Hidden
  BY DEF Stacks
<1>2. pc = "run" /\ pid_num \in Pid /\ pid_used \in [Pid -> BOOLEAN] /\ terminal_idx \in Term
  BY RunFacts, TableFacts DEF KHaltShell, HaltShell
<1>3. PICK place \in Place : place = home[pid_num]
  BY <1>1, <1>2 DEF Types
<1>4. /\ pc' = "respawn" /\ pid_num' = NULL /\ esp0' = NULL
      /\ pid_used' = [pid_used EXCEPT ![pid_num] = FALSE]
      /\ running' = [running EXCEPT ![terminal_idx] = FALSE]
      /\ cur_pid' = [cur_pid EXCEPT ![terminal_idx] = NULL]
      /\ Usable(place) /\ place.at < DEPTH
      /\ RunOn(place.stack, place.at, saved, home)
      /\ UNCHANGED <<terminal_idx, prev_pcb, term_pid, user_page, slot, doing>>
  BY <1>3 DEF KHaltShell, HaltShell, Release
<1>5. PICK s \in Stack, d \in 0..DEPTH : s = place.stack /\ d = place.at /\ d > 0
  BY <1>1, <1>4, PlaceFacts, StackBounds
<1>6. /\ host' = s /\ depth' = d
      /\ saved' \in [Term -> Place] /\ home' \in [Pid -> Place]
      /\ \A t \in Term : saved[t] = NEVER => saved'[t] = NEVER
      /\ \A t \in Term, q \in Stack : saved[t] = BottomOf(q) => saved'[t] = BottomOf(q)
      /\ \A r \in Pid, q \in Stack : home[r] = BottomOf(q) => home'[r] = BottomOf(q)
  <2>1. RunOn(s, d, saved, home) /\ saved \in [Term -> Place] /\ home \in [Pid -> Place]
    BY <1>1, <1>4, <1>5 DEF Types
  <2> QED
    BY <1>5, <2>1, Survival
<1>7. /\ ~Loading /\ ~Loading' /\ ShownRunning = running /\ ShownPrev = prev_pcb
      /\ ShownPrev' = prev_pcb
  BY <1>2, <1>4 DEF Loading, ShownRunning, ShownPrev
<1>8. Types'
  <2>1. running' \in [Term -> BOOLEAN]
    BY <1>1, <1>4 DEF Types
  <2> QED
    BY <1>1, <1>4, <1>6, <2>1 DEF Types, Stack
<1>9. \A t \in Term : t # terminal_idx => running'[t] = running[t] /\ cur_pid'[t] = cur_pid[t]
  BY <1>1, <1>4, TableFacts DEF Types
<1>10. Loaded'
  BY <1>1, <1>2, <1>4, <1>6, <1>7, <1>9 DEF Loaded, Loading, Control
<1>11. Parents'
  <2> SUFFICES ASSUME NEW q \in Pid, pid_used'[q], prev_pcb[q] # NULL
               PROVE  home'[q] = BottomOf(prev_pcb[q])
    BY <1>4, <1>7 DEF Parents, BottomOf
  <2>1. pid_used[q]
    BY <1>2, <1>4
  <2>2. home[q] = BottomOf(prev_pcb[q]) /\ prev_pcb[q] \in Stack
    BY <2>1, <1>1, <1>7, TableFacts DEF Parents, BottomOf, Stack
  <2> QED
    BY <2>2, <1>6
<1>12. Hidden'
  <2> SUFFICES ASSUME NEW t \in Term, running'[t], t # terminal_idx
               PROVE  saved'[t] = BottomOf(cur_pid'[t]) /\ doing'[t].pc = "run"
    BY <1>4 DEF Hidden, BottomOf
  <2>1. running[t] /\ cur_pid'[t] = cur_pid[t]
    BY <1>9
  <2>2. saved[t] = BottomOf(cur_pid[t]) /\ doing[t].pc = "run"
    BY <1>1, <2>1 DEF Hidden, BottomOf
  <2>3. cur_pid[t] \in Stack
    BY <2>1, <1>7, TableFacts DEF Stack
  <2> QED
    BY <2>1, <2>2, <2>3, <1>4, <1>6
<1> QED
  BY <1>8, <1>10, <1>11, <1>12 DEF Stacks

\* Alt+Fn leaves a bottom frame behind and resumes one: the stack it pops is
\* that of a process without children, since it is the current one of its
\* terminal.
LEMMA SwitchStacks ==
  ASSUME ~SwitchInWindow, T!IInv, Stacks, NEW t \in Term, KSwitchToRunning(t)
  PROVE  Stacks'
<1>1. Types /\ Loaded /\ Parents /\ Hidden
  BY DEF Stacks
<1>2. /\ SwitchToRunning(t) /\ pc = "run" /\ pc' = "run" /\ running[t]
      /\ slot' \in Pid \cup {NULL}
  BY SwitchIsSwitch DEF SwitchToRunning
<1>3. /\ pid_num \in Pid /\ terminal_idx \in Term /\ running[terminal_idx]
      /\ cur_pid[terminal_idx] = pid_num /\ host = pid_num /\ depth = 0
      /\ pid_used \in [Pid -> BOOLEAN] /\ cur_pid \in [Term -> Pid \cup {NULL}]
      /\ ~Loading /\ ~Loading' /\ ShownRunning = running /\ ShownPrev = prev_pcb
      /\ pid_used[pid_num] /\ owner[pid_num] = terminal_idx
  BY <1>1, <1>2, RunFacts, TableFacts DEF Loaded, Loading
<1>4. /\ cur_pid' = cur_pid /\ terminal_idx' = t /\ pid_num' = cur_pid[t]
      /\ user_page' = cur_pid[t] /\ esp0' = cur_pid[t]
      /\ UNCHANGED <<pid_used, prev_pcb, running, term_pid, owner, level>>
  <2>1. [cur_pid EXCEPT ![terminal_idx] = pid_num] = cur_pid
    BY <1>3
  <2> QED
    BY <1>2, <2>1 DEF SwitchToRunning, Resume, histVars
<1>5. PICK p \in Pid : p = cur_pid[t] /\ pid_used[p] /\ owner[p] = t
  BY <1>2, <1>3, TableFacts
<1>6. /\ SavedNow \in [Term -> Place] /\ SavedNow[terminal_idx] = BottomOf(pid_num)
      /\ \A u \in Term : u # terminal_idx => SavedNow[u] = saved[u]
      /\ DoingNow \in [Term -> [pc : Windows \cup {"run"}, slot : Pid \cup {NULL}]]
      /\ DoingNow[terminal_idx].pc = "run"
      /\ \A u \in Term : u # terminal_idx => DoingNow[u] = doing[u]
  <2>1. Top \in Place /\ Top = BottomOf(pid_num)
    BY <1>1, <1>3, PlaceFacts DEF Top, BottomOf
  <2>2. [pc |-> pc, slot |-> slot] \in [pc : Windows \cup {"run"}, slot : Pid \cup {NULL}]
    BY <1>1, <1>2 DEF Types
  <2> QED
    BY <1>1, <1>2, <1>3, <2>1, <2>2 DEF SavedNow, DoingNow, Types
<1>7. SavedNow[t] = BottomOf(p)
  BY <1>1, <1>2, <1>3, <1>5, <1>6 DEF Hidden, BottomOf
<1>8. doing' = DoingNow /\ RunOn(p, 0, SavedNow, home)
  <2>1. Usable(SavedNow[t])
    BY <1>1, <1>7, PlaceFacts
  <2> QED
    BY <1>7, <2>1 DEF KSwitchToRunning, ReturnTo, BottomOf
<1>9. /\ host' = p /\ depth' = 0
      /\ saved' \in [Term -> Place] /\ home' \in [Pid -> Place]
      /\ \A u \in Term : SavedNow[u] = NEVER => saved'[u] = NEVER
      /\ \A u \in Term, q \in Stack : SavedNow[u] = BottomOf(q) /\ q # p => saved'[u] = BottomOf(q)
      /\ \A r \in Pid, q \in Stack : home[r] = BottomOf(q) /\ q # p => home'[r] = BottomOf(q)
  <2>1. p \in Stack /\ 0 \in 0..DEPTH /\ home \in [Pid -> Place]
    BY <1>1, StackBounds DEF Types, Stack
  <2> QED
    BY <1>6, <1>8, <2>1, Survival
<1>10. Types'
  BY <1>1, <1>2, <1>4, <1>5, <1>6, <1>8, <1>9, StackBounds DEF Types, Stack
<1>11. Loaded'
  BY <1>1, <1>2, <1>3, <1>4, <1>5, <1>6, <1>9 DEF Loaded, Loading, Control
<1>12. \A q \in Pid : pid_used[q] => prev_pcb[q] # p
  BY <1>2, <1>3, <1>5, TableFacts
<1>13. Parents'
  <2> SUFFICES ASSUME NEW q \in Pid, pid_used[q], prev_pcb[q] # NULL
               PROVE  home'[q] = BottomOf(prev_pcb[q])
    BY <1>3, <1>4 DEF Parents, BottomOf, ShownPrev
  <2>1. home[q] = BottomOf(prev_pcb[q]) /\ prev_pcb[q] \in Stack
    BY <1>1, <1>3, TableFacts DEF Parents, BottomOf, Stack
  <2> QED
    BY <2>1, <1>9, <1>12
<1>14. Hidden'
  <2> SUFFICES ASSUME NEW u \in Term, running[u], u # t
               PROVE  saved'[u] = BottomOf(cur_pid[u]) /\ doing'[u].pc = "run"
    BY <1>4 DEF Hidden, BottomOf
  <2>1. SavedNow[u] = BottomOf(cur_pid[u]) /\ DoingNow[u].pc = "run"
    BY <1>1, <1>3, <1>6 DEF Hidden, BottomOf
  <2>2. cur_pid[u] \in Stack /\ cur_pid[u] # p
    BY <1>3, <1>5, TableFacts DEF Stack
  <2> QED
    BY <2>1, <2>2, <1>8, <1>9
<1> QED
  BY <1>10, <1>11, <1>13, <1>14 DEF Stacks

\* Alt+Fn to a terminal never displayed leaves a bottom frame behind too.
LEMMA SwitchNewStacks ==
  ASSUME ~SwitchInWindow, T!IInv, Stacks, NEW t \in Term, KSwitchToNew(t)
  PROVE  Stacks'
<1>1. Types /\ Loaded /\ Parents /\ Hidden
  BY DEF Stacks
<1>2. /\ pc = "run" /\ pc' = "start" /\ ~running[t] /\ terminal_idx' = t
      /\ saved' = SavedNow /\ doing' = DoingNow /\ depth' = depth + 1 /\ depth + 1 < DEPTH
      /\ cur_pid' = [cur_pid EXCEPT ![terminal_idx] = pid_num]
      /\ UNCHANGED <<procVars, running, term_pid, process_num, cpuVars, host, slot, home>>
  BY DEF KSwitchToNew, AltFnArrives, CurNow
<1>3. /\ pid_num \in Pid /\ terminal_idx \in Term /\ running[terminal_idx]
      /\ cur_pid[terminal_idx] = pid_num /\ host = pid_num /\ depth = 0
      /\ cur_pid \in [Term -> Pid \cup {NULL}] /\ esp0 = pid_num
      /\ ~Loading /\ ~Loading' /\ ShownPrev = prev_pcb
  BY <1>1, <1>2, RunFacts, TableFacts DEF Loaded, Loading
<1>4. cur_pid' = cur_pid /\ ShownPrev' = prev_pcb /\ t # terminal_idx
  BY <1>2, <1>3 DEF ShownPrev, procVars
<1>5. /\ saved' \in [Term -> Place] /\ saved'[terminal_idx] = BottomOf(pid_num)
      /\ \A u \in Term : u # terminal_idx => saved'[u] = saved[u]
      /\ doing' \in [Term -> [pc : Windows \cup {"run"}, slot : Pid \cup {NULL}]]
      /\ doing'[terminal_idx].pc = "run"
      /\ \A u \in Term : u # terminal_idx => doing'[u] = doing[u]
  <2>1. Top \in Place /\ Top = BottomOf(pid_num)
    BY <1>1, <1>3, PlaceFacts DEF Top, BottomOf
  <2>2. [pc |-> pc, slot |-> slot] \in [pc : Windows \cup {"run"}, slot : Pid \cup {NULL}]
    BY <1>1, <1>2 DEF Types
  <2> QED
    BY <1>1, <1>2, <1>3, <2>1, <2>2 DEF SavedNow, DoingNow, Types
<1>6. Types'
  BY <1>1, <1>2, <1>3, <1>5, StackBounds DEF Types, procVars, cpuVars
<1>7. Loaded'
  BY <1>1, <1>2, <1>3, <1>4, <1>5 DEF Loaded, Loading, Control, procVars, cpuVars
<1>8. Parents'
  BY <1>1, <1>2, <1>3, <1>4 DEF Parents, procVars
<1>9. Hidden'
  <2> SUFFICES ASSUME NEW u \in Term, running[u], u # t
               PROVE  saved'[u] = BottomOf(cur_pid[u]) /\ doing'[u].pc = "run"
    BY <1>2, <1>4 DEF Hidden, BottomOf
  <2>1. CASE u = terminal_idx
    BY <2>1, <1>3, <1>5
  <2>2. CASE u # terminal_idx
    <3>1. saved[u] = BottomOf(cur_pid[u]) /\ doing[u].pc = "run"
      BY <2>2, <1>1 DEF Hidden, BottomOf
    <3> QED
      BY <2>2, <3>1, <1>5
  <2> QED
    BY <2>1, <2>2
<1> QED
  BY <1>6, <1>7, <1>8, <1>9 DEF Stacks

\* Taking a slot for a shell adds a frame to the stack the handler runs on.
LEMMA TakeSlotStacks ==
  ASSUME T!IInv, Stacks, TakeSlot
  PROVE  Stacks'
<1>1. Types /\ Loaded /\ Parents /\ Hidden
  BY DEF Stacks
<1>2. PICK p \in Pid :
        /\ FirstFree(p)
        /\ pid_used' = [pid_used EXCEPT ![p] = TRUE]
        /\ prev_pcb' = [prev_pcb EXCEPT ![p] = pid_num]
        /\ pid_num' = p /\ slot' = p
        /\ cur_pid' = [cur_pid EXCEPT ![terminal_idx] = p]
        /\ pc \in {"boot", "start"} /\ pc' = "alloc" /\ depth' = depth + 1
        /\ UNCHANGED <<terminal_idx, running, term_pid, cpuVars, host, saved, doing, home>>
  BY DEF TakeSlot
<1>3. /\ ~Loading /\ Loading' /\ ShownPc = pc /\ ShownRunning = running /\ ShownPrev = prev_pcb
      /\ terminal_idx \in Term /\ pid_num \in Pid \cup {NULL} /\ pid_used \in [Pid -> BOOLEAN]
      /\ cur_pid \in [Term -> Pid \cup {NULL}]
  BY <1>2, TableFacts DEF Loading, ShownPc, ShownRunning, ShownPrev
<1>4. ~running[terminal_idx]
  BY <1>2, <1>3, TableFacts
<1>5. ShownPrev' = [prev_pcb EXCEPT ![p] = NULL]
  <2>1. ShownPrev' = [prev_pcb' EXCEPT ![p] = NULL]
    BY <1>2, <1>3 DEF ShownPrev
  <2> QED
    BY <1>1, <1>2, <2>1 DEF Types
<1>6. depth' \in 0..DEPTH /\ depth' > 0
  <2>1. depth \in 0..DEPTH /\ depth < DEPTH
    BY <1>1, <1>2, StackBounds DEF Types, Loaded
  <2> QED
    BY <1>2, <2>1, StackBounds
<1>7. Types'
  BY <1>1, <1>2, <1>3, <1>6 DEF Types, cpuVars
<1>8. Loaded'
  BY <1>1, <1>2, <1>4, <1>6 DEF Loaded, Loading
<1>9. Parents'
  BY <1>1, <1>2, <1>3, <1>5 DEF Parents, Types
<1>10. Hidden'
  BY <1>1, <1>2, <1>3 DEF Hidden
<1> QED
  BY <1>7, <1>8, <1>9, <1>10 DEF Stacks

\* While a shell is loaded, it is the process the table shows as running.
LEMMA LoadFacts ==
  ASSUME T!IInv, Loading
  PROVE  /\ pid_num \in Pid /\ owner[pid_num] = terminal_idx
         /\ cur_pid[terminal_idx] = pid_num /\ ShownRunning[terminal_idx]
<1>1. ShownPc = "run" /\ T!Pid = Pid
  BY DEF ShownPc, T!Pid, Pid
<1>2. T!ContextAgrees
  BY DEF T!IInv
<1>3. ShownRunning[terminal_idx]
  BY <1>1, ProcessBounds, T!CurrentIsDeepest
<1> QED
  BY <1>1, <1>2, <1>3 DEF T!ContextAgrees

\* MarkRunning moves no stack.
LEMMA MarkStacks ==
  ASSUME T!IInv, Stacks, MarkRunning
  PROVE  Stacks'
<1>1. Types /\ Loaded /\ Parents /\ Hidden
  BY DEF Stacks
<1>2. Loading /\ Loading' /\ slot = pid_num /\ pid_num \in Pid /\ ~running[terminal_idx]
      /\ pc = "alloc" /\ pc' = "marked"
  BY <1>1 DEF MarkRunning, Loading, Loaded
<1>3. /\ UNCHANGED <<terminal_idx, pid_num, pid_used, cur_pid, process_num, cpuVars, stackVars>>
      /\ running' = [running EXCEPT ![terminal_idx] = TRUE]
      /\ term_pid' = [term_pid EXCEPT ![terminal_idx] = pid_num]
      /\ prev_pcb' = [prev_pcb EXCEPT ![pid_num] = NULL]
  BY <1>2 DEF MarkRunning
<1>4. terminal_idx \in Term
  BY TableFacts
<1>5. ShownPrev' = ShownPrev
  BY <1>1, <1>2, <1>3 DEF ShownPrev, Types
<1>6. Types'
  <2>1. running' \in [Term -> BOOLEAN]
    BY <1>1, <1>3 DEF Types
  <2> QED
    BY <1>1, <1>2, <1>3, <2>1 DEF Types, cpuVars, stackVars
<1>7. Loaded'
  BY <1>1, <1>2, <1>3, <1>4 DEF Loaded, Loading, stackVars, Types
<1>8. Parents'
  BY <1>1, <1>3, <1>5 DEF Parents, stackVars
<1>9. Hidden'
  BY <1>1, <1>3 DEF Hidden, stackVars, Types
<1> QED
  BY <1>6, <1>7, <1>8, <1>9 DEF Stacks

\* The shell leaves for user code: nothing of another process is on its stack.
LEMMA EnterStacks ==
  ASSUME T!IInv, Stacks, EnterShell
  PROVE  Stacks'
<1>1. Types /\ Loaded /\ Parents /\ Hidden
  BY DEF Stacks
<1>2. /\ pc = "marked" /\ pc' = "run" /\ Loading /\ ~Loading' /\ slot = pid_num
      /\ depth > 0 /\ running[terminal_idx] /\ prev_pcb[pid_num] = NULL
  BY <1>1 DEF EnterShell, Loading, Loaded
<1>3. PICK p \in Pid : p = pid_num
  BY <1>2, LoadFacts
<1> DEFINE hm == [home EXCEPT ![p] = [stack |-> host, at |-> depth]]
<1>4. /\ user_page' = p /\ esp0' = p /\ RunOn(p, 0, saved, hm)
      /\ UNCHANGED <<terminal_idx, procVars, termVars, slot, doing>>
  BY <1>2, <1>3 DEF EnterShell
<1>5. p \in Stack /\ 0 \in 0..DEPTH /\ hm \in [Pid -> Place] /\ saved \in [Term -> Place]
  <2>1. [stack |-> host, at |-> depth] \in Place
    BY <1>1, <1>2, StackBounds DEF Types, Place
  <2> QED
    BY <1>1, <2>1, StackBounds DEF Types, Stack
<1>6. \A q \in Pid : q # p => hm[q] = home[q]
  BY <1>1 DEF Types
<1> HIDE DEF hm
<1>7. /\ host' = p /\ depth' = 0
      /\ saved' \in [Term -> Place] /\ home' \in [Pid -> Place]
      /\ \A t \in Term : saved[t] = NEVER => saved'[t] = NEVER
      /\ \A t \in Term, q \in Stack : saved[t] = BottomOf(q) /\ q # p => saved'[t] = BottomOf(q)
      /\ \A r \in Pid, q \in Stack : hm[r] = BottomOf(q) /\ q # p => home'[r] = BottomOf(q)
  BY <1>4, <1>5, Survival
<1>8. /\ ShownPrev = prev_pcb /\ ShownPrev' = prev_pcb /\ ShownRunning = running
      /\ terminal_idx \in Term
  <2>1. terminal_idx \in Term
    BY TableFacts
  <2>2. [prev_pcb EXCEPT ![pid_num] = NULL] = prev_pcb
    BY <1>1, <1>2, <1>3 DEF Types
  <2>3. [running EXCEPT ![terminal_idx] = TRUE] = running
    <3>1. running \in [Term -> BOOLEAN] /\ running[terminal_idx] = TRUE
      BY <1>1, <1>2, <2>1 DEF Types
    <3> QED
      BY <3>1
  <2> QED
    BY <1>2, <1>4, <2>1, <2>2, <2>3 DEF ShownPrev, ShownRunning, procVars
<1>9. /\ owner[p] = terminal_idx /\ cur_pid[terminal_idx] = p
  BY <1>2, <1>3, LoadFacts
<1>10. Types'
  BY <1>1, <1>3, <1>4, <1>5, <1>7, StackBounds DEF Types, procVars, termVars
<1>11. Loaded'
  BY <1>1, <1>2, <1>3, <1>4, <1>7 DEF Loaded, Loading, Control, procVars, termVars
<1>12. Parents'
  <2> SUFFICES ASSUME NEW q \in Pid, pid_used[q], prev_pcb[q] # NULL
               PROVE  home'[q] = BottomOf(prev_pcb[q])
    BY <1>4, <1>8 DEF Parents, BottomOf, procVars
  <2>1. home[q] = BottomOf(prev_pcb[q]) /\ hm[q] = home[q]
    BY <1>1, <1>2, <1>3, <1>6, <1>8 DEF Parents, BottomOf
  <2>2. prev_pcb[q] \in Stack /\ prev_pcb[q] # p
    BY <1>2, <1>8, <1>9, TableFacts DEF Stack
  <2> QED
    BY <2>1, <2>2, <1>7
<1>13. Hidden'
  <2> SUFFICES ASSUME NEW t \in Term, running[t], t # terminal_idx
               PROVE  saved'[t] = BottomOf(cur_pid[t]) /\ doing[t].pc = "run"
    BY <1>4 DEF Hidden, BottomOf, termVars
  <2>1. saved[t] = BottomOf(cur_pid[t]) /\ doing[t].pc = "run"
    BY <1>1 DEF Hidden, BottomOf
  <2>2. cur_pid[t] \in Stack /\ cur_pid[t] # p
    BY <1>8, <1>9, TableFacts DEF Stack
  <2> QED
    BY <2>1, <2>2, <1>7
<1> QED
  BY <1>10, <1>11, <1>12, <1>13 DEF Stacks

\* Every step of the kernel leaves the stacks in order.
LEMMA StacksStep ==
  ASSUME ~SwitchInWindow, T!IInv, Stacks, [KNext]_kvars
  PROVE  Stacks'
<1>1. ASSUME NEW isShell \in BOOLEAN, KExecute(isShell)
      PROVE  Stacks'
  <2>1. PICK p \in Pid : FirstFree(p) /\ Occupy(p, isShell)
    BY <1>1 DEF KExecute, Execute, StartProcess
  <2>2. /\ ~pid_used[p] /\ pid_num' = p /\ pc = "run"
        /\ RunOn(p, 0, saved, [home EXCEPT ![p] = Top]) /\ UNCHANGED <<slot, doing>>
    BY <1>1, <2>1 DEF KExecute, Execute, FirstFree, FreePids, Occupy
  <2> QED
    BY <2>1, <2>2, StartStacks
<1>2. CASE KRespawnShell
  <2>1. PICK p \in Pid : FirstFree(p) /\ Occupy(p, TRUE)
    BY <1>2 DEF KRespawnShell, RespawnShell, StartProcess
  <2>2. /\ ~pid_used[p] /\ pid_num' = p /\ pc = "respawn" /\ TRUE \in BOOLEAN
        /\ RunOn(p, 0, saved, [home EXCEPT ![p] = Top]) /\ UNCHANGED <<slot, doing>>
    BY <1>2, <2>1 DEF KRespawnShell, RespawnShell, FirstFree, FreePids, Occupy
  <2> QED
    BY <2>1, <2>2, StartStacks
<1>3. CASE KHaltChild
  BY <1>3, HaltChildStacks
<1>4. CASE KHaltShell
  BY <1>4, HaltShellStacks
<1>5. CASE \E t \in Term : KSwitchToRunning(t) \/ KSwitchToNew(t)
  BY <1>5, SwitchStacks, SwitchNewStacks
<1>6. CASE TakeSlot \/ MarkRunning \/ EnterShell
  BY <1>6, TakeSlotStacks, MarkStacks, EnterStacks
<1>7. CASE KExecuteFails \/ HaltIntoDeadFrame \/ KStartFails \/ Stopped \/ UNCHANGED kvars
  <2>1. /\ UNCHANGED <<terminal_idx, procVars, termVars, cpuVars, stackVars>>
        /\ pc' = pc \/ pc' \in {"undefined", "crash"}
        /\ Loading' => Loading /\ pc' = pc
        /\ Loading => Loading'
    <3>1. CASE KExecuteFails
      BY <3>1 DEF KExecuteFails, ExecuteNoProgram, ExecuteNoSlot, Loading
    <3>2. CASE HaltIntoDeadFrame
      BY <3>2 DEF HaltIntoDeadFrame, Loading
    <3>3. CASE KStartFails
      BY <3>3, FailedStart DEF StartFails, stackVars, Loading
    <3>4. CASE Stopped \/ UNCHANGED kvars
      BY <3>4 DEF Stopped, kvars, vars, Loading
    <3> QED
      BY <1>7, <3>1, <3>2, <3>3, <3>4
  <2>2. Types /\ Loaded /\ Parents /\ Hidden
    BY DEF Stacks
  <2>3. ShownPrev' = ShownPrev
    BY <2>1 DEF ShownPrev, procVars
  <2>4. Types'
    BY <2>1, <2>2 DEF Types, termVars, procVars, cpuVars, stackVars
  <2>5. Loaded'
    BY <2>1, <2>2 DEF Loaded, Control, Loading, termVars, procVars, cpuVars, stackVars
  <2>6. Parents' /\ Hidden'
    BY <2>1, <2>2, <2>3 DEF Parents, Hidden, procVars, termVars, stackVars
  <2> QED
    BY <2>4, <2>5, <2>6 DEF Stacks
<1> QED
  BY <1>1, <1>2, <1>3, <1>4, <1>5, <1>6, <1>7 DEF KNext

-----------------------------------------------------------------------------
(* Theorems about KernelStacks *)

\* At boot the table is empty and the boot stack is in use.
LEMMA StacksInit == KInit => T!IInv /\ Stacks /\ T!Init
<1> SUFFICES ASSUME KInit PROVE T!IInv /\ Stacks /\ T!Init
  OBVIOUS
<1>1. Init /\ ~Loading /\ pc = "boot"
  BY DEF KInit, Init, Loading
<1>2. /\ ShownPc = pc /\ ShownRunning = running /\ ShownTermPid = term_pid
      /\ ShownPrev = prev_pcb /\ ShownPage = user_page /\ ShownEsp0 = esp0
  BY <1>1 DEF ShownPc, ShownRunning, ShownTermPid, ShownPrev, ShownPage, ShownEsp0
<1>3. T!Init
  BY <1>1, <1>2 DEF Init, T!Init, T!Pid, Pid, T!Term, Term, T!NULL, NULL
<1>4. T!IInv
  BY <1>3, ProcessBounds, T!InitInv
<1>5. Types
  <2>1. NEVER \in Place /\ BOOT \in Stack /\ 0 \in 0..DEPTH /\ NULL \in Pid \cup {NULL}
    BY StackBounds DEF Place, Stack
  <2>2. [pc |-> "run", slot |-> NULL] \in [pc : Windows \cup {"run"}, slot : Pid \cup {NULL}]
    BY <2>1
  <2> QED
    BY <1>1, <2>1, <2>2 DEF KInit, Init, Types
<1>6. Loaded /\ Parents /\ Hidden
  BY <1>1 DEF KInit, Init, Loaded, Control, Parents, Hidden
<1> QED
  BY <1>3, <1>4, <1>5, <1>6 DEF Stacks

\* The inductive invariant: that of Processes, of the table as it is shown, and
\* where the stacks stand.
SInv == T!IInv /\ Stacks

\* The table as it is shown and the stacks keep each other right.
LEMMA SInvStep == ~SwitchInWindow /\ SInv /\ [KNext]_kvars => SInv' /\ [T!Next]_(T!vars)
<1> SUFFICES ASSUME ~SwitchInWindow, SInv, [KNext]_kvars
             PROVE  SInv' /\ [T!Next]_(T!vars)
  OBVIOUS
<1>1. T!IInv /\ Stacks
  BY DEF SInv
<1>2. [T!Next]_(T!vars)
  BY <1>1, TableStep
<1>3. T!IInv'
  BY <1>1, <1>2, ProcessBounds, T!StepInv
<1>4. Stacks'
  BY <1>1, StacksStep
<1> QED
  BY <1>2, <1>3, <1>4 DEF SInv

\* The invariant holds in every state.
LEMMA StacksAlways ==
  ASSUME ~SwitchInWindow
  PROVE  KSpec => []SInv
<1>1. KInit => SInv
  BY StacksInit DEF SInv
<1>2. SInv /\ [KNext]_kvars => SInv'
  BY ~SwitchInWindow, SInvStep
<1> QED
  BY <1>1, <1>2, PTL DEF KSpec

\* What the invariant says of the stacks, in the words of KernelStacks.
LEMMA StacksMeaning == SInv => StackTypeOK /\ ParentFrameLive /\ HiddenFrameLive
<1> SUFFICES ASSUME SInv PROVE StackTypeOK /\ ParentFrameLive /\ HiddenFrameLive
  OBVIOUS
<1>1. T!IInv /\ Types /\ Loaded /\ Parents /\ Hidden
  BY DEF SInv, Stacks
<1>2. StackTypeOK
  BY <1>1, TableFacts DEF StackTypeOK, Types, Loaded, Windows
<1>3. ParentFrameLive
  <2> SUFFICES ASSUME NEW p \in Pid, pid_used[p], prev_pcb[p] # NULL, pc \notin Windows
               PROVE  home[p] = [stack |-> prev_pcb[p], at |-> 1]
    BY DEF ParentFrameLive
  <2>1. ShownPrev[p] = prev_pcb[p]
    BY DEF ShownPrev, Loading, Windows
  <2> QED
    BY <1>1, <2>1 DEF Parents
<1>4. HiddenFrameLive
  BY <1>1 DEF HiddenFrameLive, Hidden
<1> QED
  BY <1>2, <1>3, <1>4

\* The frame a child's halt resumes is the bottom frame of its parent's kernel
\* stack, and it outlives every switch and every shell started in between.
THEOREM ParentFrameSafe ==
  ASSUME ~SwitchInWindow
  PROVE  KSpec => []ParentFrameLive
BY StacksAlways, StacksMeaning, PTL

\* The frame Alt+Fn loads for a hidden terminal is live, lies on the kernel
\* stack of that terminal's current process and returns to that process.
THEOREM HiddenFrameSafe ==
  ASSUME ~SwitchInWindow
  PROVE  KSpec => []HiddenFrameLive
BY StacksAlways, StacksMeaning, PTL

\* With no Alt+Fn in the window the kernel, stacks and all, is the process table
\* of Processes: the step that takes the slot starts the shell, what execute
\* does after it is not seen, and the handler resumes exactly what it saved.
THEOREM StacksImplementProcesses ==
  ASSUME ~SwitchInWindow
  PROVE  KSpec => ImplementsProcesses
<1>1. KInit => P!Init
  BY StacksInit, SameTable
<1>2. SInv /\ [KNext]_kvars => [P!Next]_(P!vars)
  BY ~SwitchInWindow, SInvStep, SameTable
<1> QED
  BY <1>1, <1>2, StacksAlways, PTL DEF KSpec, ImplementsProcesses, P!Spec

-----------------------------------------------------------------------------
(* Paging *)

(***************************************************************************)
(* Before the first shell entry only repeats what the tables already say,  *)
(* and has given every terminal a page by the time Alt+Fn can be pressed.  *)
(* The processor keeps nothing but what the tables still give: whoever     *)
(* changes the user page loads CR3, and entry 256 is only ever filled in.  *)
(***************************************************************************)
PagesTyped ==
    /\ boot_step \in 0..Done
    /\ vidmem_addr \in [Term -> Term \cup {NULL_PAGE}]
    /\ vid_entry \in {ABSENT, SCREEN}
    /\ tlb \in [Page -> (1..SCREEN) \cup {ABSENT}]
    /\ mapped \in BOOLEAN /\ faulted \in BOOLEAN

Entered ==
    /\ pc = "boot" =>
        running = [t \in Term |-> FALSE] /\ pid_used = [p \in Pid |-> FALSE]
    /\ pc # "boot" => boot_step = Done
    /\ \A t \in Term : t < boot_step => vidmem_addr[t] = VIDEO_SAVE(t)

Coherent ==
    /\ tlb[USER] # ABSENT => tlb[USER] = user_page
    /\ tlb[VID] # ABSENT => tlb[VID] = SCREEN
    /\ mapped => vid_entry = SCREEN

PInv == SInv /\ PagesTyped /\ Entered /\ Coherent

\* The first step takes the slot of the first shell, and boot is over.
LEMMA BootLeft == ~SwitchInWindow /\ KNext /\ SInv => pc' # "boot" /\ (pc = "boot" => TakeSlot)
<1> SUFFICES ASSUME ~SwitchInWindow, KNext, SInv
             PROVE  pc' # "boot" /\ (pc = "boot" => TakeSlot)
  OBVIOUS
<1>1. T!IInv /\ Stacks
  BY DEF SInv
<1>2. ASSUME NEW isShell \in BOOLEAN, KExecute(isShell)
      PROVE  pc = "run" /\ pc' = "run"
  BY <1>2 DEF KExecute, Execute, StartProcess, Occupy
<1>3. CASE KExecuteFails \/ KHaltChild \/ KHaltShell \/ KRespawnShell \/ HaltIntoDeadFrame
  BY <1>3 DEF KExecuteFails, ExecuteNoProgram, ExecuteNoSlot, KHaltChild, HaltChild,
              KHaltShell, HaltShell, KRespawnShell, RespawnShell, StartProcess, Occupy,
              HaltIntoDeadFrame
<1>4. CASE TakeSlot \/ MarkRunning \/ EnterShell \/ Stopped
  BY <1>4 DEF TakeSlot, MarkRunning, EnterShell, Stopped, kvars, vars
<1>5. ASSUME NEW t \in Term, KSwitchToRunning(t) \/ KSwitchToNew(t)
      PROVE  pc = "run" /\ pc' # "boot"
  <2>1. SwitchToRunning(t) \/ SwitchToNew(t)
    BY <1>1, <1>5, SwitchIsSwitch
  <2> QED
    BY <2>1 DEF SwitchToRunning, SwitchToNew
<1>6. CASE KStartFails
  <2>1. pc = "start"
    BY <1>6 DEF KStartFails
  <2> QED
    BY <1>1, <1>6, <2>1, FailedStart
<1> QED
  BY <1>2, <1>3, <1>4, <1>5, <1>6 DEF KNext

\* Every step is one of KernelStacks, or none.
LEMMA PagingStep ==
  ASSUME PInv, [PNext]_pvars
  PROVE  [KNext]_kvars
<1>1. CASE Kernel
  <2>1. \/ \E isShell \in BOOLEAN : KExecute(isShell)
        \/ KHaltChild \/ KRespawnShell \/ EnterShell
        \/ KExecuteFails \/ KHaltShell \/ MarkRunning \/ KStartFails \/ Stopped \/ TakeSlot
        \/ \E t \in Term : KSwitchToRunning(t) \/ KSwitchToNew(t)
    BY <1>1 DEF Kernel, Remapping, NotRemapping, PSwitchToRunning, PSwitchToNew
  <2> QED
    BY <2>1 DEF KNext
<1>2. CASE \/ \E t \in Term : DefineVidmem(t)
           \/ init_all_video_buf \/ OrdinaryKey \/ vidmap \/ UNCHANGED pvars
           \/ Faulted
           \/ \E v \in Page : Keep(v)
  BY <1>2 DEF DefineVidmem, init_all_video_buf, OrdinaryKey, vidmap, Keep, Faulted, pvars
<1>3. CASE ResetTables
  <2>1. /\ running' = [t \in Term |-> FALSE] /\ pid_used' = [p \in Pid |-> FALSE]
        /\ UNCHANGED <<pc, terminal_idx, pid_num, prev_pcb, cur_pid, term_pid, process_num,
                       cpuVars, eax, histVars, stackVars>>
        /\ pc = "boot"
    BY <1>3 DEF ResetTables, InEntry
  <2>2. running' = running /\ pid_used' = pid_used
    BY <2>1 DEF PInv, Entered
  <2>3. UNCHANGED kvars
    BY <2>1, <2>2 DEF kvars, vars, procVars, termVars, stackVars
  <2> QED
    BY <2>3
<1> QED
  BY <1>1, <1>2, <1>3 DEF PNext

\* The pages and the translations that are kept follow the table.
LEMMA PInvStep == ~SwitchInWindow /\ PInv /\ [PNext]_pvars => PInv'
<1> SUFFICES ASSUME ~SwitchInWindow, PInv, [PNext]_pvars PROVE PInv'
  OBVIOUS
<1>0. SInv /\ PagesTyped /\ Entered /\ Coherent
  BY DEF PInv
<1>1. [KNext]_kvars
  BY PagingStep
<1>2. SInv'
  BY <1>0, <1>1, SInvStep
<1>3. T!IInv /\ Stacks /\ terminal_idx \in Term /\ user_page \in Pid \cup {NULL}
  BY <1>0, TableFacts DEF SInv, Stacks, Types
<1>4. /\ USER # VID /\ ABSENT \notin 1..SCREEN /\ Pid \subseteq 1..SCREEN /\ SCREEN \in 1..SCREEN
      /\ Done > TM_MAX /\ Done \in Nat
  BY ProcessBounds DEF USER, VID, ABSENT, SCREEN, Pid, Done
<1>typed. faulted' \in BOOLEAN
  <2>1. \/ UNCHANGED faulted
        \/ faulted' = SaveFaults
        \/ \E t \in Term : faulted' = ShowFaults(t)
        \/ faulted' = (\E t \in Term : vidmem_addr[t] \notin LowPages)
    BY DEF PNext, Kernel, PSwitchToRunning, PSwitchToNew, DefineVidmem, ResetTables,
           init_all_video_buf, OrdinaryKey, vidmap, Keep, Faulted, pvars, pagingVars
  <2>2. SaveFaults \in BOOLEAN /\ \A t \in Term : ShowFaults(t) \in BOOLEAN
    BY DEF SaveFaults, ShowFaults
  <2>3. (\E t \in Term : vidmem_addr[t] \notin LowPages) \in BOOLEAN
    OBVIOUS
  <2> QED
    BY <1>0, <2>1, <2>2, <2>3 DEF PagesTyped
<1>5. CASE Kernel
  <2>1. UNCHANGED <<boot_step, vidmem_addr, vid_entry, mapped>>
    BY <1>5 DEF Kernel
  <2>2. /\ KNext /\ pc' # "boot" /\ (pc = "boot" => TakeSlot)
    <3>1. KNext
      <4>1. \/ \E isShell \in BOOLEAN : KExecute(isShell)
            \/ KHaltChild \/ KRespawnShell \/ EnterShell
            \/ KExecuteFails \/ KHaltShell \/ MarkRunning \/ KStartFails \/ Stopped \/ TakeSlot
            \/ \E t \in Term : KSwitchToRunning(t) \/ KSwitchToNew(t)
        BY <1>5 DEF Kernel, Remapping, NotRemapping, PSwitchToRunning, PSwitchToNew
      <4> QED
        BY <4>1 DEF KNext
    <3> QED
      BY <1>0, <3>1, BootLeft
  <2>3. boot_step' = Done
    <3>1. CASE pc # "boot"
      BY <3>1, <2>1, <1>0 DEF Entered
    <3>2. CASE pc = "boot"
      <4>1. TakeSlot
        BY <3>2, <2>2
      <4>2. NotRemapping
        BY <1>5, <3>2, <1>3, SwitchIsSwitch
           DEF Kernel, Remapping, KExecute, Execute, KHaltChild, HaltChild, KRespawnShell,
               RespawnShell, EnterShell, PSwitchToRunning, PSwitchToNew,
               SwitchToRunning, SwitchToNew
      <4>3. boot_step = Done
        BY <3>2, <4>2 DEF NotRemapping, KExecuteFails, ExecuteNoProgram, ExecuteNoSlot,
                          KHaltShell, HaltShell, MarkRunning, KStartFails, Stopped
      <4> QED
        BY <2>1, <4>3
    <3> QED
      BY <3>1, <3>2
  <2>4. Entered'
    BY <1>0, <2>1, <2>2, <2>3 DEF Entered
  <2>5. tlb' = [v \in Page |-> ABSENT] \/ (tlb' = tlb /\ user_page' = user_page)
    <3>1. CASE Remapping /\ page_map
      BY <3>1 DEF page_map
    <3>2. CASE NotRemapping /\ UNCHANGED <<tlb, faulted>>
      <4>1. user_page' = user_page
        BY <3>2, FailedStart, <1>3
           DEF NotRemapping, KExecuteFails, ExecuteNoProgram, ExecuteNoSlot, KHaltShell,
               HaltShell, MarkRunning, KStartFails, Stopped, TakeSlot, kvars, vars, cpuVars
      <4> QED
        BY <3>2, <4>1
    <3>3. CASE \E t \in Term : PSwitchToRunning(t) \/ PSwitchToNew(t)
      BY <3>3 DEF PSwitchToRunning, page_map, PSwitchToNew, KSwitchToNew, cpuVars
    <3> QED
      BY <1>5, <3>1, <3>2, <3>3 DEF Kernel
  <2>6. PagesTyped'
    BY <1>0, <1>typed, <2>1, <2>5 DEF PagesTyped
  <2>7. Coherent'
    BY <1>0, <2>1, <2>5 DEF Coherent, Page
  <2> QED
    BY <1>2, <2>4, <2>6, <2>7 DEF PInv
<1>6. ASSUME NEW t \in Term, DefineVidmem(t) PROVE PInv'
  <2>1. /\ pc = "boot" /\ boot_step = t /\ boot_step' = t + 1
        /\ vidmem_addr' = [vidmem_addr EXCEPT ![t] = VIDEO_SAVE(t)]
        /\ UNCHANGED <<kvars, vid_entry, tlb, faulted, mapped>>
    BY <1>6 DEF DefineVidmem, InEntry
  <2>2. pc' = pc /\ running' = running /\ pid_used' = pid_used /\ user_page' = user_page
    BY <2>1 DEF kvars, vars, procVars, termVars, cpuVars
  <2>3. t \in Nat /\ t < TM_MAX
    BY ProcessBounds DEF Term
  <2>4. PagesTyped'
    BY <1>0, <2>1, <2>3, ProcessBounds DEF PagesTyped, VIDEO_SAVE, Done
  <2>5. Entered'
    <3>1. \A u \in Term : u < t + 1 => vidmem_addr'[u] = VIDEO_SAVE(u)
      <4> SUFFICES ASSUME NEW u \in Term, u < t + 1 PROVE vidmem_addr'[u] = VIDEO_SAVE(u)
        OBVIOUS
      <4>1. CASE u = t
        BY <4>1, <1>0, <2>1 DEF PagesTyped
      <4>2. CASE u # t
        <5>1. u < boot_step
          BY <4>2, <2>1, <2>3, ProcessBounds DEF Term
        <5> QED
          BY <4>2, <5>1, <1>0, <2>1 DEF PagesTyped, Entered
      <4> QED
        BY <4>1, <4>2
    <3> QED
      BY <1>0, <2>1, <2>2, <3>1 DEF Entered
  <2>6. Coherent'
    BY <1>0, <2>1, <2>2 DEF Coherent
  <2> QED
    BY <1>2, <2>4, <2>5, <2>6 DEF PInv
<1>7. CASE ResetTables \/ init_all_video_buf
  <2>1. /\ pc = "boot" /\ pc' = pc /\ user_page' = user_page
        /\ boot_step \in {TM_MAX, TM_MAX + 1} /\ boot_step' = boot_step + 1
        /\ UNCHANGED <<vidmem_addr, vid_entry, tlb, mapped>>
        /\ faulted' = faulted \/ boot_step = TM_MAX + 1
    BY <1>7 DEF ResetTables, init_all_video_buf, InEntry, kvars, vars, cpuVars
  <2>2. running' = [t \in Term |-> FALSE] /\ pid_used' = [p \in Pid |-> FALSE]
    BY <1>7, <1>0, <2>1
       DEF ResetTables, init_all_video_buf, kvars, vars, procVars, termVars, Entered
  <2>3. PagesTyped'
    BY <1>0, <1>typed, <2>1, ProcessBounds DEF PagesTyped, Done
  <2>4. Entered'
    <3>1. \A t \in Term : t < boot_step
      BY <2>1, ProcessBounds DEF Term
    <3> QED
      BY <1>0, <2>1, <2>2, <3>1 DEF Entered
  <2>5. Coherent'
    BY <1>0, <2>1 DEF Coherent
  <2> QED
    BY <1>2, <2>3, <2>4, <2>5 DEF PInv
<1>8. CASE OrdinaryKey
  <2>1. UNCHANGED <<kvars, boot_step, vidmem_addr, vid_entry, tlb, mapped>>
    BY <1>8 DEF OrdinaryKey
  <2>4. pc' = pc /\ running' = running /\ pid_used' = pid_used /\ user_page' = user_page
    BY <2>1 DEF kvars, vars, procVars, termVars, cpuVars
  <2>5. PagesTyped' /\ Entered' /\ Coherent'
    BY <1>0, <1>typed, <2>1, <2>4 DEF PagesTyped, Entered, Coherent
  <2> QED
    BY <1>2, <2>5 DEF PInv
<1>9. CASE vidmap
  <2>1. /\ vid_entry' = SCREEN /\ mapped' = TRUE
        /\ UNCHANGED <<kvars, boot_step, vidmem_addr, tlb, faulted>>
    BY <1>9 DEF vidmap, VideoEntry
  <2>2. pc' = pc /\ running' = running /\ pid_used' = pid_used /\ user_page' = user_page
    BY <2>1 DEF kvars, vars, procVars, termVars, cpuVars
  <2>3. PagesTyped' /\ Entered' /\ Coherent'
    BY <1>0, <2>1, <2>2 DEF PagesTyped, Entered, Coherent
  <2> QED
    BY <1>2, <2>3 DEF PInv
<1>10. ASSUME NEW v \in Page, Keep(v) PROVE PInv'
  <2>1. /\ Entry(v) # ABSENT /\ tlb' = [tlb EXCEPT ![v] = Entry(v)]
        /\ UNCHANGED <<kvars, boot_step, vidmem_addr, vid_entry, faulted, mapped>>
    BY <1>10 DEF Keep
  <2>2. pc' = pc /\ running' = running /\ pid_used' = pid_used /\ user_page' = user_page
    BY <2>1 DEF kvars, vars, procVars, termVars, cpuVars
  <2>3. v = VID => Entry(v) = SCREEN
    BY <1>0, <2>1 DEF Entry, PagesTyped
  <2>4. v = USER => Entry(v) = user_page /\ user_page \in Pid
    BY <1>3, <1>4, <2>1 DEF Entry
  <2>5. Entry(v) \in 1..SCREEN
    BY <2>3, <2>4, <1>4 DEF Page
  <2>6. PagesTyped'
    BY <1>0, <2>1, <2>5 DEF PagesTyped
  <2>7. Coherent'
    BY <1>0, <1>4, <2>1, <2>2, <2>3, <2>4 DEF Coherent, PagesTyped, Page
  <2>8. Entered'
    BY <1>0, <2>1, <2>2 DEF Entered
  <2> QED
    BY <1>2, <2>6, <2>7, <2>8 DEF PInv
<1>11. CASE Faulted \/ UNCHANGED pvars
  <2>1. UNCHANGED <<kvars, boot_step, vidmem_addr, vid_entry, tlb, faulted, mapped>>
    BY <1>11 DEF Faulted, pvars, pagingVars
  <2>2. pc' = pc /\ running' = running /\ pid_used' = pid_used /\ user_page' = user_page
    BY <2>1 DEF kvars, vars, procVars, termVars, cpuVars
  <2>3. PagesTyped' /\ Entered' /\ Coherent'
    BY <1>0, <2>1, <2>2 DEF PagesTyped, Entered, Coherent
  <2> QED
    BY <1>2, <2>3 DEF PInv
<1> QED
  BY <1>5, <1>6, <1>7, <1>8, <1>9, <1>10, <1>11 DEF PNext

\* The invariant holds in every state.
LEMMA PagingAlways ==
  ASSUME ~SwitchInWindow
  PROVE  PSpec => []PInv
<1>1. PInit => PInv
  <2> SUFFICES ASSUME PInit PROVE PInv
    OBVIOUS
  <2>1. SInv
    BY StacksInit DEF PInit, SInv
  <2>2. /\ boot_step = 0 /\ vidmem_addr = [t \in Term |-> NULL_PAGE] /\ vid_entry = ABSENT
        /\ tlb = [v \in Page |-> ABSENT] /\ faulted = FALSE /\ mapped = FALSE
        /\ pc = "boot" /\ running = [t \in Term |-> FALSE] /\ pid_used = [p \in Pid |-> FALSE]
    BY DEF PInit, KInit, Init
  <2>3. PagesTyped
    <3>1. 0 \in 0..Done
      BY ProcessBounds DEF Done
    <3>2. vidmem_addr \in [Term -> Term \cup {NULL_PAGE}]
      BY <2>2
    <3>3. tlb \in [Page -> (1..SCREEN) \cup {ABSENT}]
      BY <2>2
    <3> QED
      BY <2>2, <3>1, <3>2, <3>3 DEF PagesTyped
  <2>4. Entered
    BY <2>2, ProcessBounds DEF Entered, Term
  <2>5. Coherent
    BY <2>2 DEF Coherent, Page
  <2> QED
    BY <2>1, <2>3, <2>4, <2>5 DEF PInv
<1>2. PInv /\ [PNext]_pvars => PInv'
  BY ~SwitchInWindow, PInvStep
<1> QED
  BY <1>1, <1>2, PTL DEF PSpec

\* Every variable of the tables, the stacks and the translations stays in its
\* range, whatever the number of slots, terminals and frames.
THEOREM PagingTypeCorrect ==
  ASSUME ~SwitchInWindow
  PROVE  PSpec => []PagingTypeOK
<1>1. PInv => PagingTypeOK
  BY StacksMeaning DEF PInv, PagesTyped, PagingTypeOK
<1> QED
  BY <1>1, PagingAlways, PTL

\* Whatever translations the processor has kept, a program that runs finds its
\* own image at 128 MB, and once vidmap was called the screen at 1 GB.
THEOREM OwnImageSafe ==
  ASSUME ~SwitchInWindow
  PROVE  PSpec => []OwnImage
<1>1. PInv => OwnImage
  <2> SUFFICES ASSUME PInv, pc = "run"
               PROVE  Translate(USER) = pid_num /\ (mapped => Translate(VID) = SCREEN)
    BY DEF OwnImage
  <2>1. pid_num \in Pid /\ user_page = pid_num
    BY RunFacts DEF PInv, SInv
  <2>2. USER # VID /\ pid_num # NULL
    BY <2>1 DEF USER, VID, Pid, NULL
  <2>3. Entry(USER) = pid_num /\ (mapped => Entry(VID) = SCREEN)
    BY <2>1, <2>2 DEF Entry, PInv, Coherent
  <2> QED
    BY <2>1, <2>3 DEF Translate, PInv, Coherent
<1> QED
  BY <1>1, PagingAlways, PTL

(***************************************************************************)
(* The pages of the screens, with Alt+Fn wherever it may be pressed: the   *)
(* steps of entry only move on, and behind them the pages are defined.     *)
(***************************************************************************)
PagesBehind ==
    /\ boot_step \in 0..Done /\ terminal_idx \in Term
    /\ vidmem_addr \in [Term -> Term \cup {NULL_PAGE}]
    /\ \A t \in Term : t < boot_step => vidmem_addr[t] = VIDEO_SAVE(t)
    /\ NoLateFault

\* No key of any kind faults on a page that entry is done with.
LEMMA PagesBehindStep ==
  ASSUME PagesBehind, [PNext]_pvars
  PROVE  PagesBehind'
<1>0. /\ TM_MAX \in Nat \ {0} /\ Done = TM_MAX + 2 /\ boot_step \in 0..Done
      /\ terminal_idx \in Term /\ vidmem_addr \in [Term -> Term \cup {NULL_PAGE}]
      /\ \A t \in Term : t \in Nat /\ t < TM_MAX
  BY ProcessBounds DEF PagesBehind, Done, Term
<1>1. boot_step >= TM_MAX => \A t \in Term : vidmem_addr[t] \in LowPages
  <2> SUFFICES ASSUME boot_step >= TM_MAX, NEW t \in Term PROVE vidmem_addr[t] \in LowPages
    OBVIOUS
  <2>1. t < boot_step
    BY <1>0
  <2>2. vidmem_addr[t] = VIDEO_SAVE(t)
    BY <2>1 DEF PagesBehind
  <2> QED
    BY <2>2 DEF LowPages
<1>2. boot_step >= TM_MAX => ~SaveFaults /\ \A t \in Term : ~ShowFaults(t)
  BY <1>0, <1>1 DEF SaveFaults, ShowFaults
<1>3. CASE Kernel
  <2>1. boot_step' = boot_step /\ vidmem_addr' = vidmem_addr
    BY <1>3 DEF Kernel
  <2>2. CASE Remapping /\ page_map /\ UNCHANGED faulted
    <3>1. terminal_idx' = terminal_idx
      BY <2>2 DEF Remapping, KExecute, Execute, StartProcess, Occupy, KHaltChild, HaltChild,
                  KRespawnShell, RespawnShell, EnterShell
    <3> QED
      BY <2>1, <2>2, <3>1 DEF PagesBehind, NoLateFault
  <2>3. CASE NotRemapping /\ UNCHANGED <<tlb, faulted>>
    <3>1. terminal_idx' = terminal_idx
      BY <2>3 DEF NotRemapping, KExecuteFails, ExecuteNoProgram, ExecuteNoSlot, KHaltShell,
                  HaltShell, MarkRunning, KStartFails, Stopped, TakeSlot, kvars, vars
    <3> QED
      BY <2>1, <2>3, <3>1 DEF PagesBehind, NoLateFault
  <2>4. ASSUME NEW t \in Term, PSwitchToRunning(t) \/ PSwitchToNew(t)
        PROVE  PagesBehind'
    <3>1. terminal_idx' = t
      BY <2>4 DEF PSwitchToRunning, PSwitchToNew, KSwitchToRunning, KSwitchToNew
    <3>f. faulted' = ShowFaults(t)
      BY <2>4, Zenon DEF PSwitchToRunning, PSwitchToNew
    <3>b. boot_step >= TM_MAX \/ boot_step < TM_MAX
      BY <1>0
    <3>2. faulted' => boot_step < TM_MAX
      BY <1>2, <3>f, <3>b, Zenon
    <3> QED
      BY <1>0, <2>1, <3>1, <3>2 DEF PagesBehind, NoLateFault
  <2> QED
    BY <1>3, <2>2, <2>3, <2>4 DEF Kernel
<1>4. ASSUME NEW t \in Term, DefineVidmem(t), ~faulted PROVE PagesBehind'
  <2>1. /\ boot_step = t /\ boot_step' = t + 1 /\ terminal_idx' = terminal_idx
        /\ vidmem_addr' = [vidmem_addr EXCEPT ![t] = VIDEO_SAVE(t)] /\ faulted' = faulted
    BY <1>4 DEF DefineVidmem, InEntry, kvars, vars
  <2>2. vidmem_addr' \in [Term -> Term \cup {NULL_PAGE}]
    BY <1>0, <2>1 DEF VIDEO_SAVE
  <2>3. ASSUME NEW u \in Term, u < t + 1 PROVE vidmem_addr'[u] = VIDEO_SAVE(u)
    <3>1. CASE u = t
      BY <1>0, <2>1, <3>1
    <3>2. CASE u # t
      <4>1. u < boot_step
        BY <1>0, <2>1, <2>3, <3>2
      <4> QED
        BY <1>0, <2>1, <3>2, <4>1 DEF PagesBehind
    <3> QED
      BY <3>1, <3>2
  <2>4. boot_step' \in 0..Done
    BY <1>0, <2>1
  <2> QED
    BY <1>0, <1>4, <2>1, <2>2, <2>3, <2>4 DEF PagesBehind, NoLateFault
<1>5. CASE (ResetTables \/ init_all_video_buf) /\ ~faulted
  <2>1. /\ boot_step \in {TM_MAX, TM_MAX + 1} /\ boot_step' = boot_step + 1
        /\ vidmem_addr' = vidmem_addr /\ terminal_idx' = terminal_idx
    BY <1>5 DEF ResetTables, init_all_video_buf, InEntry, kvars, vars
  <2>2. ~faulted'
    <3>1. CASE ResetTables
      BY <1>5, <3>1, Zenon DEF ResetTables
    <3>2. CASE init_all_video_buf
      <4>1. boot_step >= TM_MAX
        BY <1>0, <2>1
      <4>2. faulted' = (\E t \in Term : vidmem_addr[t] \notin LowPages)
        BY <3>2, Zenon DEF init_all_video_buf
      <4> QED
        BY <1>1, <4>1, <4>2, Zenon
    <3> QED
      BY <1>5, <3>1, <3>2
  <2>3. /\ boot_step' \in 0..Done
        /\ \A t \in Term : t < boot_step
    BY <1>0, <2>1
  <2> QED
    BY <1>0, <2>1, <2>2, <2>3 DEF PagesBehind, NoLateFault
<1>6. CASE OrdinaryKey
  <2>1. /\ faulted' = SaveFaults /\ boot_step' = boot_step /\ vidmem_addr' = vidmem_addr
        /\ terminal_idx' = terminal_idx
    BY <1>6 DEF OrdinaryKey, kvars, vars
  <2>2. faulted' => boot_step < TM_MAX
    BY <1>0, <1>2, <2>1
  <2> QED
    BY <2>1, <2>2 DEF PagesBehind, NoLateFault
<1>7. CASE vidmap \/ (\E v \in Page : Keep(v)) \/ Faulted \/ UNCHANGED pvars
  <2>1. UNCHANGED <<boot_step, vidmem_addr, faulted, terminal_idx>>
    BY <1>7 DEF vidmap, Keep, Faulted, pvars, pagingVars, kvars, vars
  <2> QED
    BY <2>1 DEF PagesBehind, NoLateFault
<1> QED
  BY <1>3, <1>4, <1>5, <1>6, <1>7 DEF PNext

\* Wherever a key is pressed, Alt+Fn and the loading of a shell included, the
\* kernel touches an absent page only if entry is not done with the loop that
\* defines the pages of the screens.
THEOREM NoLateFaultSafe == PSpec => []NoLateFault
<1>1. PInit => PagesBehind
  <2> SUFFICES ASSUME PInit PROVE PagesBehind
    OBVIOUS
  <2>1. /\ boot_step = 0 /\ vidmem_addr = [t \in Term |-> NULL_PAGE] /\ faulted = FALSE
        /\ terminal_idx = 0
    BY DEF PInit, KInit, Init
  <2>2. 0 \in Term /\ 0 \in 0..Done /\ \A t \in Term : ~(t < 0)
    BY ProcessBounds DEF Term, Done
  <2> QED
    BY <2>1, <2>2 DEF PagesBehind, NoLateFault
<1>2. PagesBehind /\ [PNext]_pvars => PagesBehind'
  BY PagesBehindStep
<1>3. PagesBehind => NoLateFault
  BY DEF PagesBehind
<1> QED
  BY <1>1, <1>2, <1>3, PTL DEF PSpec

\* With the page directory, the kept translations and the end of entry added,
\* the kernel is still KernelStacks, and so the process table of Processes.
THEOREM PagingImplementsProcesses ==
  ASSUME ~SwitchInWindow
  PROVE  PSpec => ImplementsProcesses
<1>1. PInit => KInit
  BY DEF PInit
<1>2. PInv /\ [PNext]_pvars => [KNext]_kvars
  BY PagingStep
<1>3. PSpec => KSpec
  BY <1>1, <1>2, PagingAlways, PTL DEF PSpec, KSpec
<1> QED
  BY <1>3, StacksImplementProcesses, PTL
=============================================================================

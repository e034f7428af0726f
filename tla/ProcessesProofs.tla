--------------------------- MODULE ProcessesProofs ---------------------------
(***************************************************************************)
(* Proofs about Processes for every number of process slots, terminals and *)
(* processes per terminal, and that it implements Sessions.                *)
(***************************************************************************)
EXTENDS MCProcesses, FiniteSetTheorems, SequenceTheorems, TLAPS

(***************************************************************************)
(* The invariant is inductive only as a whole: halt decrements process_num *)
(* and hands the terminal to prev_pcb, which is right because the current  *)
(* process is the deepest of its line (HiddenTerminalsResumable), because  *)
(* depths in a line are distinct and lead to live parents (Lineage), and   *)
(* because the processor state names that process (ContextAgrees).  Idle   *)
(* covers the moments when no process runs.                                *)
(***************************************************************************)
Idle ==
    /\ pc \in {"boot", "start", "respawn"} => ~running[terminal_idx]
    /\ \A t \in Term : ~running[t] => process_num[t] = 0

\* What every step preserves.
IInv ==
    /\ TypeOK
    /\ ContextAgrees
    /\ HiddenTerminalsResumable
    /\ Lineage
    /\ Idle
    /\ RespawnSucceeds

\* The kernel starts with an empty table and no shell: every part holds.
LEMMA InitInv == Init => IInv
<1> SUFFICES ASSUME Init PROVE IInv
  OBVIOUS
<1> USE ProcessBounds DEF Init, Pid, Term, NULL
<1>1. TypeOK
  BY DEF TypeOK, Control, FAILURE, EXE_EXCEPTION
<1>2. ContextAgrees /\ HiddenTerminalsResumable /\ Lineage /\ Idle /\ RespawnSucceeds
  BY DEF ContextAgrees, HiddenTerminalsResumable, Lineage, Idle, RespawnSucceeds
<1> QED
  BY <1>1, <1>2 DEF IInv

\* While a process runs, its terminal is running and its depth is the count.
LEMMA CurrentIsDeepest ==
  ASSUME IInv, pc = "run"
  PROVE  /\ terminal_idx \in Term
         /\ pid_num \in Pid
         /\ pid_used[pid_num]
         /\ owner[pid_num] = terminal_idx
         /\ running[terminal_idx]
         /\ cur_pid[terminal_idx] = pid_num
         /\ level[pid_num] = process_num[terminal_idx]
         /\ process_num[terminal_idx] \in 1..PER_TERM
BY ProcessBounds
   DEF IInv, TypeOK, ContextAgrees, HiddenTerminalsResumable, Lineage, Pid, Term

\* No live process has the current one as its parent.
LEMMA CurrentHasNoChild ==
  ASSUME IInv, pc = "run", NEW q \in Pid, pid_used[q]
  PROVE  prev_pcb[q] # pid_num
<1> SUFFICES ASSUME prev_pcb[q] = pid_num PROVE FALSE
  OBVIOUS
<1>1. pid_num # NULL
  BY CurrentIsDeepest DEF Pid, NULL
<1>2. owner[q] = terminal_idx /\ level[q] = level[pid_num] + 1
  BY <1>1, CurrentIsDeepest DEF IInv, Lineage
<1>3. level[q] \in 1..process_num[terminal_idx]
  BY <1>2 DEF IInv, Lineage
<1> QED
  BY <1>2, <1>3, CurrentIsDeepest, ProcessBounds DEF IInv, TypeOK

\* Starting a process, by any of the four callers of execute.
LEMMA StartInv ==
  ASSUME IInv, NEW isShell \in BOOLEAN, StartProcess(isShell),
         pc \in {"boot", "run", "start", "respawn"},
         pc # "run" => isShell
  PROVE  IInv'
<1> USE ProcessBounds
<1> DEFINE t == terminal_idx
<1>1. PICK p \in Pid : FirstFree(p) /\ Occupy(p, isShell)
  BY DEF StartProcess
<1>2. p \in Nat /\ p # NULL /\ ~pid_used[p] /\ t \in Term /\ process_num[t] < PER_TERM
  BY <1>1 DEF StartProcess, HasRoom, FirstFree, FreePids, IInv, TypeOK, Pid, NULL
<1>3. TypeOK'
  <2>1. running' \in [Term -> BOOLEAN]
    BY <1>1, Zenon DEF IInv, TypeOK, Occupy
  <2>2. pid_used' \in [Pid -> BOOLEAN]
    BY <1>1, Zenon DEF IInv, TypeOK, Occupy
  <2>3. process_num' \in [Term -> 0..PER_TERM] /\ level' \in [Pid -> 0..PER_TERM]
    BY <1>1, <1>2 DEF IInv, TypeOK, Occupy
  <2>4. /\ prev_pcb' \in [Pid -> Pid \cup {NULL}]
        /\ cur_pid' \in [Term -> Pid \cup {NULL}]
        /\ term_pid' \in [Term -> Pid \cup {NULL}]
        /\ owner' \in [Pid -> Term]
    BY <1>1, <1>2 DEF IInv, TypeOK, Occupy
  <2>5. /\ pc' \in Control /\ terminal_idx' \in Term /\ pid_num' \in Pid \cup {NULL}
        /\ user_page' \in Pid \cup {NULL} /\ esp0' \in Pid \cup {NULL}
        /\ eax' \in {0, FAILURE, EXE_EXCEPTION}
    BY <1>1, <1>2 DEF IInv, TypeOK, Occupy, Control
  <2> QED
    BY <2>1, <2>2, <2>3, <2>4, <2>5 DEF TypeOK
<1>4. ContextAgrees'
  BY <1>1, <1>2 DEF IInv, TypeOK, Occupy, ContextAgrees
<1>5. running'[t]
  <2>1. CASE pc = "run"
    BY <2>1, <1>1, <1>2, CurrentIsDeepest DEF Occupy, IInv, TypeOK
  <2>2. CASE pc # "run"
    BY <2>2, <1>1, <1>2 DEF Occupy, IInv, TypeOK
  <2> QED
    BY <2>1, <2>2
<1>6. HiddenTerminalsResumable'
  <2> SUFFICES ASSUME NEW u \in Term, running'[u]
               PROVE  /\ cur_pid'[u] \in Pid
                      /\ pid_used'[cur_pid'[u]]
                      /\ owner'[cur_pid'[u]] = u
                      /\ level'[cur_pid'[u]] = process_num'[u]
    BY DEF HiddenTerminalsResumable
  <2>1. CASE u = t
    BY <2>1, <1>1, <1>2 DEF Occupy, IInv, TypeOK
  <2>2. CASE u # t
    <3>1. running[u] /\ cur_pid'[u] = cur_pid[u] /\ process_num'[u] = process_num[u]
      BY <2>2, <1>1 DEF Occupy, IInv, TypeOK
    <3>2. cur_pid[u] # p
      BY <3>1, <1>2 DEF IInv, HiddenTerminalsResumable
    <3> QED
      BY <3>1, <3>2, <1>1 DEF Occupy, IInv, TypeOK, HiddenTerminalsResumable
  <2> QED
    BY <2>1, <2>2
<1>7. Lineage'
  <2> DEFINE Linked(q) ==
        /\ running[owner[q]]
        /\ level[q] \in 1..process_num[owner[q]]
        /\ level[q] = 1 <=> prev_pcb[q] = NULL
        /\ level[q] = 1 => term_pid[owner[q]] = q
        /\ prev_pcb[q] # NULL =>
            /\ pid_used[prev_pcb[q]]
            /\ owner[prev_pcb[q]] = owner[q]
            /\ level[q] = level[prev_pcb[q]] + 1
  <2>0. \A q \in Pid : pid_used[q] => Linked(q)
    BY DEF IInv, Lineage
  <2>1. ASSUME NEW q \in Pid, pid_used'[q], q # p
        PROVE  Linked(q)'
    <3>1. pid_used[q] /\ owner'[q] = owner[q] /\ level'[q] = level[q] /\ prev_pcb'[q] = prev_pcb[q]
      BY <2>1, <1>1 DEF Occupy, IInv, TypeOK
    <3>2. Linked(q)
      BY <3>1, <2>0
    <3>3. running'[owner[q]] /\ level[q] \in 1..process_num'[owner[q]]
      BY <3>1, <3>2, <1>1 DEF Occupy, IInv, TypeOK
    <3>4. level[q] = 1 => term_pid'[owner[q]] = q
      BY <3>1, <3>2, <1>1 DEF Occupy, IInv, TypeOK
    <3>5. prev_pcb[q] # NULL => 
            /\ prev_pcb[q] # p /\ prev_pcb[q] \in Pid
            /\ pid_used'[prev_pcb[q]]
            /\ owner'[prev_pcb[q]] = owner[q]
            /\ level[q] = level'[prev_pcb[q]] + 1
      BY <3>1, <3>2, <1>1, <1>2 DEF Occupy, IInv, TypeOK
    <3> QED
      BY <3>1, <3>2, <3>3, <3>4, <3>5
  <2>2. Linked(p)'
    <3>0. /\ owner'[p] = t /\ level'[p] = process_num[t] + 1 /\ process_num'[t] = process_num[t] + 1
          /\ prev_pcb'[p] = IF isShell /\ ~running[t] THEN NULL ELSE pid_num
          /\ term_pid'[t] = IF isShell /\ ~running[t] THEN p ELSE term_pid[t]
      BY <1>1, <1>2 DEF Occupy, IInv, TypeOK
    <3>1. CASE pc = "run"
      <4>1. /\ running[t] /\ pid_num \in Pid /\ pid_num # NULL /\ pid_num # p
            /\ pid_used[pid_num] /\ owner[pid_num] = t
            /\ level[pid_num] = process_num[t] /\ process_num[t] \in 1..PER_TERM
        BY <3>1, <1>2, CurrentIsDeepest DEF Pid, NULL
      <4>2. pid_used'[pid_num] /\ owner'[pid_num] = t /\ level'[pid_num] = process_num[t]
        BY <4>1, <1>1 DEF Occupy, IInv, TypeOK
      <4> QED
        BY <3>0, <4>1, <4>2, <1>5
    <3>2. CASE pc # "run"
      <4>1. isShell /\ ~running[t] /\ process_num[t] = 0
        BY <3>2, <1>2 DEF IInv, Idle
      <4> QED
        BY <3>0, <4>1, <1>5
    <3> QED
      BY <3>1, <3>2
  <2>3. ASSUME NEW q \in Pid, NEW r \in Pid, pid_used'[q], pid_used'[r],
               owner'[q] = owner'[r], level'[q] = level'[r]
        PROVE  q = r
    <3>1. \A x \in Pid : x # p /\ pid_used'[x] /\ owner'[x] = t => level'[x] # level'[p]
      <4> SUFFICES ASSUME NEW x \in Pid, x # p, pid_used'[x], owner'[x] = t
                   PROVE  level'[x] # level'[p]
        OBVIOUS
      <4>1. pid_used[x] /\ owner[x] = t /\ level'[x] = level[x]
        BY <1>1 DEF Occupy, IInv, TypeOK
      <4>2. level[x] \in 1..process_num[t]
        BY <4>1, <2>0
      <4>3. level'[p] = process_num[t] + 1
        BY <1>1 DEF Occupy, IInv, TypeOK
      <4> QED
        BY <4>1, <4>2, <4>3, <1>2 DEF IInv, TypeOK
    <3>2. owner'[p] = t
      BY <1>1 DEF Occupy, IInv, TypeOK
    <3>3. CASE q # p /\ r # p
      BY <3>3, <2>3, <1>1 DEF Occupy, IInv, TypeOK, Lineage
    <3> QED
      BY <3>1, <3>2, <3>3, <2>3
  <2> HIDE DEF Linked
  <2>4. \A q \in Pid : pid_used'[q] => Linked(q)'
    BY <2>1, <2>2
  <2> QED
    BY <2>3, <2>4 DEF Linked, Lineage
<1>8. Idle' /\ RespawnSucceeds'
  BY <1>1, <1>2, <1>5 DEF Occupy, IInv, TypeOK, Idle, RespawnSucceeds
<1> QED
  BY <1>3, <1>4, <1>6, <1>7, <1>8 DEF IInv

\* What a halt leaves of the running terminal's line, parent or no parent.
LEMMA HaltLeavesLine ==
  ASSUME IInv, HaltChild \/ HaltShell
  PROVE  /\ \A q \in Pid : pid_used'[q] =>
              /\ q # pid_num /\ pid_used[q]
              /\ owner'[q] = owner[q] /\ level'[q] = level[q] /\ prev_pcb'[q] = prev_pcb[q]
              /\ level[q] \in 1..process_num'[owner[q]]
              /\ prev_pcb[q] # pid_num
         /\ process_num' = [process_num EXCEPT ![terminal_idx] = @ - 1]
         /\ process_num[terminal_idx] \in 1..PER_TERM
<1> USE ProcessBounds
<1>1. pc = "run"
  BY DEF HaltChild, HaltShell, Release, Resume
<1>2. process_num' = [process_num EXCEPT ![terminal_idx] = @ - 1]
  BY DEF HaltChild, HaltShell, Release, Resume
<1>3. ASSUME NEW q \in Pid, pid_used'[q]
      PROVE  /\ q # pid_num /\ pid_used[q]
             /\ owner'[q] = owner[q] /\ level'[q] = level[q] /\ prev_pcb'[q] = prev_pcb[q]
  BY <1>1, <1>3, CurrentIsDeepest DEF HaltChild, HaltShell, Release, Resume, IInv, TypeOK
<1>4. ASSUME NEW q \in Pid, pid_used'[q]
      PROVE  level[q] \in 1..process_num'[owner[q]]
  <2>1. level[q] \in 1..process_num[owner[q]] /\ owner[q] \in Term
    BY <1>3, <1>4 DEF IInv, Lineage, TypeOK
  <2>2. owner[q] = terminal_idx => level[q] # process_num[terminal_idx]
    BY <1>1, <1>3, <1>4, CurrentIsDeepest DEF IInv, Lineage
  <2>3. process_num[terminal_idx] \in 1..PER_TERM /\ process_num \in [Term -> 0..PER_TERM]
    BY <1>1, CurrentIsDeepest DEF IInv, TypeOK
  <2>4. CASE owner[q] = terminal_idx
    <3>1. process_num'[owner[q]] = process_num[terminal_idx] - 1
      BY <2>1, <2>3, <2>4, <1>2
    <3> QED
      BY <2>1, <2>2, <2>3, <2>4, <3>1
  <2>5. CASE owner[q] # terminal_idx
    BY <2>1, <2>3, <2>5, <1>2
  <2> QED
    BY <2>4, <2>5
<1>5. ASSUME NEW q \in Pid, pid_used'[q]
      PROVE  prev_pcb[q] # pid_num
  BY <1>1, <1>3, <1>5, CurrentHasNoChild
<1> QED
  BY <1>1, <1>2, <1>3, <1>4, <1>5, CurrentIsDeepest

\* halt of a child hands the terminal, the page and the stack to its parent.
LEMMA HaltChildInv ==
  ASSUME IInv, HaltChild
  PROVE  IInv'
<1> USE ProcessBounds
<1> DEFINE t == terminal_idx
           parent == prev_pcb[pid_num]
<1>0. pc = "run" /\ pc' = "run" /\ parent # NULL /\ t' = t /\ t \in Term /\ running' = running
      /\ pid_num \in Pid /\ running[t]
  BY CurrentIsDeepest DEF HaltChild, Release, Resume
<1>1. /\ parent \in Pid /\ pid_used[parent] /\ owner[parent] = t
      /\ level[pid_num] = level[parent] + 1
      /\ level[pid_num] = process_num[t]
      /\ parent # pid_num
  BY <1>0, CurrentIsDeepest, CurrentHasNoChild DEF IInv, TypeOK, Lineage, NULL
<1>2. /\ pid_used'[parent] /\ owner'[parent] = t /\ level'[parent] = process_num'[t]
      /\ process_num'[t] = process_num[t] - 1 /\ process_num'[t] \in 1..PER_TERM
      /\ cur_pid'[t] = parent /\ pid_num' = parent
  <2>1. pid_used'[parent]
    BY <1>1 DEF HaltChild, Release, Resume, IInv, TypeOK
  <2> QED
    BY <2>1, <1>0, <1>1, HaltLeavesLine DEF HaltChild, Release, Resume, IInv, TypeOK
<1>3. TypeOK'
  <2>1. pid_used' \in [Pid -> BOOLEAN]
    BY <1>0 DEF HaltChild, Release, Resume, IInv, TypeOK
  <2>2. process_num' \in [Term -> 0..PER_TERM]
    BY <1>0, HaltLeavesLine DEF IInv, TypeOK
  <2>3. owner \in [Pid -> Term] /\ level \in [Pid -> 0..PER_TERM]
    BY DEF IInv, TypeOK
  <2>4. owner' = [owner EXCEPT ![pid_num] = 0] /\ level' = [level EXCEPT ![pid_num] = 0]
    BY DEF HaltChild, Release
  <2>5. 0 \in Term /\ 0 \in 0..PER_TERM
    BY DEF Term
  <2>6. owner' \in [Pid -> Term] /\ level' \in [Pid -> 0..PER_TERM]
    BY <2>3, <2>4, <2>5
  <2> QED
    BY <1>0, <1>1, <2>1, <2>2, <2>6 DEF HaltChild, Release, Resume, IInv, TypeOK
<1>4. ContextAgrees'
  BY <1>0, <1>1, <1>2 DEF HaltChild, Release, Resume, ContextAgrees
<1>5. HiddenTerminalsResumable'
  <2> SUFFICES ASSUME NEW u \in Term, running[u]
               PROVE  /\ cur_pid'[u] \in Pid
                      /\ pid_used'[cur_pid'[u]]
                      /\ owner'[cur_pid'[u]] = u
                      /\ level'[cur_pid'[u]] = process_num'[u]
    BY <1>0 DEF HiddenTerminalsResumable
  <2>1. CASE u = t
    BY <2>1, <1>1, <1>2
  <2>2. CASE u # t
    <3>1. cur_pid[u] # pid_num /\ cur_pid'[u] = cur_pid[u] /\ process_num'[u] = process_num[u]
      BY <2>2, <1>0, CurrentIsDeepest, HaltLeavesLine
         DEF HaltChild, Release, Resume, IInv, TypeOK, HiddenTerminalsResumable
    <3> QED
      BY <3>1, <1>0 DEF HaltChild, Release, Resume, IInv, TypeOK, HiddenTerminalsResumable
  <2> QED
    BY <2>1, <2>2
<1>6. Lineage'
  <2>1. ASSUME NEW q \in Pid, pid_used'[q], prev_pcb[q] # NULL
        PROVE  /\ pid_used'[prev_pcb[q]] /\ prev_pcb[q] \in Pid
               /\ owner'[prev_pcb[q]] = owner[prev_pcb[q]]
               /\ level'[prev_pcb[q]] = level[prev_pcb[q]]
    <3>1. prev_pcb[q] # pid_num /\ prev_pcb[q] \in Pid /\ pid_used[prev_pcb[q]]
      BY <2>1, HaltLeavesLine DEF IInv, Lineage, TypeOK
    <3> QED
      BY <3>1 DEF HaltChild, Release, Resume, IInv, TypeOK
  <2> QED
    BY <2>1, <1>0, HaltLeavesLine DEF HaltChild, Release, Resume, IInv, TypeOK, Lineage
<1>7. Idle' /\ RespawnSucceeds'
  BY <1>0, HaltLeavesLine DEF IInv, TypeOK, Idle, RespawnSucceeds
<1> QED
  BY <1>3, <1>4, <1>5, <1>6, <1>7 DEF IInv

\* halt of a base shell leaves its terminal without processes, for line 261.
LEMMA HaltShellInv ==
  ASSUME IInv, HaltShell
  PROVE  IInv'
<1> USE ProcessBounds
<1> DEFINE t == terminal_idx
<1>0. /\ pc = "run" /\ pc' = "respawn" /\ t' = t /\ t \in Term /\ pid_num \in Pid
      /\ running' = [running EXCEPT ![t] = FALSE]
  BY CurrentIsDeepest DEF HaltShell, Release, Resume
<1>1. process_num[t] = 1 /\ process_num'[t] = 0
  BY <1>0, CurrentIsDeepest, HaltLeavesLine DEF HaltShell, Release, Resume, IInv, Lineage, TypeOK
<1>2. ~pid_used'[pid_num]
  BY <1>0 DEF HaltShell, Release, Resume, IInv, TypeOK
<1>3. TypeOK'
  <2>1. pid_used' \in [Pid -> BOOLEAN] /\ running' \in [Term -> BOOLEAN]
    BY <1>0 DEF HaltShell, Release, Resume, IInv, TypeOK
  <2>2. process_num' \in [Term -> 0..PER_TERM]
    BY <1>0, HaltLeavesLine DEF IInv, TypeOK
  <2>3. owner \in [Pid -> Term] /\ level \in [Pid -> 0..PER_TERM]
    BY DEF IInv, TypeOK
  <2>4. owner' = [owner EXCEPT ![pid_num] = 0] /\ level' = [level EXCEPT ![pid_num] = 0]
    BY DEF HaltShell, Release
  <2>5. 0 \in Term /\ 0 \in 0..PER_TERM
    BY DEF Term
  <2>6. owner' \in [Pid -> Term] /\ level' \in [Pid -> 0..PER_TERM]
    BY <2>3, <2>4, <2>5
  <2> QED
    BY <1>0, <2>1, <2>2, <2>6 DEF HaltShell, Release, Resume, IInv, TypeOK, Control
<1>4. ContextAgrees'
  BY <1>0 DEF ContextAgrees
<1>5. HiddenTerminalsResumable'
  <2> SUFFICES ASSUME NEW u \in Term, running'[u]
               PROVE  /\ cur_pid'[u] \in Pid
                      /\ pid_used'[cur_pid'[u]]
                      /\ owner'[cur_pid'[u]] = u
                      /\ level'[cur_pid'[u]] = process_num'[u]
    BY DEF HiddenTerminalsResumable
  <2>1. u # t /\ running[u]
    BY <1>0 DEF IInv, TypeOK
  <2>2. cur_pid[u] # pid_num /\ cur_pid'[u] = cur_pid[u] /\ process_num'[u] = process_num[u]
    BY <2>1, <1>0, CurrentIsDeepest, HaltLeavesLine
       DEF HaltShell, Release, Resume, IInv, TypeOK, HiddenTerminalsResumable
  <2> QED
    BY <2>1, <2>2, <1>0 DEF HaltShell, Release, Resume, IInv, TypeOK, HiddenTerminalsResumable
<1>6. Lineage'
  <2>1. ASSUME NEW q \in Pid, pid_used'[q]
        PROVE  owner[q] # t /\ running'[owner[q]]
    <3>1. owner[q] # t
      BY <2>1, <1>1, HaltLeavesLine
    <3> QED
      BY <2>1, <3>1, <1>0, HaltLeavesLine DEF IInv, TypeOK, Lineage
  <2>2. ASSUME NEW q \in Pid, pid_used'[q], prev_pcb[q] # NULL
        PROVE  /\ pid_used'[prev_pcb[q]] /\ prev_pcb[q] \in Pid
               /\ owner'[prev_pcb[q]] = owner[prev_pcb[q]]
               /\ level'[prev_pcb[q]] = level[prev_pcb[q]]
    <3>1. prev_pcb[q] # pid_num /\ prev_pcb[q] \in Pid /\ pid_used[prev_pcb[q]]
      BY <2>2, HaltLeavesLine DEF IInv, Lineage, TypeOK
    <3> QED
      BY <3>1 DEF HaltShell, Release, Resume, IInv, TypeOK
  <2> QED
    BY <2>1, <2>2, <1>0, HaltLeavesLine DEF HaltShell, Release, Resume, IInv, TypeOK, Lineage
<1>7. Idle'
  BY <1>0, <1>1, HaltLeavesLine DEF IInv, TypeOK, Idle
<1>8. RespawnSucceeds'
  BY <1>0, <1>1, <1>2 DEF RespawnSucceeds, HasRoom, FreePids
<1> QED
  BY <1>3, <1>4, <1>5, <1>6, <1>7, <1>8 DEF IInv

\* Alt+Fn, to a terminal that runs or to one displayed for the first time.
LEMMA SwitchInv ==
  ASSUME IInv, NEW t \in Term, SwitchToRunning(t) \/ SwitchToNew(t)
  PROVE  IInv'
<1> USE ProcessBounds
<1>0. /\ pc = "run" /\ terminal_idx' = t
      /\ UNCHANGED <<pid_used, prev_pcb, running, term_pid, process_num, eax, histVars>>
      /\ cur_pid' = cur_pid
  <2>1. cur_pid' = [cur_pid EXCEPT ![terminal_idx] = pid_num]
    BY DEF SwitchToRunning, Resume, SwitchToNew
  <2> QED
    BY <2>1, CurrentIsDeepest DEF SwitchToRunning, Resume, SwitchToNew, IInv, TypeOK, procVars
<1>1. Lineage' /\ HiddenTerminalsResumable'
  BY <1>0 DEF histVars, IInv, Lineage, HiddenTerminalsResumable
<1>2. CASE SwitchToRunning(t)
  <2>1. pc' = pc /\ pid_num' = cur_pid[t] /\ user_page' = cur_pid[t] /\ esp0' = cur_pid[t] /\ running[t]
    BY <1>0, <1>2 DEF SwitchToRunning, Resume
  <2>2. ContextAgrees'
    BY <1>0, <2>1 DEF histVars, IInv, HiddenTerminalsResumable, ContextAgrees
  <2>3. TypeOK'
    BY <1>0, <2>1 DEF histVars, IInv, TypeOK
  <2>4. Idle' /\ RespawnSucceeds'
    BY <1>0, <2>1 DEF IInv, Idle, RespawnSucceeds
  <2> QED
    BY <1>1, <2>2, <2>3, <2>4 DEF IInv
<1>3. CASE SwitchToNew(t)
  <2>1. pc' = "start" /\ ~running[t] /\ pid_num' = pid_num /\ UNCHANGED cpuVars
    BY <1>3 DEF SwitchToNew, procVars
  <2>2. TypeOK'
    BY <1>0, <2>1 DEF histVars, cpuVars, IInv, TypeOK, Control
  <2>3. ContextAgrees' /\ Idle' /\ RespawnSucceeds'
    BY <1>0, <2>1 DEF IInv, Idle, RespawnSucceeds, ContextAgrees
  <2> QED
    BY <1>1, <2>2, <2>3 DEF IInv
<1> QED
  BY <1>2, <1>3

\* The steps that change no part of the process table.
LEMMA OtherInv ==
  ASSUME IInv, ExecuteNoProgram \/ ExecuteNoSlot \/ StartFails \/ UNCHANGED vars
  PROVE  IInv'
<1>1. UNCHANGED <<terminal_idx, procVars, termVars, cpuVars, histVars>>
  BY DEF ExecuteNoProgram, ExecuteNoSlot, StartFails, vars
<1>2. pc' \in Control /\ eax' \in {0, FAILURE, EXE_EXCEPTION} /\ (pc' = pc \/ pc' = "crash")
  BY DEF ExecuteNoProgram, ExecuteNoSlot, StartFails, vars, IInv, TypeOK, Control
<1> QED
  BY <1>1, <1>2
     DEF procVars, termVars, cpuVars, histVars, IInv, TypeOK, ContextAgrees, Lineage,
         HiddenTerminalsResumable, Idle, RespawnSucceeds, HasRoom, FreePids

\* Every step of the kernel preserves the invariant, one case per action.
LEMMA StepInv == IInv /\ [Next]_vars => IInv'
<1> SUFFICES ASSUME IInv, [Next]_vars PROVE IInv'
  OBVIOUS
<1>1. CASE BootShell \/ StartShell \/ RespawnShell
  BY <1>1, StartInv DEF BootShell, StartShell, RespawnShell
<1>2. CASE \E isShell \in BOOLEAN : Execute(isShell)
  BY <1>2, StartInv DEF Execute
<1>3. CASE HaltChild
  BY <1>3, HaltChildInv
<1>4. CASE HaltShell
  BY <1>4, HaltShellInv
<1>5. CASE \E t \in Term : SwitchToRunning(t) \/ SwitchToNew(t)
  BY <1>5, SwitchInv
<1>6. CASE ExecuteNoProgram \/ ExecuteNoSlot \/ StartFails \/ Crashed \/ UNCHANGED vars
  BY <1>6, OtherInv DEF Crashed
<1> QED
  BY <1>1, <1>2, <1>3, <1>4, <1>5, <1>6 DEF Next

\* The inductive invariant holds throughout; the theorems below follow from it.
THEOREM Invariance == Spec => []IInv
BY InitInv, StepInv, PTL DEF Spec

-----------------------------------------------------------------------------

\* Every variable stays in its range, whatever the number of slots, terminals
\* and processes per terminal: process_num neither wraps nor passes its limit.
THEOREM TypeCorrect == Spec => []TypeOK
<1>1. IInv => TypeOK
  BY DEF IInv
<1> QED
  BY <1>1, Invariance, PTL

\* tss.esp0, the user page, cur_pid of the displayed terminal and pid_num name
\* one live process, started in that terminal, whenever a process runs.
THEOREM ContextSafe == Spec => []ContextAgrees
<1>1. IInv => ContextAgrees
  BY DEF IInv
<1> QED
  BY <1>1, Invariance, PTL

\* cur_pid of every running terminal names a live process of that terminal, the
\* deepest one, for Alt+Fn to resume.
THEOREM ResumableSafe == Spec => []HiddenTerminalsResumable
<1>1. IInv => HiddenTerminalsResumable
  BY DEF IInv
<1> QED
  BY <1>1, Invariance, PTL

\* The live processes of each terminal form one line from its base shell to
\* cur_pid along prev_pcb, whatever slots were freed and taken in between.
THEOREM LineageSafe == Spec => []Lineage
<1>1. IInv => Lineage
  BY DEF IInv
<1> QED
  BY <1>1, Invariance, PTL

\* The shell that replaces an exited base shell always finds a slot.
THEOREM RespawnSafe == Spec => []RespawnSucceeds
<1>1. IInv => RespawnSucceeds
  BY DEF IInv
<1> QED
  BY <1>1, Invariance, PTL

-----------------------------------------------------------------------------

\* A slot is given back only by the halt of the current process, which no live
\* process has as its parent.
THEOREM EndsSafe == Spec => OnlyCurrentEnds
<1> DEFINE A == \A p \in Pid : pid_used[p] /\ ~pid_used'[p] =>
                  p = pid_num /\ \A q \in Pid : pid_used[q] => prev_pcb[q] # p
<1>1. IInv /\ [Next]_vars => [A]_vars
  <2> SUFFICES ASSUME IInv, Next, NEW p \in Pid, pid_used[p], ~pid_used'[p]
               PROVE  p = pid_num /\ \A q \in Pid : pid_used[q] => prev_pcb[q] # p
    BY DEF A
  <2>1. ASSUME NEW isShell \in BOOLEAN, StartProcess(isShell)
        PROVE  FALSE
    BY <2>1 DEF StartProcess, Occupy, IInv, TypeOK
  <2>2. HaltChild \/ HaltShell
    BY <2>1 DEF Next, BootShell, StartShell, RespawnShell, Execute, StartFails, Crashed, vars,
                ExecuteNoProgram, ExecuteNoSlot, SwitchToRunning, SwitchToNew, procVars
  <2>3. p = pid_num
    BY <2>2 DEF HaltChild, HaltShell, Release, Resume, IInv, TypeOK
  <2>4. pc = "run"
    BY <2>2 DEF HaltChild, HaltShell, Release, Resume
  <2> QED
    BY <2>3, <2>4, CurrentHasNoChild
<1> QED
  BY <1>1, Invariance, PTL DEF Spec, OnlyCurrentEnds

\* A step on the displayed terminal leaves the processes of every hidden one,
\* their parents, their number and the process to resume as they were.
THEOREM HiddenSafe == Spec => HiddenUntouched
<1> DEFINE Kept(t) ==
        /\ process_num'[t] = process_num[t]
        /\ cur_pid'[t] = cur_pid[t]
        /\ \A p \in Pid : pid_used[p] /\ owner[p] = t =>
            pid_used'[p] /\ owner'[p] = t /\ prev_pcb'[p] = prev_pcb[p]
<1>1. IInv /\ [Next]_vars => [\A t \in Term : t # terminal_idx => Kept(t)]_vars
  <2> SUFFICES ASSUME IInv, Next, NEW t \in Term, t # terminal_idx
               PROVE  Kept(t)
    OBVIOUS
  <2>1. ASSUME NEW isShell \in BOOLEAN, StartProcess(isShell)
        PROVE  Kept(t)
    BY <2>1 DEF StartProcess, Occupy, FirstFree, FreePids, IInv, TypeOK
  <2>2. CASE HaltChild \/ HaltShell
    <3>1. owner[pid_num] = terminal_idx /\ pid_num \in Pid
      BY <2>2, CurrentIsDeepest DEF HaltChild, HaltShell, Release, Resume
    <3> QED
      BY <2>2, <3>1 DEF HaltChild, HaltShell, Release, Resume, IInv, TypeOK
  <2>3. CASE \E u \in Term : SwitchToRunning(u) \/ SwitchToNew(u)
    BY <2>3 DEF SwitchToRunning, Resume, SwitchToNew, procVars, histVars, IInv, TypeOK
  <2>4. CASE ExecuteNoProgram \/ ExecuteNoSlot \/ StartFails \/ Crashed
    BY <2>4 DEF ExecuteNoProgram, ExecuteNoSlot, StartFails, Crashed, vars,
                procVars, termVars, histVars
  <2> QED
    BY <2>1, <2>2, <2>3, <2>4 DEF Next, BootShell, StartShell, RespawnShell, Execute
<1> QED
  BY <1>1, Invariance, PTL DEF Spec, HiddenUntouched

-----------------------------------------------------------------------------
(* process_num is a cardinality *)

Live(t) == {p \in Pid : pid_used[p] /\ owner[p] = t}

\* The live processes of a terminal can be counted, since slots are finitely many.
LEMMA LiveFinite == \A t : IsFiniteSet(Live(t)) /\ Cardinality(Live(t)) \in Nat
<1>1. IsFiniteSet(Pid)
  BY ProcessBounds, FS_Interval DEF Pid
<1>2. \A t : Live(t) \subseteq Pid
  BY DEF Live
<1> QED
  BY <1>1, <1>2, FS_Subset, FS_CardinalityType

\* process_num of every terminal is the number of its live processes.
THEOREM CountsSafe == Spec => []CountsAgree
<1>1. Init => CountsAgree
  BY FS_EmptySet DEF Init, CountsAgree, Live
<1>2. IInv /\ CountsAgree /\ [Next]_vars => CountsAgree'
  <2> SUFFICES ASSUME IInv, CountsAgree, [Next]_vars, NEW t \in Term
               PROVE  process_num'[t] = Cardinality(Live(t)')
    BY DEF CountsAgree, Live
  <2>0. process_num[t] = Cardinality(Live(t)) /\ terminal_idx \in Term /\ process_num[t] \in Nat
    BY DEF CountsAgree, Live, IInv, TypeOK
  <2>1. ASSUME NEW isShell \in BOOLEAN, StartProcess(isShell)
        PROVE  process_num'[t] = Cardinality(Live(t)')
    <3>1. PICK p \in Pid : FirstFree(p) /\ Occupy(p, isShell)
      BY <2>1 DEF StartProcess
    <3>2. ~pid_used[p]
      BY <3>1 DEF FirstFree, FreePids
    <3>3. CASE t = terminal_idx
      <4>1. Live(t)' = Live(t) \cup {p} /\ p \notin Live(t)
        BY <3>1, <3>2, <3>3 DEF Live, Occupy, IInv, TypeOK
      <4>2. process_num'[t] = process_num[t] + 1
        BY <3>1, <3>3 DEF Occupy, IInv, TypeOK
      <4>3. Cardinality(Live(t) \cup {p}) = Cardinality(Live(t)) + 1
        BY <4>1, LiveFinite, FS_AddElement
      <4> QED
        BY <4>1, <4>2, <4>3, <2>0
    <3>4. CASE t # terminal_idx
      <4>1. Live(t)' = Live(t)
        BY <3>1, <3>2, <3>4 DEF Live, Occupy, IInv, TypeOK
      <4> QED
        BY <4>1, <2>0, <3>1, <3>4 DEF Occupy, IInv, TypeOK
    <3> QED
      BY <3>3, <3>4
  <2>2. CASE HaltChild \/ HaltShell
    <3>1. /\ pid_num \in Pid /\ pid_used[pid_num] /\ owner[pid_num] = terminal_idx
          /\ process_num[terminal_idx] \in 1..PER_TERM
      BY <2>2, CurrentIsDeepest DEF HaltChild, HaltShell, Release, Resume
    <3>2. process_num' = [process_num EXCEPT ![terminal_idx] = @ - 1]
      BY <2>2 DEF HaltChild, HaltShell, Release, Resume
    <3>3. CASE t = terminal_idx
      <4>1. Live(t)' = Live(t) \ {pid_num} /\ pid_num \in Live(t)
        BY <2>2, <3>1, <3>3 DEF Live, HaltChild, HaltShell, Release, Resume, IInv, TypeOK
      <4>2. process_num'[t] = process_num[t] - 1
        BY <3>2, <3>3 DEF IInv, TypeOK
      <4> QED
        BY <4>1, <4>2, <2>0, LiveFinite, FS_RemoveElement
    <3>4. CASE t # terminal_idx
      <4>1. Live(t)' = Live(t)
        BY <2>2, <3>1, <3>4 DEF Live, HaltChild, HaltShell, Release, Resume, IInv, TypeOK
      <4> QED
        BY <4>1, <2>0, <3>2, <3>4 DEF IInv, TypeOK
    <3> QED
      BY <3>3, <3>4
  <2>3. CASE UNCHANGED <<pid_used, process_num, owner>>
    BY <2>3, <2>0 DEF Live
  <2> QED
    BY <2>1, <2>2, <2>3
       DEF Next, BootShell, StartShell, RespawnShell, Execute, StartFails, Crashed, vars,
           ExecuteNoProgram, ExecuteNoSlot, SwitchToRunning, SwitchToNew,
           procVars, termVars, histVars
<1> QED
  BY <1>1, <1>2, Invariance, PTL DEF Spec
-----------------------------------------------------------------------------
(***************************************************************************)
(* Processes implements Sessions: the process table, with its slots,       *)
(* parents and counters, is a stack of programs per terminal.              *)
(*                                                                         *)
(* The stack of a terminal is Line(t), its live processes by depth.  That  *)
(* it is well defined is one half of Lineage (no two live processes of a   *)
(* terminal have the same depth) and Filled (none of the depths up to      *)
(* process_num is missing).                                                *)
(***************************************************************************)
\* Process p is at depth n of terminal t.
At(p, t, n) == pid_used[p] /\ owner[p] = t /\ level[p] = n

\* A terminal has a process at every depth that process_num counts.
Filled == \A t \in Term : \A n \in 1..process_num[t] : \E p \in Pid : At(p, t, n)

\* An execute adds the next depth, a halt removes the last one.
LEMMA FilledInv == Spec => []Filled
<1>1. Init => Filled
  BY DEF Init, Filled
<1>2. IInv /\ Filled /\ [Next]_vars => Filled'
  <2> SUFFICES ASSUME IInv, Filled, [Next]_vars,
                      NEW t \in Term, NEW n \in 1..process_num'[t]
               PROVE  \E p \in Pid : At(p, t, n)'
    BY DEF Filled
  <2>0. process_num \in [Term -> 0..PER_TERM] /\ terminal_idx \in Term
    BY DEF IInv, TypeOK
  <2>1. ASSUME NEW isShell \in BOOLEAN, StartProcess(isShell)
        PROVE  \E p \in Pid : At(p, t, n)'
    <3>1. PICK p \in Pid : FirstFree(p) /\ Occupy(p, isShell)
      BY <2>1 DEF StartProcess
    <3>2. ~pid_used[p]
      BY <3>1 DEF FirstFree, FreePids
    <3>3. process_num' = [process_num EXCEPT ![terminal_idx] = @ + 1]
      BY <3>1 DEF Occupy
    <3>4. CASE t = terminal_idx /\ n = process_num[t] + 1
      BY <3>1, <3>4 DEF At, Occupy, IInv, TypeOK
    <3>5. CASE ~(t = terminal_idx /\ n = process_num[t] + 1)
      <4>1. n \in 1..process_num[t]
        BY <2>0, <3>3, <3>5, ProcessBounds
      <4>2. PICK q \in Pid : At(q, t, n)
        BY <4>1 DEF Filled
      <4>3. q # p
        BY <3>2, <4>2 DEF At
      <4> QED
        BY <3>1, <4>2, <4>3 DEF At, Occupy, IInv, TypeOK
    <3> QED
      BY <3>4, <3>5
  <2>2. CASE HaltChild \/ HaltShell
    <3>1. /\ process_num' = [process_num EXCEPT ![terminal_idx] = @ - 1]
          /\ process_num[terminal_idx] \in 1..PER_TERM
      BY <2>2, HaltLeavesLine
    <3>2. owner[pid_num] = terminal_idx /\ level[pid_num] = process_num[terminal_idx]
      BY <2>2, CurrentIsDeepest DEF HaltChild, HaltShell, Release, Resume
    <3>3. n \in 1..process_num[t] /\ ~(t = terminal_idx /\ n = process_num[t])
      BY <2>0, <3>1, ProcessBounds
    <3>4. PICK q \in Pid : At(q, t, n)
      BY <3>3 DEF Filled
    <3>5. q # pid_num
      BY <3>2, <3>3, <3>4 DEF At
    <3> QED
      BY <2>2, <3>4, <3>5 DEF At, HaltChild, HaltShell, Release, Resume, IInv, TypeOK
  <2>3. CASE UNCHANGED <<pid_used, process_num, histVars>>
    BY <2>3 DEF Filled, At, histVars
  <2> QED
    BY <2>1, <2>2, <2>3
       DEF Next, BootShell, StartShell, RespawnShell, Execute, StartFails, Crashed, vars,
           ExecuteNoProgram, ExecuteNoSlot, SwitchToRunning, SwitchToNew,
           procVars, termVars, histVars
<1> QED
  BY <1>1, <1>2, Invariance, PTL DEF Spec

-----------------------------------------------------------------------------
(* Lines as sequences *)

\* Lines are sequences of process_num processes, each at its depth.
LinesTyped ==
    \A t \in Term :
        /\ Line(t) \in Seq(Pid) /\ Len(Line(t)) = process_num[t]
        /\ \A n \in 1..process_num[t] : Line(t)[n] \in Pid /\ At(Line(t)[n], t, n)

\* A terminal with a process at every depth has its line.
LEMMA LineType == IInv /\ Filled => LinesTyped
<1> SUFFICES ASSUME IInv, Filled, NEW t \in Term
             PROVE  /\ Line(t) \in Seq(Pid) /\ Len(Line(t)) = process_num[t]
                    /\ \A n \in 1..process_num[t] : Line(t)[n] \in Pid /\ At(Line(t)[n], t, n)
  BY DEF LinesTyped
<1>1. \A n \in 1..process_num[t] : Line(t)[n] \in Pid /\ At(Line(t)[n], t, n)
  BY DEF Filled, At, Line
<1>2. process_num[t] \in Nat /\ DOMAIN Line(t) = 1..process_num[t]
  BY ProcessBounds DEF IInv, TypeOK, Line
<1>3. Line(t) \in [1..process_num[t] -> Pid]
  BY <1>1, <1>2 DEF Line
<1>4. Line(t) \in Seq(Pid)
  BY <1>2, <1>3, SeqDef
<1>5. Len(Line(t)) = process_num[t]
  BY <1>2, <1>4, LenProperties
<1> QED
  BY <1>1, <1>4, <1>5

\* No other process is at that depth.
LEMMA LineUnique ==
  ASSUME IInv, NEW t \in Term, NEW n, NEW p \in Pid, NEW q \in Pid, At(p, t, n), At(q, t, n)
  PROVE  p = q
BY DEF IInv, Lineage, At

\* After a step, a sequence of live processes, each at its depth, is the line.
LEMMA LineIs ==
  ASSUME LinesTyped', IInv', NEW t \in Term,
         NEW s \in Seq(Pid), Len(s) = process_num'[t],
         \A n \in 1..Len(s) : pid_used'[s[n]] /\ owner'[s[n]] = t /\ level'[s[n]] = n
  PROVE  Line(t)' = s
<1>1. /\ Line(t)' \in Seq(Pid) /\ Len(Line(t)') = process_num'[t]
      /\ \A n \in 1..process_num'[t] : Line(t)'[n] \in Pid /\ At(Line(t)[n], t, n)'
  BY DEF LinesTyped
<1>2. ASSUME NEW n \in 1..Len(s)
      PROVE  Line(t)'[n] = s[n]
  <2>1. s[n] \in Pid
    BY ElementOfSeq
  <2>2. LET p == Line(t)'[n] IN p \in Pid /\ pid_used'[p] /\ owner'[p] = t /\ level'[p] = n
    BY <1>1 DEF At
  <2> QED
    BY <2>1, <2>2 DEF IInv, Lineage
<1> QED
  BY <1>1, <1>2, SeqEqual

\* A terminal whose processes a step leaves alone keeps its line.
LEMMA LineKept ==
  ASSUME LinesTyped, LinesTyped', IInv', NEW t \in Term,
         process_num'[t] = process_num[t],
         \A p \in Pid : pid_used[p] /\ owner[p] = t =>
            pid_used'[p] /\ owner'[p] = t /\ level'[p] = level[p]
  PROVE  Line(t)' = Line(t)
<1>1. /\ Line(t) \in Seq(Pid) /\ Len(Line(t)) = process_num'[t]
      /\ \A n \in 1..Len(Line(t)) : Line(t)[n] \in Pid /\ At(Line(t)[n], t, n)
  BY DEF LinesTyped
<1>2. \A n \in 1..Len(Line(t)) :
         LET p == Line(t)[n] IN pid_used'[p] /\ owner'[p] = t /\ level'[p] = n
  BY <1>1 DEF At
<1> QED
  BY <1>1, <1>2, LineIs

\* execute puts the new process at the end of the displayed terminal's line.
LEMMA LineGrows ==
  ASSUME IInv, IInv', LinesTyped, LinesTyped', NEW isShell \in BOOLEAN,
         NEW p \in Pid, FirstFree(p), Occupy(p, isShell),
         NEW t \in Term, t = terminal_idx
  PROVE  /\ Line(t)' = Append(Line(t), p)
         /\ \A u \in Term : u # t => Line(u)' = Line(u)
<1> DEFINE longer == Append(Line(t), p)
<1>1. ~pid_used[p] /\ t \in Term
  BY DEF FirstFree, FreePids, IInv, TypeOK
<1>2. /\ pid_used' = [pid_used EXCEPT ![p] = TRUE]
      /\ process_num' = [process_num EXCEPT ![t] = @ + 1]
      /\ owner' = [owner EXCEPT ![p] = t]
      /\ level' = [level EXCEPT ![p] = process_num[t] + 1]
  BY DEF Occupy
<1>3. /\ pid_used \in [Pid -> BOOLEAN] /\ owner \in [Pid -> Term]
      /\ process_num \in [Term -> 0..PER_TERM] /\ level \in [Pid -> 0..PER_TERM]
  BY DEF IInv, TypeOK
<1>4. /\ Line(t) \in Seq(Pid) /\ Len(Line(t)) = process_num[t]
      /\ \A n \in 1..process_num[t] : Line(t)[n] \in Pid /\ At(Line(t)[n], t, n)
  BY <1>1 DEF LinesTyped
<1>5. /\ longer \in Seq(Pid) /\ Len(longer) = process_num'[t]
      /\ longer[process_num[t] + 1] = p
      /\ \A n \in 1..process_num[t] : longer[n] = Line(t)[n]
  BY <1>1, <1>2, <1>3, <1>4
<1>6. ASSUME NEW n \in 1..Len(longer)
      PROVE  pid_used'[longer[n]] /\ owner'[longer[n]] = t /\ level'[longer[n]] = n
  <2>1. CASE n = process_num[t] + 1
    BY <2>1, <1>2, <1>3, <1>5
  <2>2. CASE n \in 1..process_num[t]
    <3>1. longer[n] \in Pid /\ At(longer[n], t, n)
      BY <2>2, <1>4, <1>5
    <3>2. longer[n] # p
      BY <3>1, <1>1 DEF At
    <3> QED
      BY <3>1, <3>2, <1>2, <1>3 DEF At
  <2> QED
    BY <2>1, <2>2, <1>2, <1>3, <1>5
<1>7. Line(t)' = longer
  <2> HIDE DEF longer
  <2> QED
    BY <1>1, <1>5, <1>6, LineIs
<1>8. ASSUME NEW u \in Term, u # t
      PROVE  Line(u)' = Line(u)
  BY <1>1, <1>2, <1>3, <1>8, LineKept
<1> QED
  BY <1>7, <1>8

\* halt takes the last process from the displayed terminal's line.
LEMMA LineShrinks ==
  ASSUME IInv, IInv', LinesTyped, LinesTyped', HaltChild \/ HaltShell,
         NEW t \in Term, t = terminal_idx
  PROVE  /\ Line(t) # << >>
         /\ Line(t)' = SubSeq(Line(t), 1, Len(Line(t)) - 1)
         /\ \A u \in Term : u # t => Line(u)' = Line(u)
<1> DEFINE shorter == SubSeq(Line(t), 1, Len(Line(t)) - 1)
<1>1. /\ t \in Term /\ pid_num \in Pid /\ owner[pid_num] = t
      /\ level[pid_num] = process_num[t] /\ process_num[t] \in 1..PER_TERM
      /\ process_num' = [process_num EXCEPT ![t] = @ - 1]
  BY CurrentIsDeepest, HaltLeavesLine DEF HaltChild, HaltShell, Release, Resume
<1>2. ASSUME NEW p \in Pid, p # pid_num
      PROVE  pid_used'[p] = pid_used[p] /\ owner'[p] = owner[p] /\ level'[p] = level[p]
  BY <1>2 DEF HaltChild, HaltShell, Release, Resume, IInv, TypeOK
<1>3. process_num \in [Term -> 0..PER_TERM]
  BY DEF IInv, TypeOK
<1>4. /\ Line(t) \in Seq(Pid) /\ Len(Line(t)) = process_num[t]
      /\ \A n \in 1..process_num[t] : Line(t)[n] \in Pid /\ At(Line(t)[n], t, n)
  BY <1>1 DEF LinesTyped
<1>5. /\ shorter \in Seq(Pid) /\ Len(shorter) = process_num[t] - 1
      /\ \A n \in 1..(process_num[t] - 1) : shorter[n] = Line(t)[n]
  BY <1>1, <1>4, ProcessBounds, SubSeqProperties
<1>6. ASSUME NEW n \in 1..Len(shorter)
      PROVE  pid_used'[shorter[n]] /\ owner'[shorter[n]] = t /\ level'[shorter[n]] = n
  <2>1. shorter[n] \in Pid /\ At(shorter[n], t, n) /\ n # process_num[t]
    BY <1>1, <1>4, <1>5, ProcessBounds
  <2>2. shorter[n] # pid_num
    BY <2>1, <1>1 DEF At
  <2> QED
    BY <2>1, <2>2, <1>2 DEF At
<1>7. Line(t)' = shorter
  <2>1. Len(shorter) = process_num'[t]
    BY <1>1, <1>3, <1>5
  <2> HIDE DEF shorter
  <2> QED
    BY <2>1, <1>1, <1>5, <1>6, LineIs
<1>8. ASSUME NEW u \in Term, u # t
      PROVE  Line(u)' = Line(u)
  <2>1. \A p \in Pid : pid_used[p] /\ owner[p] = u =>
           pid_used'[p] /\ owner'[p] = u /\ level'[p] = level[p]
    BY <1>1, <1>2, <1>8
  <2> QED
    BY <2>1, <1>1, <1>3, <1>8, LineKept
<1>9. Line(t) # << >>
  BY <1>1, <1>4, EmptySeq
<1> QED
  BY <1>7, <1>8, <1>9

-----------------------------------------------------------------------------

\* The kernel's process table implements the terminals' stacks of programs:
\* every execute that succeeds is a Launch, every halt a Leave, every Alt+Fn a
\* Show, and nothing else is seen.
THEOREM ProcessesImplementSessions == Spec => ImplementsSessions
<1> DEFINE Stacks == [t \in Term |-> Line(t)]
<1>1. Init => S!Init
  <2> SUFFICES ASSUME Init PROVE S!Init
    OBVIOUS
  <2>1. ASSUME NEW t \in Term
        PROVE  Line(t) = << >>
    <3>1. IInv /\ Filled
      BY InitInv DEF Init, Filled
    <3>2. Line(t) \in Seq(Pid) /\ Len(Line(t)) = 0
      BY <3>1, LineType DEF LinesTyped, Init
    <3> QED
      BY <3>2, EmptySeq
  <2> QED
    BY <2>1 DEF S!Init, S!Terminal, Term, Init
<1>2. /\ IInv /\ IInv' /\ LinesTyped /\ LinesTyped' /\ [Next]_vars
      => [S!Next]_<<terminal_idx, Stacks>>
  <2> SUFFICES ASSUME IInv, IInv', LinesTyped, LinesTyped', [Next]_vars
               PROVE  [S!Next]_<<terminal_idx, Stacks>>
    OBVIOUS
  <2>0. terminal_idx \in Term /\ process_num \in [Term -> 0..PER_TERM]
    BY DEF IInv, TypeOK
  <2>1. ASSUME NEW isShell \in BOOLEAN, StartProcess(isShell)
        PROVE  S!Launch
    <3>1. PICK p \in Pid : FirstFree(p) /\ Occupy(p, isShell)
      BY <2>1 DEF StartProcess
    <3>2. ~pid_used[p] /\ process_num[terminal_idx] < PER_TERM
      BY <2>1, <3>1 DEF StartProcess, HasRoom, FirstFree, FreePids
    <3>3. Len(Stacks[terminal_idx]) < PER_TERM
      BY <2>0, <3>2 DEF LinesTyped
    <3>4. \A t \in Term : p \notin S!On(t)
      BY <3>2 DEF S!On, LinesTyped, At
    <3>5. Stacks' = [Stacks EXCEPT ![terminal_idx] = Append(@, p)]
      <4>1. PICK t \in Term : t = terminal_idx
        BY <2>0
      <4>2. Line(t)' = Append(Line(t), p) /\ \A u \in Term : u # t => Line(u)' = Line(u)
        BY <3>1, <4>1, LineGrows
      <4> QED
        BY <4>1, <4>2
    <3>6. terminal_idx' = terminal_idx
      BY <3>1 DEF Occupy
    <3> QED
      BY <3>3, <3>4, <3>5, <3>6 DEF S!Launch, S!Program, S!Terminal, Pid, Term
  <2>2. CASE HaltChild \/ HaltShell
    <3>0. PICK t \in Term : t = terminal_idx
      BY <2>0
    <3>a. /\ Line(t) # << >>
          /\ Line(t)' = SubSeq(Line(t), 1, Len(Line(t)) - 1)
          /\ \A u \in Term : u # t => Line(u)' = Line(u)
      BY <2>2, <3>0, LineShrinks
    <3>1. Stacks' = [Stacks EXCEPT ![terminal_idx] = SubSeq(@, 1, Len(@) - 1)]
      BY <3>0, <3>a
    <3>2. Stacks[terminal_idx] # << >> /\ terminal_idx' = terminal_idx
      BY <2>2, <3>0, <3>a DEF HaltChild, HaltShell
    <3>3. S!Leave
      BY <3>1, <3>2 DEF S!Leave
    <3> QED
      BY <3>3 DEF S!Next
  <2>3. ASSUME UNCHANGED <<pid_used, process_num, histVars>>
        PROVE  Stacks' = Stacks
    <3>1. ASSUME NEW t \in Term
          PROVE  Line(t)' = Line(t)
      BY <2>3, LineKept DEF histVars
    <3> QED
      BY <3>1
  <2>4. ASSUME NEW t \in Term, SwitchToRunning(t) \/ SwitchToNew(t)
        PROVE  S!Show
    <3>1. UNCHANGED <<pid_used, process_num, histVars>> /\ terminal_idx' = t /\ pc = "run"
      BY <2>4 DEF SwitchToRunning, SwitchToNew, procVars
    <3>2. process_num[terminal_idx] \in 1..PER_TERM
      BY <3>1, CurrentIsDeepest
    <3>3. Stacks[terminal_idx] # << >>
      BY <2>0, <3>2, EmptySeq DEF LinesTyped
    <3> QED
      BY <2>3, <3>1, <3>3 DEF S!Show, S!Terminal, Term
  <2>5. CASE UNCHANGED <<terminal_idx, pid_used, process_num, histVars>>
    BY <2>3, <2>5
  <2> QED
    BY <2>1, <2>2, <2>4, <2>5
       DEF Next, BootShell, StartShell, RespawnShell, Execute, StartFails, Crashed, vars,
           ExecuteNoProgram, ExecuteNoSlot, procVars, termVars, histVars, S!Next
<1>3. IInv /\ Filled => LinesTyped
  BY LineType
<1> QED
  BY <1>1, <1>2, <1>3, Invariance, FilledInv, PTL DEF Spec, ImplementsSessions, S!Spec
=============================================================================

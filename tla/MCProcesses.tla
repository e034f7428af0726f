----------------------------- MODULE MCProcesses -----------------------------
(***************************************************************************)
(* Model checking of Processes, and its refinement of Sessions: a          *)
(* terminal's stack is the line of its live processes, by depth.           *)
(***************************************************************************)
EXTENDS Processes, Sequences

Line(t) ==
    [n \in 1..process_num[t] |->
        CHOOSE p \in Pid : pid_used[p] /\ owner[p] = t /\ level[p] = n]

S == INSTANCE Sessions WITH
        shown <- terminal_idx,
        stack <- [t \in Term |-> Line(t)]

\* The process table implements the terminals' stacks of programs: execute
\* pushes on the displayed one, halt pops, a switch changes none, and an
\* emptied stack is refilled before any other step.
ImplementsSessions == S!Spec
=============================================================================

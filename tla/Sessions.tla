------------------------------- MODULE Sessions -------------------------------
(***************************************************************************)
(* What the process table promises to the user of the terminals: each      *)
(* terminal holds a stack of programs.  Only the top program of the shown  *)
(* terminal acts; it may put a program on top of itself or leave.  A       *)
(* terminal whose stack is empty when it is on display gets a shell before *)
(* anything else happens.                                                  *)
(***************************************************************************)
EXTENDS Naturals, Sequences

CONSTANTS MAX_PROCESS, TM_MAX, PER_TERM

VARIABLES shown, stack

Program == 1..MAX_PROCESS
Terminal == 0..(TM_MAX - 1)

On(t) == {stack[t][n] : n \in 1..Len(stack[t])}

Init ==
    /\ shown = 0
    /\ stack = [t \in Terminal |-> << >>]

Launch ==
    /\ Len(stack[shown]) < PER_TERM
    /\ \E p \in Program :
        /\ \A t \in Terminal : p \notin On(t)
        /\ stack' = [stack EXCEPT ![shown] = Append(@, p)]
    /\ UNCHANGED shown

Leave ==
    /\ stack[shown] # << >>
    /\ stack' = [stack EXCEPT ![shown] = SubSeq(@, 1, Len(@) - 1)]
    /\ UNCHANGED shown

Show ==
    /\ stack[shown] # << >>
    /\ shown' \in Terminal
    /\ UNCHANGED stack

Next == Launch \/ Leave \/ Show

Spec == Init /\ [][Next]_<<shown, stack>>
=============================================================================

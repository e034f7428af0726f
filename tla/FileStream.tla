------------------------------ MODULE FileStream ------------------------------
(***************************************************************************)
(* What the file system promises: a file is a sequence of bytes, a         *)
(* descriptor reads it from front to back, as much as is asked for while   *)
(* that much is left, and a program is loaded whole.                       *)
(***************************************************************************)
EXTENDS Naturals, Sequences

CONSTANTS Byte, NBYTES

VARIABLES file, delivered, loaded

Left == Len(file) - Len(delivered)

Init ==
    /\ file \in Seq(Byte)
    /\ delivered = << >>
    /\ loaded = << >>

\* Past the end this is a step that changes nothing.
Read(n) ==
    /\ delivered' = SubSeq(file, 1, Len(delivered) + (IF n < Left THEN n ELSE Left))
    /\ UNCHANGED <<file, loaded>>

Load ==
    /\ loaded' = file
    /\ UNCHANGED <<file, delivered>>

Next == Load \/ \E n \in NBYTES : Read(n)

Spec == Init /\ [][Next]_<<file, delivered, loaded>>
=============================================================================

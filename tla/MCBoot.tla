--------------------------------- MODULE MCBoot ---------------------------------
(***************************************************************************)
(* Model checking of Boot: boot loaders that fill the page exactly, set no *)
(* flag, set the two that exclude each other, are not multiboot ones, or   *)
(* ask for more than a row or the page holds.                              *)
(***************************************************************************)
EXTENDS Boot

AnyWord == 0..(WORD - 1)

Loader(valid, flags, mods, mmaps, bytes) ==
    {[valid |-> valid, flags |-> flags, mods |-> mods, mmaps |-> mmaps,
      bytes |-> bytes, word |-> w] : w \in AnyWord}

Short == <<0, 1, 1, 0>>

PlainBoots ==
    Loader(FALSE, {}, 0, 0, << >>)
    \cup Loader(TRUE, {}, 0, 0, << >>)
    \cup Loader(TRUE, {4, 5}, 0, 0, << >>)
    \cup Loader(TRUE, {0, 2, 3, 4}, 2, 0, Short)
    \cup Loader(TRUE, {1, 6}, 0, 2, << >>)

\* The cursor is below the page when this boot is over.
FullBoots == Loader(TRUE, {0, 1, 2, 3, 5, 6}, 1, 1, Short)

\* A byte above 127 is printed with all the places of a word: a longer row.
WideBoots == Loader(TRUE, {3}, 1, 0, <<0, 15, 15, 15>>)

\* A memory map of more ranges than the page has rows for.
TallBoots == Loader(TRUE, {0, 1, 2, 3, 5, 6}, 1, 2, Short)

AnyBoots == PlainBoots \cup FullBoots \cup WideBoots \cup TallBoots
=============================================================================

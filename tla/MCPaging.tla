------------------------------- MODULE MCPaging -------------------------------
(***************************************************************************)
(* Model checking of Paging over KernelStacks: the refinement of           *)
(* Processes is that of MCKernelStacks, the steps of entry and of the      *)
(* translations being invisible to it.                                     *)
(***************************************************************************)
EXTENDS Paging, MCKernelStacks
=============================================================================

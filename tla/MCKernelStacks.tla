---------------------------- MODULE MCKernelStacks ----------------------------
(***************************************************************************)
(* Model checking of KernelStacks, and its refinement of Processes when no *)
(* key arrives while a shell is loaded: taking the slot is the step in     *)
(* which the shell starts, and what execute still has to set is shown as   *)
(* it will be.                                                             *)
(***************************************************************************)
EXTENDS KernelStacks

Loading == pc \in {"alloc", "marked"}

P == INSTANCE Processes WITH
        pc <- IF Loading \/ pc = "undefined" THEN "run" ELSE pc,
        running <- IF Loading THEN [running EXCEPT ![terminal_idx] = TRUE] ELSE running,
        term_pid <- IF Loading THEN [term_pid EXCEPT ![terminal_idx] = pid_num] ELSE term_pid,
        prev_pcb <- IF Loading THEN [prev_pcb EXCEPT ![pid_num] = NULL] ELSE prev_pcb,
        user_page <- IF Loading THEN pid_num ELSE user_page,
        esp0 <- IF Loading THEN pid_num ELSE esp0

\* With no Alt+Fn in the window the kernel, stacks and all, is the process table
\* of Processes: loading a shell in steps looks like starting it in one.
ImplementsProcesses == P!Spec
=============================================================================

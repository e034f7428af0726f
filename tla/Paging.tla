-------------------------------- MODULE Paging --------------------------------
(***************************************************************************)
(* Address translation under KernelStacks: the page directory, the         *)
(* translations that the processor keeps (external), vidmap, and the end   *)
(* of entry, from sti on, which gives each terminal the page its screen is *)
(* saved in.                                                               *)
(*                                                                         *)
(* Two entries of page_dir change: 32, the program's 4 MB page at 128 MB,  *)
(* and 256, the table vidmap fills.  Entries 0 and 1 are set by            *)
(* init_paging, before paging and interrupts are enabled.  A frame is the  *)
(* pid whose image it holds.                                               *)
(*                                                                         *)
(* The processor may keep any translation that the tables give, from the   *)
(* moment they give it until CR3 is loaded.                                *)
(***************************************************************************)
EXTENDS KernelStacks

ABSENT == -1
SCREEN == MAX_PROCESS + 1       \* 0xB8000

USER == "V_BASE_ADDR"
VID == "USER_VID_MEM"
Page == {USER, VID}

\* The 4 KB pages below 4 MB: the screen, where terminals save it, and others.
NULL_PAGE == -1
VIDEO == -2
VIDEO_SAVE(t) == t

VARIABLES
    boot_step,      \* how far entry is between sti and its execute("shell")
    vidmem_addr,    \* term_t.vidmem_addr
    vid_entry,      \* entry 256 of page_dir and entry 0 of user_video_PT
    tlb,            \* translations that the processor keeps
    faulted,        \* a page fault: its handler prints a line and loops for ever
    mapped          \* history: was vidmap called?

pagingVars == <<boot_step, vidmem_addr, vid_entry, tlb, faulted, mapped>>
pvars == <<kvars, pagingVars>>

\* init_paging without one of the pages in which terminals save the screen.
LowPagesButOne == {VIDEO} \cup {VIDEO_SAVE(t) : t \in Term \ {TM_MAX - 1}}

\* The entries of page_table_1 that init_paging marks present.
LowPages == {VIDEO} \cup {VIDEO_SAVE(t) : t \in Term}

PInit ==
    /\ KInit
    /\ boot_step = 0
    /\ vidmem_addr = [t \in Term |-> NULL_PAGE]
    /\ vid_entry = ABSENT
    /\ tlb = [v \in Page |-> ABSENT]
    /\ faulted = FALSE
    /\ mapped = FALSE

-----------------------------------------------------------------------------
(* Tables and translations *)

\* What the tables say of a page.
Entry(v) ==
    IF v = VID THEN vid_entry
    ELSE IF user_page = NULL THEN ABSENT ELSE user_page

\* Where an access to a page goes.
Translate(v) == IF tlb[v] # ABSENT THEN tlb[v] ELSE Entry(v)

\* The processor keeps a translation, because it was used or may be.
Keep(v) ==
    /\ Entry(v) # ABSENT
    /\ tlb' = [tlb EXCEPT ![v] = Entry(v)]
    /\ UNCHANGED <<kvars, boot_step, vidmem_addr, vid_entry, faulted, mapped>>

\* page_map without its load_page_dir.
PageMapOnly == UNCHANGED tlb

\* page_map writes the entry (user_page in Processes) and loads CR3.
page_map == tlb' = [v \in Page |-> ABSENT]

\* Without the assignment to user_video_PT[0].
VideoEntryCleared == ABSENT

VideoEntry == SCREEN

\* video_page_map makes both entries at once, with IF = 0, and loads nothing:
\* entry 0 of the table is absent in between, but was the same before.
vidmap ==
    /\ pc = "run"
    /\ vid_entry' = VideoEntry
    /\ mapped' = TRUE
    /\ UNCHANGED <<kvars, boot_step, vidmem_addr, tlb, faulted>>

-----------------------------------------------------------------------------
(* entry, with interrupts on *)

Done == TM_MAX + 2
InEntry(n) == pc = "boot" /\ boot_step = n /\ boot_step' = n + 1

\* Lines 286-291
DefineVidmem(t) ==
    /\ InEntry(t)
    /\ vidmem_addr' = [vidmem_addr EXCEPT ![t] = VIDEO_SAVE(t)]
    /\ UNCHANGED <<kvars, vid_entry, tlb, faulted, mapped>>

\* Lines 292-299
ResetTables ==
    /\ InEntry(TM_MAX)
    /\ running' = [t \in Term |-> FALSE]
    /\ pid_used' = [p \in Pid |-> FALSE]
    /\ UNCHANGED <<pc, terminal_idx, pid_num, prev_pcb, cur_pid, term_pid, process_num,
                   cpuVars, eax, histVars, stackVars, vidmem_addr, vid_entry, tlb,
                   faulted, mapped>>

\* Line 301
init_all_video_buf ==
    /\ InEntry(TM_MAX + 1)
    /\ faulted' = (\E t \in Term : vidmem_addr[t] \notin LowPages)
    /\ UNCHANGED <<kvars, vidmem_addr, vid_entry, tlb, mapped>>

-----------------------------------------------------------------------------
(* keyboard_handler *)

SaveFaults == vidmem_addr[terminal_idx] \notin LowPages

\* Every key that is not ignored saves the screen first (line 188).  It may come
\* at any point after sti, in entry and while a shell is being loaded as well.
OrdinaryKey ==
    /\ pc \in Windows \cup {"run"}
    /\ depth + 1 < DEPTH
    /\ faulted' = SaveFaults
    /\ UNCHANGED <<kvars, boot_step, vidmem_addr, vid_entry, tlb, mapped>>

\* Alt+Fn saves the screen and brings the other terminal's.
ShowFaults(t) == SaveFaults \/ vidmem_addr[t] \notin LowPages

PSwitchToRunning(t) == KSwitchToRunning(t) /\ page_map /\ faulted' = ShowFaults(t)

PSwitchToNew(t) == KSwitchToNew(t) /\ UNCHANGED tlb /\ faulted' = ShowFaults(t)

-----------------------------------------------------------------------------

\* Steps of KernelStacks that change the user page, and those that do not.
Remapping ==
    \/ \E isShell \in BOOLEAN : KExecute(isShell)
    \/ KHaltChild \/ KRespawnShell \/ EnterShell

\* TakeSlot is where entry, having come to its end, executes the first shell.
NotRemapping ==
    \/ KExecuteFails \/ KHaltShell \/ MarkRunning \/ KStartFails \/ Stopped
    \/ TakeSlot /\ (pc = "boot" => boot_step = Done)

Kernel ==
    /\ \/ Remapping /\ page_map /\ UNCHANGED faulted
       \/ NotRemapping /\ UNCHANGED <<tlb, faulted>>
       \/ \E t \in Term : PSwitchToRunning(t) \/ PSwitchToNew(t)
    /\ UNCHANGED <<boot_step, vidmem_addr, vid_entry, mapped>>

\* The page fault handler, with IF = 0.
Faulted == faulted /\ UNCHANGED pvars

PNext ==
    \/ /\ ~faulted
       /\ \/ Kernel
          \/ \E t \in Term : DefineVidmem(t)
          \/ ResetTables \/ init_all_video_buf
          \/ OrdinaryKey
          \/ vidmap
          \/ \E v \in Page : Keep(v)
    \/ Faulted

PSpec == PInit /\ [][PNext]_pvars

-----------------------------------------------------------------------------
(* Properties *)

\* Every variable stays in its range.
PagingTypeOK ==
    /\ StackTypeOK
    /\ boot_step \in 0..Done
    /\ vidmem_addr \in [Term -> Term \cup {NULL_PAGE}]
    /\ vid_entry \in {ABSENT, SCREEN}
    /\ tlb \in [Page -> (1..SCREEN) \cup {ABSENT}]
    /\ faulted \in BOOLEAN /\ mapped \in BOOLEAN

\* "restore the pid and flush the TLB" (terminal.c:469): whatever the processor
\* has kept, a program that runs finds its own image at 128 MB, never that of a
\* child, of another terminal or of the slot's last user; and once vidmap was
\* called the screen at 1 GB.
OwnImage ==
    pc = "run" =>
        /\ Translate(USER) = pid_num
        /\ mapped => Translate(VID) = SCREEN

\* "define vidmem_addr for each terminal" (kernel.c:285): entry does so after it
\* has enabled interrupts, so a key pressed earlier may fault; but once that loop
\* is over no key, and nothing else that saves or brings a screen, touches a page
\* that is not there, whatever else of entry or of execute is still to be done.
NoLateFault == faulted => boot_step < TM_MAX
=============================================================================

------------------------------ MODULE Interrupts ------------------------------
(***************************************************************************)
(* The interrupt flag, the two 8259 controllers, the clock and keyboard    *)
(* handlers, and rtc_read.                                                 *)
(*                                                                         *)
(* Each terminal has a stack of contexts, suspended but for the top one of *)
(* the terminal on display, which the processor runs.  A context is a      *)
(* program ("user"), a system call that has enabled interrupts ("call" or  *)
(* "rtc_read") or a handler.  It holds its own interrupt flag, sti: entering *)
(* a gate pushes the flags and clears IF, iret brings them back, so that the *)
(* top context's flag is the processor's.  A handler's context stays after it *)
(* has served its device until the linkage returns from it.  What runs with *)
(* IF = 0 from its entry on is one step; a context whose flag is set can be *)
(* interrupted.                                                            *)
(*                                                                         *)
(* The devices and the controllers are external: they are what inb, outb   *)
(* and the end-of-interrupt commands of the code act upon.                 *)
(***************************************************************************)
EXTENDS Naturals, Sequences, FiniteSets

CONSTANTS
    TM_MAX,     \* terminals
    PROGRAMS,   \* bound: programs that a terminal holds
    NEST        \* bound: contexts of one device's handler when it asks again,
                \* and of the clock's when Alt+Fn leaves a terminal

ASSUME InterruptsBounds ==
    /\ TM_MAX \in Nat \ {0}
    /\ PROGRAMS \in Nat \ {0}
    /\ NEST \in Nat \ {0}

Term == 0..(TM_MAX - 1)
KB == "keyboard"        \* KEYBOARD_IRQ, 1
RTC == "rtc"            \* RTC_IRQ, 8: the slave's line 0
CASCADE == "cascade"    \* PIC_CAS_IR, 2: the master's line for the slave
Irq == {KB, RTC}
Kind == {"user", "call", "rtc_read"} \cup Irq
Context == [kind : Kind, sti : BOOLEAN, served : BOOLEAN]

VARIABLES
    terminal_idx,
    contexts,       \* each terminal's stack of contexts, the top one last
    RTC_IR,         \* rtc.h: is somebody waiting for the clock?
    masked,         \* master_mask and slave_mask: lines that are shut
    pending,        \* requests that the controllers hold
    in_service,     \* interrupts that they take to be unfinished
    raised,         \* devices not served since their last request
    ticked          \* history: has the clock's handler run since rtc_read was called?

deviceVars == <<pending, in_service, raised>>
vars == <<terminal_idx, contexts, RTC_IR, masked, deviceVars, ticked>>

Mine == contexts[terminal_idx]
Depth == Len(Mine)
Top == Mine[Depth]
Running(kind) == Top.kind = kind
Count(kind) == Cardinality({n \in 1..Depth : Mine[n].kind = kind})
Waiting(t) == \E n \in 1..Len(contexts[t]) : contexts[t][n].kind = "rtc_read"

New(kind, flag) == [kind |-> kind, sti |-> flag, served |-> FALSE]
Push(kind, flag) == [contexts EXCEPT ![terminal_idx] = Append(@, New(kind, flag))]
Pop == [contexts EXCEPT ![terminal_idx] = SubSeq(@, 1, Depth - 1)]
\* The handler on top has served its device; is the flag set already?
Serve(flag) == [contexts EXCEPT ![terminal_idx][Depth] =
                    [kind |-> Top.kind, sti |-> flag, served |-> TRUE]]

\* The lines of the controllers that serve a device: the master's come first.
Lines(irq) == IF irq = RTC THEN {RTC, CASCADE} ELSE {irq}

\* A line of the slave opens the master's line for the slave with it.
enable_irq(shut, irq) == shut \ Lines(irq)

\* i8259_init shuts every line.
AllMasked == {KB, RTC, CASCADE}
keyboard_init(shut) == enable_irq(shut, KB)
rtc_init(shut) == enable_irq(enable_irq(shut, CASCADE), RTC)

\* entry has initialised the devices and executed the first shell with
\* interrupts on.
Init ==
    /\ terminal_idx = 0
    /\ contexts = [t \in Term |->
            IF t = 0 THEN << New("user", TRUE) >> ELSE << >>]
    /\ RTC_IR = FALSE
    /\ masked = rtc_init(keyboard_init(AllMasked))
    /\ pending = {} /\ in_service = {} /\ raised = {}
    /\ ticked = [t \in Term |-> FALSE]

-----------------------------------------------------------------------------
(* Devices and controllers *)

\* A device asks again only when its last request was served: the clock when
\* register C was read, the keyboard when its data port was.
Request(irq) ==
    /\ irq \notin raised
    /\ Count(irq) < NEST
    /\ raised' = raised \cup {irq}
    /\ pending' = pending \cup {irq}
    /\ UNCHANGED <<terminal_idx, contexts, RTC_IR, masked, in_service, ticked>>

\* A line is held back by itself and by the more urgent ones in service.
Blocked(irq) ==
    \/ KB \in in_service
    \/ irq = RTC /\ (in_service # {} \/ KB \in pending)

Take(irq) ==
    /\ Top.sti
    /\ irq \in pending
    /\ Lines(irq) \cap masked = {}
    /\ ~Blocked(irq)
    /\ pending' = pending \ {irq}
    /\ in_service' = in_service \cup Lines(irq)
    /\ contexts' = Push(irq, FALSE)
    /\ UNCHANGED <<terminal_idx, RTC_IR, masked, raised, ticked>>

-----------------------------------------------------------------------------
(* Handlers *)

\* The end of interrupt for one controller only.
EndedOnSlave(irq) == {irq}

\* send_eoi: for the clock both controllers are told.
Ended(irq) == IF irq = RTC THEN {RTC, CASCADE} ELSE {irq}

AtEntry(irq) == Running(irq) /\ ~Top.served

\* Register C was not read.
ClockUnread == raised

\* The devices still to be served when register C was read.
ClockServed == raised \ {RTC}

\* The waiting reader is released.
rtc_handler ==
    /\ AtEntry(RTC)
    /\ raised' = ClockServed
    /\ RTC_IR' = FALSE
    /\ ticked' = [t \in Term |-> Waiting(t)]
    /\ in_service' = in_service \ Ended(RTC)
    /\ contexts' = Serve(TRUE)
    /\ UNCHANGED <<terminal_idx, masked, pending>>

\* Every key but Alt+Fn.
keyboard_handler ==
    /\ AtEntry(KB)
    /\ raised' = raised \ {KB}
    /\ in_service' = in_service \ Ended(KB)
    /\ contexts' = Serve(TRUE)
    /\ UNCHANGED <<terminal_idx, RTC_IR, masked, pending, ticked>>

\* Alt+Fn to a terminal that was shown before, on whose top there is a handler
\* that was left the same way (this one, if it is the terminal on display).
SwitchToRunning(t) ==
    /\ AtEntry(KB)
    /\ Count(RTC) <= NEST
    /\ contexts[t] # << >>
    /\ terminal_idx' = t
    /\ raised' = raised \ {KB}
    /\ in_service' = in_service \ Ended(KB)
    /\ contexts' = Serve(FALSE)
    /\ UNCHANGED <<RTC_IR, masked, pending, ticked>>

\* Alt+Fn to another terminal: the shell is executed after sti.
SwitchToNew(t) ==
    /\ AtEntry(KB)
    /\ Count(RTC) <= NEST
    /\ contexts[t] = << >>
    /\ terminal_idx' = t
    /\ raised' = raised \ {KB}
    /\ in_service' = in_service \ Ended(KB)
    /\ contexts' = [Serve(FALSE) EXCEPT ![t] = << New("user", TRUE) >>]
    /\ UNCHANGED <<RTC_IR, masked, pending, ticked>>

\* popfl, popal and iret of the linkage.
Leave(irq) ==
    /\ Running(irq)
    /\ Top.served
    /\ contexts' = Pop
    /\ UNCHANGED <<terminal_idx, RTC_IR, masked, deviceVars, ticked>>

-----------------------------------------------------------------------------
(* Programs *)

CallUnchanged == UNCHANGED <<terminal_idx, masked, deviceVars>>

HasParent == Count("user") > 1

\* execute pushes its own flags, cleared by the gate, for the new program.
Execute ==
    /\ Running("user")
    /\ Depth < PROGRAMS
    /\ contexts' = Push("user", FALSE)
    /\ CallUnchanged /\ UNCHANGED <<RTC_IR, ticked>>

\* halt returns into the parent's call of execute, and that to the parent.
HaltChild ==
    /\ Running("user")
    /\ HasParent
    /\ contexts' = Pop
    /\ CallUnchanged /\ UNCHANGED <<RTC_IR, ticked>>

\* The base shell is executed again, from halt's gate.
HaltShell ==
    /\ Running("user")
    /\ ~HasParent
    /\ contexts' = [contexts EXCEPT ![terminal_idx][Depth].sti = FALSE]
    /\ CallUnchanged /\ UNCHANGED <<RTC_IR, ticked>>

\* RTC_IR left as it was.
FlagUnset == RTC_IR

FlagSet == TRUE

\* rtc_read up to its loop.
rtc_read ==
    /\ Running("user")
    /\ RTC_IR' = FlagSet
    /\ ticked' = [ticked EXCEPT ![terminal_idx] = FALSE]
    /\ contexts' = Push("rtc_read", TRUE)
    /\ CallUnchanged

rtc_read_returns ==
    /\ Running("rtc_read")
    /\ ~RTC_IR
    /\ contexts' = Pop
    /\ ticked' = [ticked EXCEPT ![terminal_idx] = FALSE]
    /\ CallUnchanged /\ UNCHANGED RTC_IR

\* Without sti.
CallDisabled == Push("call", FALSE)

CallEnabled == Push("call", TRUE)

\* rtc_write, terminal_write and terminal_read enable interrupts as well.
Call ==
    /\ Running("user")
    /\ contexts' = CallEnabled
    /\ CallUnchanged /\ UNCHANGED <<RTC_IR, ticked>>

CallReturns ==
    /\ Running("call")
    /\ contexts' = Pop
    /\ CallUnchanged /\ UNCHANGED <<RTC_IR, ticked>>

Next ==
    \/ \E irq \in Irq : Request(irq) \/ Take(irq) \/ Leave(irq)
    \/ rtc_handler \/ keyboard_handler
    \/ \E t \in Term : SwitchToRunning(t) \/ SwitchToNew(t)
    \/ Execute \/ HaltChild \/ HaltShell
    \/ rtc_read \/ rtc_read_returns \/ Call \/ CallReturns

Spec == Init /\ [][Next]_vars

\* The clock ticks; a pending interrupt that the processor can take is taken; a
\* handler lasts much less than the time between two requests of its device, so
\* that it and the code it interrupts get on.
HardwareFairness ==
    /\ WF_vars(Request(RTC))
    /\ \A irq \in Irq : SF_vars(Take(irq)) /\ SF_vars(Leave(irq))
    /\ WF_vars(rtc_handler)
    /\ WF_vars(keyboard_handler \/ \E t \in Term : SwitchToRunning(t) \/ SwitchToNew(t))
    /\ SF_vars(rtc_read_returns)

FairSpec == Spec /\ HardwareFairness

\* Programs go on making calls that enable interrupts.
PoliteSpec == FairSpec /\ SF_vars(rtc_read \/ Call)

-----------------------------------------------------------------------------
(* Properties *)

\* Every variable stays in its range; there is always something to run.
TypeOK ==
    /\ terminal_idx \in Term
    /\ contexts \in [Term -> Seq(Context)] /\ Mine # << >>
    /\ RTC_IR \in BOOLEAN
    /\ pending \subseteq Irq /\ raised \subseteq Irq
    /\ in_service \subseteq AllMasked /\ masked \subseteq AllMasked
    /\ ticked \in [Term -> BOOLEAN]

\* "After switch the terminal, the keyboard interrupt is disabled.  FIX: forget
\* to send eoi" (buglog.txt:46): whenever the processor accepts interrupts,
\* the controllers hold none to be unfinished and so hold none back.
NothingHeldBack == TypeOK /\ (Top.sti => in_service = {})

\* "return: 0 after the interrupt happens" (rtc.c:120): although all readers
\* share RTC_IR, none returns before the clock's handler ran during its call.
ReturnsAfterInterrupt == [][rtc_read_returns => ticked[terminal_idx]]_vars

\* "Pingpong stopped after printing single A" (buglog.txt:38): a reader of the
\* clock on the displayed terminal returns, whoever else waits on RTC_IR: "RTC
\* only interrupt once" (buglog.txt:9) does not come back.
ReaderReturns ==
    \A t \in Term : Waiting(t) /\ terminal_idx = t ~> ~Waiting(t) \/ terminal_idx # t

\* "keyboard is being interrupt-on mode" (keyboard.c:108): a key is handled.
KeyHandled == KB \in raised ~> KB \notin raised
=============================================================================

------------------------------- MODULE Keyboard -------------------------------
(***************************************************************************)
(* From the keys of the keyboard to what keyboard_handler does with them:  *)
(* the modifier flags, the four scancode tables and the choice of the      *)
(* handler's branch.                                                       *)
(*                                                                         *)
(* The keyboard sends a code when a key goes down, again while it is held, *)
(* and when it goes up.  Codes wait in the keyboard and its controller     *)
(* while the processor has interrupts off: a program that execute started  *)
(* computes with IF = 0, and keys are handled when it makes a call that    *)
(* enables interrupts.  By then other keys are down than when the code was *)
(* sent.  The handler itself runs with interrupts off and is one step.     *)
(*                                                                         *)
(* What the handler's branches do to the line is in TerminalInput, and to  *)
(* the screen in Screen; here a branch is named.                           *)
(***************************************************************************)
EXTENDS Naturals, Sequences, FiniteSets

CONSTANTS
    TM_MAX,             \* terminals, at most 3
    FIFO,               \* bound: codes that wait in the keyboard
    HELD,               \* bound: keys held down together
    BothShifts,         \* may both shift keys be held together?
    CapsHeld,           \* may the caps-lock key be held until it repeats?
    CapsPunctuation,    \* may ; be pressed with shift while caps lock is on?
    Lossy               \* may a key be used while FIFO codes wait?

ASSUME KeyboardBounds ==
    /\ TM_MAX \in 1..3
    /\ FIFO \in Nat \ {0} /\ HELD \in Nat \ {0}
    /\ {BothShifts, CapsHeld, CapsPunctuation, Lossy} \subseteq BOOLEAN

Term == 0..(TM_MAX - 1)

(***************************************************************************)
(* One key of each kind: a letter (the one that clears with control), a    *)
(* key whose character caps lock leaves alone, the semicolon and the       *)
(* backquote as one, and a key the handler ignores (Tab, F4).              *)
(***************************************************************************)
F == <<"f1", "f2", "f3">>
FnKey == {F[t + 1] : t \in Term}
Shift == {"lshift", "rshift"}
CTRL == "ctrl"
ALT == "alt"
CAPSLOCK == "caps"
TAB == "tab"
ENTR == "enter"
BK_SPACE == "backspace"
L_BUTTON == "l"
Key == FnKey \cup Shift \cup
       {CTRL, ALT, CAPSLOCK, TAB, ENTR, BK_SPACE, L_BUTTON, "two", "semicolon"}
NUL == "nul"

VARIABLES
    terminal_idx,
    shift_is_pressed, cap_flag, ctrl_flag, alt_flag,
    held,           \* keys that are down
    lit,            \* history: was caps lock pressed an odd number of times?
    queue           \* codes that the handler has not read, each with history:
                    \* what the typist saw when the key was used

flagVars == <<shift_is_pressed, cap_flag, ctrl_flag, alt_flag>>
vars == <<terminal_idx, flagVars, held, lit, queue>>

Init ==
    /\ terminal_idx = 0
    /\ shift_is_pressed = FALSE /\ cap_flag = FALSE
    /\ ctrl_flag = FALSE /\ alt_flag = FALSE
    /\ held = {} /\ lit = FALSE
    /\ queue = << >>

-----------------------------------------------------------------------------
(* What a key does *)

Nothing == [does |-> "nothing", on |-> 0, char |-> NUL]
Char(t, c) == [does |-> "char", on |-> t, char |-> c]
Edit(t, k) == [does |-> k, on |-> t, char |-> NUL]
Clear(t) == [does |-> "clear", on |-> t, char |-> NUL]
Show(t) == [does |-> "show", on |-> t, char |-> NUL]

\* The tables, one entry per kind of key.
code == [l |-> "l", two |-> "2", semicolon |-> ";"]
code_shift == [l |-> "L", two |-> "@", semicolon |-> ":"]
code_cap == [l |-> "L", two |-> "2", semicolon |-> ";"]
code_cap_shift == [l |-> "l", two |-> "@", semicolon |-> ";"]

\* Line 196 counting from the key above.
FnTerminalLate(k) == CHOOSE t \in 1..TM_MAX : F[t] = k

\* Line 196: scancode - F_1
FnTerminal(k) == CHOOSE t \in Term : F[t + 1] = k

Code(k, down, view) == [key |-> k, down |-> down, view |-> view]

\* The test for the key's release dropped.
FlagNeverReset(flag, keys, c) == flag \/ c.key \in keys

\* Lines 138-166: the flags after a code was looked at.
FlagAfter(flag, keys, c) == IF c.key \in keys THEN c.down ELSE flag

\* Toggled when the key goes up as well.
CapOnRelease(c) == IF c.key = CAPSLOCK THEN ~cap_flag ELSE cap_flag

\* Lines 220-232; the code that a key sends when it goes up has bit 7.
CapAfter(c) == IF c.down /\ c.key = CAPSLOCK THEN ~cap_flag ELSE cap_flag

\* Lines 234-241 and 256-260, with the two tables of caps lock exchanged.
LookUpExchanged(c) ==
    LET shifted == FlagAfter(shift_is_pressed, Shift, c)
        table == IF ~CapAfter(c) THEN IF shifted THEN code_shift ELSE code
                 ELSE IF shifted THEN code_cap ELSE code_cap_shift
    IN table[c.key]

\* Lines 234-241 and 256-260
LookUp(c) ==
    LET shifted == FlagAfter(shift_is_pressed, Shift, c)
        table == IF ~CapAfter(c) THEN IF shifted THEN code_shift ELSE code
                 ELSE IF shifted THEN code_cap_shift ELSE code_cap
    IN table[c.key]

(***************************************************************************)
(* The branch that the handler takes for code c.  Control with L stores    *)
(* the letter first and then clears the line it is in.                     *)
(***************************************************************************)
Does(c) ==
    LET alt == FlagAfter(alt_flag, {ALT}, c)
        ctrl == FlagAfter(ctrl_flag, {CTRL}, c) IN
    IF ~c.down \/ c.key \in {TAB, CTRL, ALT} THEN Nothing
    ELSE IF c.key \in FnKey
         THEN IF alt THEN Show(FnTerminal(c.key)) ELSE Nothing
    ELSE IF c.key \in {ENTR, BK_SPACE} THEN Edit(terminal_idx, c.key)
    ELSE IF c.key \in Shift \cup {CAPSLOCK} THEN Nothing
    ELSE IF ctrl /\ c.key = L_BUTTON THEN Clear(terminal_idx)
    ELSE Char(terminal_idx, LookUp(c))

keyboard_handler ==
    /\ queue # << >>
    /\ LET c == Head(queue) IN
        /\ shift_is_pressed' = FlagAfter(shift_is_pressed, Shift, c)
        /\ ctrl_flag' = FlagAfter(ctrl_flag, {CTRL}, c)
        /\ alt_flag' = FlagAfter(alt_flag, {ALT}, c)
        /\ cap_flag' = CapAfter(c)
        /\ terminal_idx' = IF Does(c).does = "show" THEN Does(c).on ELSE terminal_idx
    /\ queue' = Tail(queue)
    /\ UNCHANGED <<held, lit>>

-----------------------------------------------------------------------------
(* The typist and the keyboard *)

\* The terminal that will be on display when the codes that wait are handled.
Meant(c) ==
    LET shifted == c.view.held \cap Shift # {} IN
    IF ~c.down \/ c.key \in {TAB, CTRL, ALT, CAPSLOCK} \cup Shift THEN Nothing
    ELSE IF c.key \in FnKey
         THEN IF ALT \in c.view.held THEN Show(CHOOSE t \in Term : F[t + 1] = c.key)
              ELSE Nothing
    ELSE IF c.key \in {ENTR, BK_SPACE} THEN Edit(c.view.on, c.key)
    ELSE IF c.key = L_BUTTON /\ CTRL \in c.view.held THEN Clear(c.view.on)
    ELSE Char(c.view.on,
              CASE c.key = "l" -> IF shifted # c.view.lit THEN "L" ELSE "l"
                [] c.key = "two" -> IF shifted THEN "@" ELSE "2"
                [] c.key = "semicolon" -> IF shifted THEN ":" ELSE ";")

Shown ==
    LET last == queue[Len(queue)] IN
    IF queue = << >> THEN terminal_idx
    ELSE IF Meant(last).does = "show" THEN Meant(last).on ELSE last.view.on

\* A code finds no room when FIFO of them wait.
Send(k, down) ==
    /\ Lossy \/ Len(queue) < FIFO
    /\ queue' = IF Len(queue) = FIFO THEN queue
                ELSE Append(queue, Code(k, down, [held |-> held, lit |-> lit, on |-> Shown]))
    /\ UNCHANGED <<terminal_idx, flagVars>>

Usable(k) ==
    k = "semicolon" /\ lit /\ held \cap Shift # {} => CapsPunctuation

Press(k) ==
    /\ k \notin held
    /\ Cardinality(held) < HELD
    /\ k \in Shift /\ held \cap Shift # {} => BothShifts
    /\ Usable(k)
    /\ Send(k, TRUE)
    /\ held' = held \cup {k}
    /\ lit' = IF k = CAPSLOCK THEN ~lit ELSE lit

\* A key that is held sends its code again.
Repeat(k) ==
    /\ k \in held
    /\ k = CAPSLOCK => CapsHeld
    /\ Usable(k)
    /\ Send(k, TRUE)
    /\ UNCHANGED <<held, lit>>

Release(k) ==
    /\ k \in held
    /\ Send(k, FALSE)
    /\ held' = held \ {k}
    /\ UNCHANGED lit

Next ==
    \/ keyboard_handler
    \/ \E k \in Key : Press(k) \/ Repeat(k) \/ Release(k)

Spec == Init /\ [][Next]_vars

\* Interrupts are enabled again and again (Interrupts, KeyHandled).
FairSpec == Spec /\ WF_vars(keyboard_handler)

-----------------------------------------------------------------------------
(* Properties *)

\* Every variable stays in its range.
TypeOK ==
    /\ terminal_idx \in Term
    /\ {shift_is_pressed, cap_flag, ctrl_flag, alt_flag, lit} \subseteq BOOLEAN
    /\ held \subseteq Key
    /\ Len(queue) <= FIFO
    /\ \A n \in 1..Len(queue) :
        queue[n] \in [key : Key, down : BOOLEAN,
                      view : [held : SUBSET Key, lit : BOOLEAN, on : Term]]

\* "check for the shift has been pressed or not" (keyboard.c:138): however late
\* a code is handled, the handler takes it for the character or the command that
\* its key was on the keyboard as it was when the key was used.
MeansAsPressed == queue # << >> => Does(Head(queue)) = Meant(Head(queue))

\* When every code was handled the flags tell which keys are down and whether
\* caps lock is on.
FlagsFollowKeys ==
    queue = << >> =>
        /\ shift_is_pressed <=> held \cap Shift # {}
        /\ ctrl_flag <=> CTRL \in held
        /\ alt_flag <=> ALT \in held
        /\ cap_flag <=> lit

\* "After pressing CTRL, press l solely will automatically clear the screen.
\* FIX" (buglog.txt:20-21): control, once released, does not stay in force.
ControlEnds == CTRL \notin held ~> ~ctrl_flag \/ CTRL \in held
=============================================================================

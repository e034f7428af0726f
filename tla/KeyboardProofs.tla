----------------------------- MODULE KeyboardProofs -----------------------------
(***************************************************************************)
(* Proofs about Keyboard: with two shift keys never held together, caps    *)
(* lock not held until it repeats, caps lock not used with punctuation and *)
(* no code lost, the handler takes every code as its key was meant,        *)
(* however many codes wait and however many keys are down.                 *)
(***************************************************************************)
EXTENDS Keyboard, SequenceTheorems, TLAPS

Plain == ~BothShifts /\ ~CapsHeld /\ ~CapsPunctuation /\ ~Lossy

View == [held : SUBSET Key, lit : BOOLEAN, on : Term]
Codes == [key : Key, down : BOOLEAN, view : View]

\* No more than one shift key.
OneShift(keys) == ~(Shift \subseteq keys)

\* What the typist sees once a code's key was used.
ViewAfter(c) ==
    [held |-> IF c.down THEN c.view.held \cup {c.key} ELSE c.view.held \ {c.key},
     lit |-> IF c.down /\ c.key = CAPSLOCK THEN ~c.view.lit ELSE c.view.lit,
     on |-> IF Meant(c).does = "show" THEN Meant(c).on ELSE c.view.on]

\* What the typist sees now, and before the n-th waiting code.
ViewNow == [held |-> held, lit |-> lit, on |-> Shown]
ViewAt(n) == IF n \in 1..Len(queue) THEN queue[n].view ELSE ViewNow

\* The flags are those of a view.
Agree(view) ==
    /\ shift_is_pressed = (view.held \cap Shift # {})
    /\ ctrl_flag = (CTRL \in view.held)
    /\ alt_flag = (ALT \in view.held)
    /\ cap_flag = view.lit
    /\ terminal_idx = view.on

\* How the code of a key may come about.
Proper(c) ==
    /\ OneShift(c.view.held)
    /\ c.down => OneShift(c.view.held \cup {c.key})
    /\ c.down \/ c.key \in c.view.held
    /\ c.down /\ c.key = "semicolon" => ~(c.view.lit /\ c.view.held \cap Shift # {})

Types ==
    /\ queue \in Seq(Codes)
    /\ held \subseteq Key
    /\ lit \in BOOLEAN
    /\ terminal_idx \in Term

IInv ==
    /\ Types
    /\ OneShift(held)
    /\ \A n \in 1..Len(queue) : Proper(queue[n]) /\ ViewAfter(queue[n]) = ViewAt(n + 1)
    /\ Agree(ViewAt(1))

-----------------------------------------------------------------------------

\* The Fn keys are not among the others.
LEMMA FnKeys == FnKey \subseteq {"f1", "f2", "f3"}
<1> SUFFICES ASSUME NEW t \in Term
             PROVE  F[t + 1] \in {"f1", "f2", "f3"}
  BY DEF FnKey
<1>1. t \in {0, 1, 2}
  BY KeyboardBounds DEF Term
<1> QED
  BY <1>1 DEF F

\* An Fn key names one of the terminals.
LEMMA FnTerminalType ==
  ASSUME NEW k \in FnKey
  PROVE  FnTerminal(k) \in Term
<1>1. \E t \in Term : F[t + 1] = k
  BY DEF FnKey
<1> QED
  BY <1>1 DEF FnTerminal

\* The handler, with the flags of the moment a key was used, takes its code for
\* what the key meant.
LEMMA DoesAsMeant ==
  ASSUME NEW c \in Codes, Proper(c), Agree(c.view)
  PROVE  Does(c) = Meant(c)
<1> DEFINE shifted == c.view.held \cap Shift # {}
           Others == {TAB, CTRL, ALT, CAPSLOCK} \cup Shift
<1> USE DEF TAB, CTRL, ALT, CAPSLOCK, ENTR, BK_SPACE, L_BUTTON
<1>k. c.key \in FnKey \cup Others \cup {ENTR, BK_SPACE, "l", "two", "semicolon"}
  BY DEF Codes, Key
<1>1. CASE ~c.down
  BY <1>1 DEF Does, Meant
<1>2. CASE c.down /\ c.key \in Others
  BY <1>2, FnKeys DEF Does, Meant, Shift
<1>3. CASE c.down /\ c.key \in FnKey
  <2>1. c.key \notin Others
    BY <1>3, FnKeys DEF Shift
  <2>2. FlagAfter(alt_flag, {ALT}, c) = (ALT \in c.view.held)
    BY <2>1 DEF FlagAfter, Agree
  <2>3. Does(c) = IF ALT \in c.view.held THEN Show(FnTerminal(c.key)) ELSE Nothing
    BY <1>3, <2>1, <2>2 DEF Does
  <2> QED
    BY <1>3, <2>1, <2>3 DEF Meant, FnTerminal
<1>4. CASE c.down /\ c.key \in {ENTR, BK_SPACE}
  <2>1. c.key \notin FnKey \cup Others
    BY <1>4, FnKeys DEF Shift
  <2> QED
    BY <1>4, <2>1 DEF Does, Meant, Agree
<1>5. CASE c.down /\ c.key \in {"l", "two", "semicolon"}
  <2>1. c.key \notin FnKey \cup Others \cup {ENTR, BK_SPACE}
    BY <1>5, FnKeys DEF Shift
  <2>2. /\ FlagAfter(ctrl_flag, {CTRL}, c) = (CTRL \in c.view.held)
        /\ FlagAfter(shift_is_pressed, Shift, c) = shifted
        /\ CapAfter(c) = c.view.lit
    BY <2>1 DEF FlagAfter, CapAfter, Agree
  <2>3. CASE c.key = "l" /\ CTRL \in c.view.held
    BY <1>5, <2>1, <2>2, <2>3 DEF Does, Meant, Agree
  <2>4. CASE ~(c.key = "l" /\ CTRL \in c.view.held)
    <3>1. Does(c) = Char(c.view.on, LookUp(c))
      BY <1>5, <2>1, <2>2, <2>4 DEF Does, Agree
    <3> DEFINE wanted ==
           CASE c.key = "l" -> IF shifted # c.view.lit THEN "L" ELSE "l"
             [] c.key = "two" -> IF shifted THEN "@" ELSE "2"
             [] c.key = "semicolon" -> IF shifted THEN ":" ELSE ";"
    <3>2. Meant(c) = Char(c.view.on, wanted)
      BY <1>5, <2>1, <2>4 DEF Meant
    <3>3. c.view.lit \in BOOLEAN /\ shifted \in BOOLEAN
      BY DEF Codes, View
    <3>4. c.key = "semicolon" => ~(c.view.lit /\ shifted)
      BY <1>5 DEF Proper
    <3>5. LookUp(c) = wanted
      <4>1. LookUp(c) =
              IF ~c.view.lit THEN IF shifted THEN code_shift[c.key] ELSE code[c.key]
              ELSE IF shifted THEN code_cap_shift[c.key] ELSE code_cap[c.key]
        BY <2>2, <3>3 DEF LookUp
      <4>2. CASE c.key = "l"
        BY <4>1, <4>2, <3>3 DEF code, code_shift, code_cap, code_cap_shift
      <4>3. CASE c.key = "two"
        BY <4>1, <4>3, <3>3 DEF code, code_shift, code_cap, code_cap_shift
      <4>4. CASE c.key = "semicolon"
        <5>1. CASE shifted
          BY <4>1, <4>4, <3>4, <5>1 DEF code_shift
        <5>2. CASE ~shifted
          <6>1. wanted = ";"
            BY <4>4, <5>2
          <6>2. code[c.key] = ";" /\ code_cap[c.key] = ";"
            BY <4>4 DEF code, code_cap
          <6> QED
            BY <4>1, <5>2, <6>1, <6>2
        <5> QED
          BY <5>1, <5>2
      <4> HIDE DEF wanted
      <4> QED
        BY <1>5, <4>2, <4>3, <4>4
    <3> QED
      BY <3>1, <3>2, <3>5
  <2> QED
    BY <2>3, <2>4
<1> QED
  BY <1>k, <1>1, <1>2, <1>3, <1>4, <1>5 DEF Codes

-----------------------------------------------------------------------------
(* The invariant *)

\* Of the views, only the terminal on display is computed by the code.
LEMMA MeantTerminal ==
  ASSUME NEW c \in Codes, Meant(c).does = "show"
  PROVE  c.down /\ c.key \in FnKey /\ Meant(c).on = FnTerminal(c.key) /\ Meant(c).on \in Term
<1>1. c.down /\ c.key \in FnKey /\ ALT \in c.view.held
  BY DEF Meant, Nothing, Edit, Clear, Char, Show, ENTR, BK_SPACE
<1> QED
  BY <1>1, FnKeys, FnTerminalType
     DEF Meant, Show, Nothing, FnTerminal, TAB, CTRL, ALT, CAPSLOCK, Shift

\* What a code leads to is a view of the keyboard.
LEMMA ViewAfterType ==
  ASSUME NEW c \in Codes
  PROVE  ViewAfter(c) \in View
  BY MeantTerminal DEF ViewAfter, View, Codes

\* What the handler does to the flags makes them those of the next view.
LEMMA AgreeAfter ==
  ASSUME NEW c \in Codes, Proper(c), Agree(c.view), queue # << >>, c = Head(queue),
         keyboard_handler
  PROVE  /\ shift_is_pressed' = (ViewAfter(c).held \cap Shift # {})
         /\ ctrl_flag' = (CTRL \in ViewAfter(c).held)
         /\ alt_flag' = (ALT \in ViewAfter(c).held)
         /\ cap_flag' = ViewAfter(c).lit
         /\ terminal_idx' = ViewAfter(c).on
<1> DEFINE v == ViewAfter(c)
<1>1. Does(c) = Meant(c)
  BY DoesAsMeant
<1>2. shift_is_pressed' = (v.held \cap Shift # {})
  <2> DEFINE had == c.view.held \cap Shift # {}
  <2>1. shift_is_pressed' = IF c.key \in Shift THEN c.down ELSE had
    BY DEF keyboard_handler, FlagAfter, Agree
  <2>2. CASE c.key \notin Shift
    BY <2>1, <2>2 DEF ViewAfter
  <2>3. CASE c.key \in Shift /\ c.down
    BY <2>1, <2>3 DEF ViewAfter, Codes
  <2>4. CASE c.key \in Shift /\ ~c.down
    <3>1. v.held = c.view.held \ {c.key}
      BY <2>4 DEF ViewAfter
    <3>2. c.view.held \cap Shift = {c.key}
      BY <2>4 DEF Proper, OneShift, Shift
    <3>3. v.held \cap Shift = {}
      BY <3>1, <3>2
    <3> QED
      BY <2>1, <2>4, <3>3 DEF Codes
  <2> QED
    BY <2>2, <2>3, <2>4
<1>3. ctrl_flag' = (CTRL \in v.held) /\ alt_flag' = (ALT \in v.held)
  BY DEF keyboard_handler, ViewAfter, FlagAfter, Agree, CTRL, ALT, Codes, View
<1>4. cap_flag' = v.lit
  BY DEF keyboard_handler, ViewAfter, CapAfter, Agree
<1>5. terminal_idx' = v.on
  BY <1>1 DEF keyboard_handler, ViewAfter, Agree
<1> QED
  BY <1>2, <1>3, <1>4, <1>5

\* What the typist sees is a view.
LEMMA NowType ==
  ASSUME Types
  PROVE  ViewNow \in View
<1>1. Shown \in Term
  <2>1. CASE queue = << >>
    BY <2>1 DEF Shown, Types
  <2>2. CASE queue # << >>
    <3> DEFINE c == queue[Len(queue)]
    <3>1. c \in Codes
      BY <2>2, EmptySeq, ElementOfSeq DEF Types
    <3>2. Shown = ViewAfter(c).on
      BY <2>2 DEF Shown, ViewAfter
    <3> QED
      BY <3>1, <3>2, ViewAfterType DEF View
  <2> QED
    BY <2>1, <2>2
<1> QED
  BY <1>1 DEF ViewNow, View, Types

\* No code waits, no key is down and no flag is set.
LEMMA InitInv == Init => IInv
<1> SUFFICES ASSUME Init PROVE IInv
  OBVIOUS
<1> USE DEF Init
<1>1. Types
  <2>1. 0 \in Term
    BY KeyboardBounds DEF Term
  <2>2. << >> \in Seq(Codes)
    BY EmptySeq
  <2> QED
    BY <2>1, <2>2 DEF Types
<1>2. OneShift(held)
  BY DEF OneShift, Shift
<1>3. Len(queue) = 0 /\ 1..Len(queue) = {}
  BY EmptySeq
<1>4. Agree(ViewAt(1))
  <2>1. ViewAt(1) = [held |-> {}, lit |-> FALSE, on |-> 0]
    <3>1. 1 \notin 1..Len(queue)
      BY <1>3
    <3> QED
      BY <3>1 DEF ViewAt, ViewNow, Shown
  <2>2. ViewAt(1).held = {} /\ ViewAt(1).lit = FALSE /\ ViewAt(1).on = 0
    BY <2>1
  <2>3. /\ (ViewAt(1).held \cap Shift # {}) = FALSE
        /\ (CTRL \in ViewAt(1).held) = FALSE
        /\ (ALT \in ViewAt(1).held) = FALSE
    BY <2>2
  <2> QED
    BY <2>2, <2>3, Zenon DEF Agree
<1> QED
  BY <1>1, <1>2, <1>3, <1>4 DEF IInv

\* The handler takes the first code: the flags become those of the view that
\* this code leads to, which is that of the next code or what is seen now.
LEMMA HandlerPreserves ==
  ASSUME IInv, keyboard_handler
  PROVE  IInv'
<1> DEFINE c == Head(queue)
<1>1. /\ queue \in Seq(Codes) /\ queue # << >> /\ Len(queue) \in Nat \ {0}
      /\ c = queue[1] /\ c \in Codes
  BY EmptySeq, ElementOfSeq DEF keyboard_handler, IInv, Types
<1>2. /\ queue' = Tail(queue) /\ queue' \in Seq(Codes)
      /\ Len(queue') = Len(queue) - 1
      /\ \A n \in 1..Len(queue') : queue'[n] = queue[n + 1]
  BY <1>1, HeadTailProperties DEF keyboard_handler
<1>3. Proper(c) /\ ViewAfter(c) = ViewAt(2) /\ Agree(c.view)
  BY <1>1 DEF IInv, ViewAt
<1>4. /\ shift_is_pressed' = (ViewAfter(c).held \cap Shift # {})
      /\ ctrl_flag' = (CTRL \in ViewAfter(c).held)
      /\ alt_flag' = (ALT \in ViewAfter(c).held)
      /\ cap_flag' = ViewAfter(c).lit
      /\ terminal_idx' = ViewAfter(c).on
  BY <1>1, <1>3, AgreeAfter
<1>6. Types'
  <2>1. ViewAfter(c).on \in Term
    BY <1>1, ViewAfterType DEF View
  <2> QED
    BY <1>2, <1>4, <2>1 DEF Types, keyboard_handler, IInv
<1>7. ViewNow' = ViewNow
  <2>1. CASE Len(queue) = 1
    <3>1. queue' = << >>
      BY <1>2, <2>1, EmptySeq
    <3>2. Shown' = ViewAfter(c).on
      BY <1>4, <3>1 DEF Shown
    <3>3. Shown = ViewAfter(c).on
      BY <1>1, <2>1 DEF Shown, ViewAfter
    <3> QED
      BY <3>2, <3>3 DEF ViewNow, keyboard_handler
  <2>2. CASE Len(queue) # 1
    <3>1. Len(queue') \in 1..Len(queue') /\ Len(queue') + 1 = Len(queue)
      BY <1>1, <1>2, <2>2
    <3>2. queue' # << >>
      BY <3>1, EmptySeq
    <3>3. queue'[Len(queue')] = queue[Len(queue)]
      BY <1>2, <3>1
    <3>4. Shown' = Shown
      BY <1>1, <3>2, <3>3 DEF Shown
    <3> QED
      BY <3>4 DEF ViewNow, keyboard_handler
  <2> QED
    BY <2>1, <2>2
<1>8. \A n \in 1..(Len(queue') + 1) : ViewAt(n)' = ViewAt(n + 1)
  BY <1>1, <1>2, <1>7 DEF ViewAt
<1>9. \A n \in 1..Len(queue') :
         Proper(queue'[n]) /\ ViewAfter(queue'[n]) = ViewAt(n + 1)'
  BY <1>1, <1>2, <1>8 DEF IInv
<1>10. Agree(ViewAt(1))'
  <2>1. ViewAt(1)' = ViewAfter(c)
    BY <1>1, <1>2, <1>3, <1>8
  <2> QED
    BY <1>4, <2>1 DEF Agree
<1>11. OneShift(held)'
  BY DEF IInv, keyboard_handler, OneShift
<1> QED
  BY <1>6, <1>9, <1>10, <1>11 DEF IInv

\* A new code carries what the typist saw, and leads to what is seen now.
LEMMA SendPreserves ==
  ASSUME IInv, Plain, NEW k \in Key, NEW down \in BOOLEAN, Send(k, down),
         Proper(Code(k, down, ViewNow)),
         held' = ViewAfter(Code(k, down, ViewNow)).held,
         lit' = ViewAfter(Code(k, down, ViewNow)).lit,
         OneShift(held')
  PROVE  IInv'
<1> DEFINE c == Code(k, down, ViewNow)
<1>1. queue \in Seq(Codes) /\ Len(queue) \in Nat
  BY EmptySeq, LenProperties DEF IInv, Types
<1>2. c \in Codes /\ c.view = ViewNow
  BY NowType DEF Code, Codes, IInv
<1>3. queue' = Append(queue, c)
  BY <1>1, KeyboardBounds DEF Send, Plain, ViewNow
<1>4. /\ queue' \in Seq(Codes) /\ Len(queue') = Len(queue) + 1
      /\ \A n \in 1..Len(queue) : queue'[n] = queue[n]
      /\ queue'[Len(queue) + 1] = c
  BY <1>1, <1>2, <1>3
<1>5. Types'
  BY <1>2, <1>4, ViewAfterType DEF Types, IInv, Send, View
<1>6. ViewNow' = ViewAfter(c)
  <2>1. queue' # << >>
    BY <1>1, <1>4, EmptySeq
  <2>2. Shown' = ViewAfter(c).on
    BY <1>1, <1>4, <2>1 DEF Shown, ViewAfter
  <2>3. ViewAfter(c) = [held |-> ViewAfter(c).held, lit |-> ViewAfter(c).lit,
                        on |-> ViewAfter(c).on]
    BY DEF ViewAfter
  <2> QED
    BY <2>2, <2>3 DEF ViewNow
<1>7. \A n \in 1..(Len(queue) + 1) : ViewAt(n)' = ViewAt(n)
  BY <1>1, <1>2, <1>4 DEF ViewAt
<1>8. ASSUME NEW n \in 1..Len(queue')
      PROVE  Proper(queue'[n]) /\ ViewAfter(queue'[n]) = ViewAt(n + 1)'
  <2>1. CASE n \in 1..Len(queue)
    BY <1>1, <1>4, <1>7, <2>1 DEF IInv
  <2>2. CASE n = Len(queue) + 1
    <3>1. ViewAt(n + 1)' = ViewNow'
      BY <1>1, <1>4, <2>2 DEF ViewAt
    <3> QED
      BY <1>4, <1>6, <2>2, <3>1
  <2> QED
    BY <1>1, <1>4, <2>1, <2>2
<1>9. Agree(ViewAt(1))'
  <2>1. ViewAt(1)' = ViewAt(1)
    BY <1>1, <1>7
  <2> QED
    BY <2>1 DEF Agree, IInv, Send, flagVars
<1> QED
  BY <1>5, <1>8, <1>9 DEF IInv, OneShift

\* Every step preserves the invariant.
LEMMA NextInv == Plain /\ IInv /\ [Next]_vars => IInv'
<1> SUFFICES ASSUME Plain, IInv, [Next]_vars PROVE IInv'
  OBVIOUS
<1>1. CASE keyboard_handler
  BY <1>1, HandlerPreserves
<1>2. ASSUME NEW k \in Key, Press(k) PROVE IInv'
  <2> DEFINE c == Code(k, TRUE, ViewNow)
  <2>1. OneShift(held \cup {k})
    BY <1>2 DEF Press, Plain, IInv, OneShift, Shift
  <2>2. Proper(c)
    BY <1>2, <2>1 DEF Proper, Code, ViewNow, IInv, Press, Usable, Plain
  <2>3. held' = ViewAfter(c).held /\ lit' = ViewAfter(c).lit /\ held' = held \cup {k}
    BY <1>2 DEF Press, ViewAfter, Code, ViewNow
  <2> QED
    BY <1>2, <2>1, <2>2, <2>3, SendPreserves DEF Press
<1>3. ASSUME NEW k \in Key, Repeat(k) PROVE IInv'
  <2> DEFINE c == Code(k, TRUE, ViewNow)
  <2>1. held \cup {k} = held /\ k # CAPSLOCK
    BY <1>3 DEF Repeat, Plain
  <2>2. Proper(c)
    BY <1>3, <2>1 DEF Proper, Code, ViewNow, IInv, Repeat, Usable, Plain
  <2>3. held' = ViewAfter(c).held /\ lit' = ViewAfter(c).lit /\ held' = held
    BY <1>3, <2>1 DEF Repeat, ViewAfter, Code, ViewNow
  <2> QED
    BY <1>3, <2>2, <2>3, SendPreserves DEF Repeat, IInv
<1>4. ASSUME NEW k \in Key, Release(k) PROVE IInv'
  <2> DEFINE c == Code(k, FALSE, ViewNow)
  <2>1. Proper(c)
    BY <1>4 DEF Proper, Code, ViewNow, IInv, Release
  <2>2. held' = ViewAfter(c).held /\ lit' = ViewAfter(c).lit /\ held' = held \ {k}
    BY <1>4 DEF Release, ViewAfter, Code, ViewNow
  <2>3. OneShift(held')
    BY <2>2 DEF OneShift, IInv
  <2> QED
    BY <1>4, <2>1, <2>2, <2>3, SendPreserves DEF Release
<1>5. CASE UNCHANGED vars
  BY <1>5 DEF vars, flagVars, IInv, Types, OneShift, Agree, ViewAt, ViewNow, Shown
<1> QED
  BY <1>1, <1>2, <1>3, <1>4, <1>5 DEF Next

\* The invariant holds in every state of every behaviour.
LEMMA Invariance ==
  ASSUME Plain
  PROVE  Spec => []IInv
<1>1. Init => IInv
  BY InitInv
<1>2. IInv /\ [Next]_vars => IInv'
  BY NextInv
<1> QED
  BY <1>1, <1>2, PTL DEF Spec

-----------------------------------------------------------------------------
(* The theorems *)

\* However many codes wait and however many keys are down, keyboard_handler
\* takes each code for the character or the command that was typed.
THEOREM KeysAreMeant ==
  ASSUME Plain
  PROVE  Spec => []MeansAsPressed
<1>1. IInv => MeansAsPressed
  <2> SUFFICES ASSUME IInv, queue # << >>
               PROVE  Does(Head(queue)) = Meant(Head(queue))
    BY DEF MeansAsPressed
  <2>1. /\ Len(queue) \in Nat \ {0} /\ Head(queue) = queue[1]
        /\ Head(queue) \in Codes
    BY EmptySeq, ElementOfSeq DEF IInv, Types
  <2>2. Proper(Head(queue)) /\ Agree(Head(queue).view)
    BY <2>1 DEF IInv, ViewAt
  <2> QED
    BY <2>1, <2>2, DoesAsMeant
<1> QED
  BY <1>1, Invariance, PTL

\* When no code waits, the flags of keyboard.c are the state of the keys.
THEOREM FlagsAreKeys ==
  ASSUME Plain
  PROVE  Spec => []FlagsFollowKeys
<1>1. IInv => FlagsFollowKeys
  <2> SUFFICES ASSUME IInv, queue = << >> PROVE FlagsFollowKeys
    BY DEF FlagsFollowKeys
  <2>1. Len(queue) = 0 /\ 1..Len(queue) = {}
    BY EmptySeq
  <2> QED
    BY <2>1 DEF FlagsFollowKeys, IInv, Agree, ViewAt, ViewNow
<1> QED
  BY <1>1, Invariance, PTL

\* Every variable of the keyboard keeps its type, also with two shift keys held,
\* a repeated caps lock and lost codes.
THEOREM TypeCorrect == Spec => []TypeOK
<1> DEFINE Flags == {shift_is_pressed, cap_flag, ctrl_flag, alt_flag} \subseteq BOOLEAN
           Inv == Types /\ Flags /\ Len(queue) <= FIFO
<1>1. Init => Inv
  <2> SUFFICES ASSUME Init PROVE Inv
    OBVIOUS
  <2>1. Types
    BY InitInv DEF IInv
  <2>2. Flags
    BY DEF Init
  <2>3. Len(queue) <= FIFO
    BY KeyboardBounds DEF Init
  <2> QED
    BY <2>1, <2>2, <2>3
<1>2. Inv /\ [Next]_vars => Inv'
  <2> SUFFICES ASSUME Inv, [Next]_vars PROVE Inv'
    OBVIOUS
  <2>1. queue \in Seq(Codes) /\ Len(queue) \in Nat /\ Len(queue) <= FIFO /\ FIFO \in Nat
    BY EmptySeq, LenProperties, KeyboardBounds DEF Types
  <2>2. CASE keyboard_handler
    <3> DEFINE c == Head(queue)
    <3>1. queue' \in Seq(Codes) /\ Len(queue') = Len(queue) - 1
      BY <2>1, <2>2, HeadTailProperties DEF keyboard_handler
    <3>2. Does(c).does = "show" => Does(c).on \in Term
      <4>1. Does(c).does = "show" => c.key \in FnKey /\ Does(c) = Show(FnTerminal(c.key))
        BY DEF Does, Nothing, Edit, Clear, Char, Show, ENTR, BK_SPACE
      <4> QED
        BY <4>1, FnTerminalType DEF Show
    <3>3. terminal_idx' \in Term
      BY <2>2, <3>2 DEF keyboard_handler, Types
    <3>4. c.down \in BOOLEAN
      <4>1. queue # << >> /\ c \in Codes
        BY <2>1, <2>2, HeadTailProperties DEF keyboard_handler
      <4> QED
        BY <4>1 DEF Codes
    <3>5. Flags'
      BY <2>2, <3>4 DEF keyboard_handler, FlagAfter, CapAfter
    <3> QED
      BY <2>1, <2>2, <3>1, <3>3, <3>5 DEF keyboard_handler, Types
  <2>3. ASSUME NEW k \in Key, NEW down \in BOOLEAN, Send(k, down)
        PROVE  /\ queue' \in Seq(Codes) /\ Len(queue') <= FIFO
               /\ terminal_idx' = terminal_idx /\ Flags'
    <3>1. Code(k, down, ViewNow) \in Codes
      BY NowType DEF Code, Codes
    <3>2. queue' = IF Len(queue) = FIFO THEN queue ELSE Append(queue, Code(k, down, ViewNow))
      BY <2>3 DEF Send, ViewNow
    <3> QED
      BY <2>1, <2>3, <3>1, <3>2 DEF Send, flagVars
  <2>4. ASSUME NEW k \in Key, Press(k) \/ Repeat(k) \/ Release(k)
        PROVE  Inv'
    <3>1. held' \subseteq Key /\ lit' \in BOOLEAN
      BY <2>4 DEF Press, Repeat, Release, Types
    <3>2. Send(k, TRUE) \/ Send(k, FALSE)
      BY <2>4 DEF Press, Repeat, Release
    <3> QED
      BY <2>3, <3>1, <3>2 DEF Types
  <2>5. CASE UNCHANGED vars
    BY <2>5 DEF vars, flagVars, Types
  <2> QED
    BY <2>2, <2>4, <2>5 DEF Next
<1>3. Inv => TypeOK
  <2> SUFFICES ASSUME Inv PROVE TypeOK
    OBVIOUS
  <2>1. \A n \in 1..Len(queue) : queue[n] \in Codes
    BY ElementOfSeq DEF Types
  <2> QED
    BY <2>1 DEF TypeOK, Types, Codes, View
<1> QED
  BY <1>1, <1>2, <1>3, PTL DEF Spec
=============================================================================

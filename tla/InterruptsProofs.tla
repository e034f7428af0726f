---------------------------- MODULE InterruptsProofs ----------------------------
(***************************************************************************)
(* Theorems about Interrupts: the controllers hold nothing back while the  *)
(* processor accepts interrupts, and a reader of the clock returns only    *)
(* after its tick, for every number of terminals, programs and nested      *)
(* handlers.                                                               *)
(*                                                                         *)
(* Both rest on the shape of the stacks (Shapes): programs at the bottom,  *)
(* at most one system call on them, then handlers; and on the place of the *)
(* one handler that has not served its device yet (OneUnserved): on top of *)
(* the terminal on display, with its flag cleared and its lines the only   *)
(* ones in service.                                                        *)
(***************************************************************************)
EXTENDS Interrupts, FiniteSetTheorems, SequenceTheorems, TLAPS

\* A handler is settled when it has served its device; the rest always is.
Settled(c) == c.kind \in Irq => c.served

\* Programs, then at most one call of the last one, then handlers.
Shape(s) ==
    /\ s # << >> => s[1].kind = "user"
    /\ \A n \in 1..Len(s) : s[n].kind \notin Irq =>
            \A m \in 1..(n - 1) : s[m].kind = "user"

Shapes == \A t \in Term : Shape(contexts[t])

OneUnserved ==
    /\ \A t \in Term : \A n \in 1..Len(contexts[t]) :
            t # terminal_idx \/ n # Depth => Settled(contexts[t][n])
    /\ Settled(Top) => in_service = {}
    /\ ~Settled(Top) => in_service = Lines(Top.kind) /\ ~Top.sti

IInv == TypeOK /\ Shapes /\ OneUnserved

\* Once RTC_IR is cleared, the clock has ticked for all who wait.
Released == ~RTC_IR => \A t \in Term : Waiting(t) => ticked[t]

-----------------------------------------------------------------------------
(* Lemmas about one stack *)

\* A context put on a stack: the rest is as it was.
LEMMA PushFacts ==
  ASSUME NEW s \in Seq(Context), NEW c \in Context
  PROVE  /\ Append(s, c) \in Seq(Context)
         /\ Append(s, c) # << >>
         /\ Len(Append(s, c)) = Len(s) + 1
         /\ Append(s, c)[Len(s) + 1] = c
         /\ \A n \in 1..Len(s) : Append(s, c)[n] = s[n]
BY DEF Context

\* The shape allows a handler on any program or call, the rest on a program.
LEMMA PushShape ==
  ASSUME NEW s \in Seq(Context), s # << >>, Shape(s), NEW c \in Context,
         c.kind \in Irq \/ s[Len(s)].kind = "user"
  PROVE  Shape(Append(s, c))
<1> DEFINE a == Append(s, c)
<1>1. /\ Len(a) = Len(s) + 1 /\ a[Len(s) + 1] = c
      /\ \A n \in 1..Len(s) : a[n] = s[n]
  BY PushFacts
<1>2. Len(s) \in Nat /\ Len(s) >= 1
  OBVIOUS
<1>3. a[1].kind = "user"
  BY <1>1, <1>2 DEF Shape
<1>4. ASSUME NEW n \in 1..Len(a), a[n].kind \notin Irq, NEW m \in 1..(n - 1)
      PROVE  a[m].kind = "user"
  <2>1. m \in 1..Len(s) /\ a[m] = s[m]
    BY <1>1, <1>2
  <2>2. CASE n \in 1..Len(s)
    <3>1. s[n].kind \notin Irq
      BY <1>1, <1>4, <2>2
    <3> QED
      BY <2>1, <2>2, <3>1 DEF Shape
  <2>3. CASE n = Len(s) + 1
    <3>1. s[Len(s)].kind = "user"
      BY <1>1, <1>4, <2>3
    <3>2. "user" \notin Irq
      BY DEF Irq, KB, RTC
    <3>3. CASE m = Len(s)
      BY <2>1, <3>1, <3>3
    <3>4. CASE m \in 1..(Len(s) - 1)
      <4>1. Len(s) \in 1..Len(s) /\ s[Len(s)].kind \notin Irq
        BY <1>2, <3>1, <3>2
      <4>2. s[m].kind = "user"
        BY <3>4, <4>1 DEF Shape
      <4> QED
        BY <2>1, <4>2
    <3> QED
      BY <1>2, <2>1, <3>3, <3>4
  <2> QED
    BY <1>1, <1>2, <2>2, <2>3
<1> HIDE DEF a
<1>5. Shape(a)
  BY <1>3, <1>4 DEF Shape
<1> QED
  BY <1>5 DEF a

\* What is left when the top is taken from a stack of two or more.
LEMMA PopFacts ==
  ASSUME NEW s \in Seq(Context), Len(s) > 1
  PROVE  /\ SubSeq(s, 1, Len(s) - 1) \in Seq(Context)
         /\ SubSeq(s, 1, Len(s) - 1) # << >>
         /\ Len(SubSeq(s, 1, Len(s) - 1)) = Len(s) - 1
         /\ \A n \in 1..(Len(s) - 1) : SubSeq(s, 1, Len(s) - 1)[n] = s[n]
<1> DEFINE k == Len(s) - 1
<1>1. /\ Len(s) \in Nat /\ k \in Nat /\ k >= 1 /\ k <= Len(s)
      /\ k - 1 + 1 = k
  OBVIOUS
<1>2. /\ SubSeq(s, 1, k) \in Seq(Context) /\ Len(SubSeq(s, 1, k)) = k
      /\ \A n \in 1..k : SubSeq(s, 1, k)[n] = s[n]
  <2> HIDE DEF k
  <2>1. 1 \in 1..(Len(s) + 1) /\ k \in 0..Len(s) /\ 1 \in 1..Len(s) /\ k \in 1..Len(s)
    BY <1>1
  <2> QED
    BY <1>1, <2>1, SubSeqProperties
<1>3. SubSeq(s, 1, k) # << >>
  <2> DEFINE r == SubSeq(s, 1, k)
  <2>1. r \in Seq(Context) /\ Len(r) = k /\ k >= 1
    BY <1>1, <1>2
  <2> HIDE DEF r, k
  <2>2. r # << >>
    BY <2>1
  <2> QED
    BY <2>2 DEF r
<1> QED
  BY <1>2, <1>3

\* A stack keeps its shape without its top.
LEMMA PopShape ==
  ASSUME NEW s \in Seq(Context), Len(s) > 1, Shape(s)
  PROVE  Shape(SubSeq(s, 1, Len(s) - 1))
<1> DEFINE r == SubSeq(s, 1, Len(s) - 1)
<1>1. /\ Len(r) = Len(s) - 1
      /\ \A n \in 1..(Len(s) - 1) : r[n] = s[n]
  BY PopFacts
<1>2. Len(s) \in Nat
  OBVIOUS
<1> HIDE DEF r
<1>3. r[1].kind = "user"
  BY <1>1, <1>2 DEF Shape
<1>4. ASSUME NEW n \in 1..Len(r), r[n].kind \notin Irq, NEW m \in 1..(n - 1)
      PROVE  r[m].kind = "user"
  <2>1. /\ n \in 1..Len(s) /\ r[n] = s[n]
        /\ m \in 1..(Len(s) - 1) /\ r[m] = s[m]
    BY <1>1, <1>2
  <2> QED
    BY <1>4, <2>1 DEF Shape
<1>5. Shape(r)
  BY <1>3, <1>4 DEF Shape
<1> QED
  BY <1>5 DEF r

\* The top of a stack replaced by a context of the same kind.
LEMMA TopFacts ==
  ASSUME NEW s \in Seq(Context), s # << >>, Shape(s),
         NEW c \in Context, c.kind = s[Len(s)].kind
  PROVE  LET r == [s EXCEPT ![Len(s)] = c] IN
         /\ r \in Seq(Context) /\ r # << >> /\ Len(r) = Len(s)
         /\ r[Len(s)] = c
         /\ \A n \in 1..Len(s) : n # Len(s) => r[n] = s[n]
         /\ Shape(r)
<1> DEFINE r == [s EXCEPT ![Len(s)] = c]
<1>1. Len(s) \in Nat /\ Len(s) >= 1
  OBVIOUS
<1>2. r \in [1..Len(s) -> Context]
  BY <1>1
<1>3. r \in Seq(Context) /\ Len(r) = Len(s)
  BY <1>1, <1>2
<1>4. r # << >>
  BY <1>1, <1>3
<1>5. r[Len(s)] = c /\ \A n \in 1..Len(s) : n # Len(s) => r[n] = s[n]
  BY <1>1
<1>6. \A n \in 1..Len(s) : r[n].kind = s[n].kind
  BY <1>1, <1>5
<1> HIDE DEF r
<1>7. Shape(r)
  <2>1. r[1].kind = "user"
    BY <1>1, <1>6 DEF Shape
  <2>2. ASSUME NEW n \in 1..Len(r), r[n].kind \notin Irq, NEW m \in 1..(n - 1)
        PROVE  r[m].kind = "user"
    <3>1. n \in 1..Len(s) /\ m \in 1..Len(s)
      BY <1>1, <1>3
    <3> QED
      BY <1>6, <2>2, <3>1 DEF Shape
  <2> QED
    BY <2>1, <2>2 DEF Shape
<1> QED
  BY <1>3, <1>4, <1>5, <1>7 DEF r

\* The stack of a terminal that is shown for the first time.
LEMMA FirstFacts ==
  ASSUME NEW c \in Context, c.kind = "user"
  PROVE  /\ << c >> \in Seq(Context) /\ << c >> # << >>
         /\ Len(<< c >>) = 1 /\ << c >>[1] = c
         /\ Shape(<< c >>)
<1>1. << c >> \in Seq(Context) /\ << c >> # << >> /\ Len(<< c >>) = 1 /\ << c >>[1] = c
  <2> HIDE DEF Context
  <2> QED OBVIOUS
<1>2. \A n \in 1..1 : 1..(n - 1) = {}
  OBVIOUS
<1>3. Shape(<< c >>)
  BY <1>1, <1>2 DEF Shape
<1> QED
  BY <1>1, <1>3

\* A terminal that was not shown has no contexts.
LEMMA NoneFacts ==
  /\ << >> \in Seq(Context) /\ Len(<< >>) = 0
  /\ Shape(<< >>)
<1>1. << >> \in Seq(Context) /\ Len(<< >>) = 0
  OBVIOUS
<1>2. 1..0 = {}
  OBVIOUS
<1> QED
  BY <1>1, <1>2 DEF Shape

-----------------------------------------------------------------------------
(* The invariant *)

\* Before the first interrupt there is one program, which no handler serves.
LEMMA InterruptsInit ==
  ASSUME Init
  PROVE  IInv /\ Released
<1>0. 0 \in Term
  BY InterruptsBounds DEF Term
<1>1. New("user", TRUE) \in Context /\ New("user", TRUE).kind = "user"
  BY DEF New, Context, Kind
<1>2. PICK c \in Context : c = New("user", TRUE)
  BY <1>1
<1>3. contexts \in [Term -> Seq(Context)]
  BY <1>1, <1>2, FirstFacts, NoneFacts DEF Init
<1>4. \A t \in Term : contexts[t] = << >> \/ contexts[t] = << c >>
  BY <1>2 DEF Init
<1>5. Mine # << >> /\ Depth = 1 /\ Top = c
  BY <1>0, <1>1, <1>2, FirstFacts DEF Init, Mine, Depth, Top
<1>6. masked \subseteq AllMasked
  BY DEF Init, rtc_init, keyboard_init, enable_irq
<1>7. TypeOK
  BY <1>0, <1>3, <1>5, <1>6 DEF Init, TypeOK
<1>8. Shapes
  <2>1. ASSUME NEW t \in Term PROVE Shape(contexts[t])
    BY <1>1, <1>2, <1>4, FirstFacts, NoneFacts
  <2> QED
    BY <2>1 DEF Shapes
<1>9. ASSUME NEW t \in Term, NEW n \in 1..Len(contexts[t])
      PROVE  contexts[t][n].kind = "user"
  <2>1. contexts[t] = << c >>
    <3>1. n \in Nat /\ n >= 1 /\ n <= Len(contexts[t])
      <4>1. Len(contexts[t]) \in Nat
        BY <1>3
      <4> QED
        BY <4>1
    <3> QED
      BY <1>4, <3>1, NoneFacts
  <2>2. n = 1
    BY <2>1, FirstFacts, <1>1, <1>2
  <2> QED
    BY <1>1, <1>2, <2>1, <2>2, FirstFacts
<1>10. "user" \notin Irq /\ "user" # "rtc_read"
  BY DEF Irq, KB, RTC
<1>11. OneUnserved
  BY <1>1, <1>2, <1>5, <1>9, <1>10 DEF Init, OneUnserved, Settled
<1>12. \A t \in Term : ~Waiting(t)
  BY <1>9, <1>10 DEF Waiting
<1> QED
  BY <1>7, <1>8, <1>11, <1>12 DEF IInv, Released

\* What the invariant says of the stack that the processor runs.
LEMMA MineFacts ==
  ASSUME IInv
  PROVE  /\ terminal_idx \in Term
         /\ Mine = contexts[terminal_idx] /\ Mine \in Seq(Context) /\ Mine # << >>
         /\ Depth = Len(Mine) /\ Depth \in Nat /\ Depth >= 1
         /\ Top = Mine[Depth] /\ Top \in Context
         /\ Shape(Mine)
         /\ \A n \in 1..(Depth - 1) : Settled(Mine[n])
<1>1. /\ terminal_idx \in Term
      /\ Mine = contexts[terminal_idx] /\ Mine \in Seq(Context) /\ Mine # << >>
  BY DEF IInv, TypeOK, Mine
<1>2. Depth = Len(Mine) /\ Depth \in Nat /\ Depth >= 1 /\ Top = Mine[Depth]
  BY <1>1 DEF Depth, Top
<1>3. Top \in Context
  <2> HIDE DEF Context
  <2> QED BY <1>1, <1>2
<1>4. Shape(Mine)
  BY <1>1 DEF IInv, Shapes
<1>5. \A n \in 1..(Depth - 1) : Settled(Mine[n])
  BY <1>1, <1>2 DEF IInv, OneUnserved
<1> QED
  BY <1>1, <1>2, <1>3, <1>4, <1>5

\* A step on the displayed terminal that leaves there the stack s.
LEMMA StackStep ==
  ASSUME IInv, NEW s \in Seq(Context), s # << >>, Shape(s),
         \A n \in 1..(Len(s) - 1) : Settled(s[n]),
         terminal_idx' = terminal_idx,
         contexts' = [contexts EXCEPT ![terminal_idx] = s],
         Settled(s[Len(s)]) => in_service' = {},
         ~Settled(s[Len(s)]) => in_service' = Lines(s[Len(s)].kind) /\ ~s[Len(s)].sti
  PROVE  /\ contexts' \in [Term -> Seq(Context)] /\ Mine' # << >>
         /\ Shapes' /\ OneUnserved'
<1>1. terminal_idx \in Term /\ contexts \in [Term -> Seq(Context)]
  BY DEF IInv, TypeOK
<1>2. contexts' \in [Term -> Seq(Context)]
  BY <1>1
<1>3. /\ contexts'[terminal_idx] = s
      /\ \A t \in Term : t # terminal_idx => contexts'[t] = contexts[t]
  BY <1>1
<1>4. Mine' = s /\ Depth' = Len(s) /\ Top' = s[Len(s)]
  BY <1>3 DEF Mine, Depth, Top
<1>5. Shapes'
  BY <1>3 DEF IInv, Shapes
<1>6. ASSUME NEW t \in Term, NEW n \in 1..Len(contexts'[t]),
             t # terminal_idx' \/ n # Depth'
      PROVE  Settled(contexts'[t][n])
  <2>1. CASE t = terminal_idx
    <3>1. n \in 1..(Len(s) - 1) /\ contexts'[t] = s
      BY <1>3, <1>4, <1>6, <2>1
    <3> QED
      BY <3>1
  <2>2. CASE t # terminal_idx
    BY <1>3, <1>6, <2>2 DEF IInv, OneUnserved
  <2> QED
    BY <2>1, <2>2
<1>7. OneUnserved'
  BY <1>4, <1>6 DEF OneUnserved, Settled
<1> QED
  BY <1>2, <1>4, <1>5, <1>7

\* The parts of the invariant about the stacks.
Stacks ==
    /\ contexts \in [Term -> Seq(Context)] /\ Mine # << >>
    /\ Shapes /\ OneUnserved

\* A step that leaves the stacks and the controllers' service alone.
LEMMA SameStep ==
  ASSUME IInv, UNCHANGED <<terminal_idx, contexts, in_service>>
  PROVE  Stacks'
<1>1. Mine' = Mine /\ Depth' = Depth /\ Top' = Top
  BY DEF Mine, Depth, Top
<1>2. Shapes'
  BY DEF IInv, Shapes
<1>3. OneUnserved'
  BY <1>1 DEF IInv, OneUnserved
<1> QED
  BY <1>1, <1>2, <1>3 DEF IInv, TypeOK, Stacks

\* A step that puts a settled context, or a handler whose lines are the ones in
\* service then, on top of a settled one.
LEMMA PushStep ==
  ASSUME IInv, Settled(Top), NEW c \in Context,
         c.kind \in Irq \/ Top.kind = "user",
         terminal_idx' = terminal_idx,
         contexts' = [contexts EXCEPT ![terminal_idx] = Append(@, c)],
         Settled(c) => in_service' = {},
         ~Settled(c) => in_service' = Lines(c.kind) /\ ~c.sti
  PROVE  Stacks'
<1> DEFINE s == Append(Mine, c)
<1>0. terminal_idx \in Term /\ Mine = contexts[terminal_idx] /\ Mine \in Seq(Context)
      /\ Mine # << >> /\ Depth = Len(Mine) /\ Depth \in Nat /\ Depth >= 1
      /\ Top = Mine[Depth] /\ Shape(Mine)
      /\ \A n \in 1..(Depth - 1) : Settled(Mine[n])
  BY MineFacts
<1>1. /\ s \in Seq(Context) /\ s # << >>
      /\ Len(s) = Depth + 1 /\ s[Depth + 1] = c
      /\ \A n \in 1..Depth : s[n] = Mine[n]
  BY <1>0, PushFacts
<1>2. Shape(s)
  BY <1>0, PushShape
<1>3. contexts' = [contexts EXCEPT ![terminal_idx] = s]
  BY <1>0
<1> HIDE DEF s
<1>4. \A n \in 1..(Len(s) - 1) : Settled(s[n])
  BY <1>0, <1>1
<1>5. s[Len(s)] = c
  BY <1>1
<1> QED
  BY <1>1, <1>2, <1>3, <1>4, <1>5, StackStep DEF Stacks

\* A step that takes a settled context from a stack of two or more.
LEMMA PopStep ==
  ASSUME IInv, Settled(Top), Depth > 1,
         UNCHANGED <<terminal_idx, in_service>>,
         contexts' = Pop
  PROVE  Stacks'
<1> DEFINE s == SubSeq(Mine, 1, Depth - 1)
<1>0. terminal_idx \in Term /\ Mine = contexts[terminal_idx] /\ Mine \in Seq(Context)
      /\ Depth = Len(Mine) /\ Depth \in Nat
      /\ Shape(Mine)
      /\ \A n \in 1..(Depth - 1) : Settled(Mine[n])
  BY MineFacts
<1>1. /\ s \in Seq(Context) /\ s # << >> /\ Len(s) = Depth - 1
      /\ \A n \in 1..(Depth - 1) : s[n] = Mine[n]
  BY <1>0, PopFacts
<1>2. Shape(s)
  BY <1>0, PopShape
<1>3. contexts' = [contexts EXCEPT ![terminal_idx] = s]
  BY <1>0 DEF Pop
<1>4. in_service' = {}
  BY DEF IInv, OneUnserved
<1> HIDE DEF s
<1>5. \A n \in 1..Len(s) : Settled(s[n])
  BY <1>0, <1>1
<1>6. Settled(s[Len(s)]) /\ \A n \in 1..(Len(s) - 1) : Settled(s[n])
  BY <1>0, <1>1, <1>5
<1> QED
  BY <1>1, <1>2, <1>3, <1>4, <1>6, StackStep DEF Stacks

\* A step that replaces the top by a settled context of the same kind.
LEMMA TopStep ==
  ASSUME IInv, NEW c \in Context, c.kind = Top.kind, Settled(c),
         terminal_idx' = terminal_idx, in_service' = {},
         contexts' = [contexts EXCEPT ![terminal_idx] = [@ EXCEPT ![Depth] = c]]
  PROVE  Stacks'
<1> DEFINE s == [Mine EXCEPT ![Depth] = c]
<1>0. terminal_idx \in Term /\ Mine = contexts[terminal_idx] /\ Mine \in Seq(Context)
      /\ Mine # << >> /\ Depth = Len(Mine) /\ Depth \in Nat /\ Depth >= 1
      /\ Top = Mine[Depth] /\ Shape(Mine)
      /\ \A n \in 1..(Depth - 1) : Settled(Mine[n])
  BY MineFacts
<1>1. /\ s \in Seq(Context) /\ s # << >> /\ Len(s) = Depth
      /\ s[Depth] = c
      /\ \A n \in 1..Depth : n # Depth => s[n] = Mine[n]
      /\ Shape(s)
  BY <1>0, TopFacts
<1>2. contexts' = [contexts EXCEPT ![terminal_idx] = s]
  BY <1>0
<1> HIDE DEF s
<1>3. \A n \in 1..(Len(s) - 1) : Settled(s[n])
  BY <1>0, <1>1
<1> QED
  BY <1>1, <1>2, <1>3, StackStep DEF Stacks

\* A handler at its entry serves its device: nothing is in service then, and
\* every context of every terminal is settled.
LEMMA ServeFacts ==
  ASSUME IInv, NEW irq \in Irq, AtEntry(irq), NEW flag \in BOOLEAN
  PROVE  LET c == [kind |-> Top.kind, sti |-> flag, served |-> TRUE] IN
         /\ in_service \ Ended(irq) = {}
         /\ c \in Context /\ c.kind = Top.kind /\ Settled(c)
         /\ Serve(flag) = [contexts EXCEPT ![terminal_idx] = [@ EXCEPT ![Depth] = c]]
         /\ Serve(flag) \in [Term -> Seq(Context)]
         /\ \A t \in Term :
                /\ contexts[t] # << >> => Serve(flag)[t] # << >>
                /\ Shape(Serve(flag)[t])
                /\ \A n \in 1..Len(Serve(flag)[t]) : Settled(Serve(flag)[t][n])
<1> DEFINE c == [kind |-> Top.kind, sti |-> flag, served |-> TRUE]
<1> DEFINE s == [Mine EXCEPT ![Depth] = c]
<1>0. terminal_idx \in Term /\ Mine = contexts[terminal_idx] /\ Mine \in Seq(Context)
      /\ Mine # << >> /\ Depth = Len(Mine) /\ Depth \in Nat /\ Depth >= 1
      /\ Top = Mine[Depth] /\ Top \in Context /\ Shape(Mine)
      /\ \A n \in 1..(Depth - 1) : Settled(Mine[n])
  BY MineFacts
<1>1. ~Settled(Top) /\ Top.kind = irq
  BY DEF AtEntry, Running, Settled
<1>2. in_service \ Ended(irq) = {}
  BY <1>1 DEF IInv, OneUnserved, Lines, Ended
<1>3. c \in Context /\ c.kind = Top.kind /\ Settled(c)
  BY <1>0 DEF Context, Settled
<1>4. Serve(flag) = [contexts EXCEPT ![terminal_idx] = [@ EXCEPT ![Depth] = c]]
  BY DEF Serve
<1> HIDE DEF c
<1>5. /\ s \in Seq(Context) /\ s # << >> /\ Len(s) = Depth
      /\ s[Depth] = c
      /\ \A n \in 1..Depth : n # Depth => s[n] = Mine[n]
      /\ Shape(s)
  BY <1>0, <1>3, TopFacts
<1>6. Serve(flag) = [contexts EXCEPT ![terminal_idx] = s]
  BY <1>0, <1>4
<1> HIDE DEF s
<1>7. \A n \in 1..Len(s) : Settled(s[n])
  BY <1>0, <1>3, <1>5
<1>8. contexts \in [Term -> Seq(Context)]
  BY DEF IInv, TypeOK
<1>9. /\ Serve(flag) \in [Term -> Seq(Context)]
      /\ Serve(flag)[terminal_idx] = s
      /\ \A t \in Term : t # terminal_idx => Serve(flag)[t] = contexts[t]
  BY <1>0, <1>5, <1>6, <1>8
<1>10. ASSUME NEW t \in Term
       PROVE  /\ contexts[t] # << >> => Serve(flag)[t] # << >>
              /\ Shape(Serve(flag)[t])
              /\ \A n \in 1..Len(Serve(flag)[t]) : Settled(Serve(flag)[t][n])
  <2>1. CASE t = terminal_idx
    BY <1>5, <1>7, <1>9, <2>1
  <2>2. CASE t # terminal_idx
    <3>1. Serve(flag)[t] = contexts[t]
      BY <1>9, <2>2
    <3> QED
      BY <2>2, <3>1 DEF IInv, Shapes, OneUnserved
  <2> QED
    BY <2>1, <2>2
<1> QED
  BY <1>2, <1>3, <1>4, <1>9, <1>10 DEF c

\* Alt+Fn: the displayed terminal is another one, all of whose contexts are
\* settled.
LEMMA SwitchStep ==
  ASSUME IInv, NEW t \in Term, SwitchToRunning(t) \/ SwitchToNew(t)
  PROVE  Stacks'
<1> DEFINE D == Serve(FALSE)
<1>0. FALSE \in BOOLEAN /\ KB \in Irq
  BY DEF Irq
<1>1. AtEntry(KB) /\ terminal_idx' = t /\ in_service' = in_service \ Ended(KB)
  BY DEF SwitchToRunning, SwitchToNew
<1>2. /\ in_service' = {}
      /\ D \in [Term -> Seq(Context)]
      /\ \A u \in Term :
            /\ contexts[u] # << >> => D[u] # << >>
            /\ Shape(D[u])
            /\ \A n \in 1..Len(D[u]) : Settled(D[u][n])
  BY <1>0, <1>1, ServeFacts
<1>3. New("user", TRUE) \in Context /\ New("user", TRUE).kind = "user"
  BY DEF New, Context, Kind
<1>4. PICK c \in Context : c = New("user", TRUE)
  BY <1>3
<1>5. /\ << c >> \in Seq(Context) /\ << c >> # << >>
      /\ Len(<< c >>) = 1 /\ << c >>[1] = c
      /\ Shape(<< c >>) /\ Settled(c)
  <2>1. "user" \notin Irq
    BY DEF Irq, KB, RTC
  <2> QED
    BY <1>3, <1>4, <2>1, FirstFacts DEF Settled
<1>6. contexts' = D \/ contexts' = [D EXCEPT ![t] = << c >>]
  BY <1>4 DEF SwitchToRunning, SwitchToNew
<1>7. contexts'[t] # << >>
  <2>1. CASE SwitchToRunning(t)
    BY <1>2, <2>1 DEF SwitchToRunning
  <2>2. CASE SwitchToNew(t)
    <3>1. contexts' = [D EXCEPT ![t] = << c >>]
      BY <1>4, <2>2 DEF SwitchToNew
    <3> QED
      BY <1>2, <1>5, <3>1
  <2> QED
    BY <2>1, <2>2
<1> HIDE DEF D
<1>8. contexts' \in [Term -> Seq(Context)]
  BY <1>2, <1>5, <1>6
<1>9. ASSUME NEW u \in Term
      PROVE  /\ Shape(contexts'[u])
             /\ \A n \in 1..Len(contexts'[u]) : Settled(contexts'[u][n])
  <2>1. contexts'[u] = D[u] \/ contexts'[u] = << c >>
    BY <1>2, <1>6
  <2>2. CASE contexts'[u] = D[u]
    BY <1>2, <2>2
  <2>3. CASE contexts'[u] = << c >>
    <3>1. \A n \in 1..1 : n = 1
      OBVIOUS
    <3>2. \A n \in 1..Len(<< c >>) : << c >>[n] = c
      BY <1>5, <3>1
    <3> QED
      BY <1>5, <2>3, <3>2
  <2> QED
    BY <2>1, <2>2, <2>3
<1>10. Mine' = contexts'[t] /\ Mine' # << >> /\ Depth' = Len(contexts'[t])
       /\ Top' = contexts'[t][Len(contexts'[t])]
  BY <1>1, <1>7 DEF Mine, Depth, Top
<1>11. Settled(Top)'
  <2>1. Len(contexts'[t]) \in 1..Len(contexts'[t])
    BY <1>7, <1>8
  <2> QED
    BY <1>9, <1>10, <2>1 DEF Settled
<1>12. Shapes'
  BY <1>9 DEF Shapes
<1>13. OneUnserved'
  BY <1>2, <1>9, <1>11 DEF OneUnserved, Settled
<1> QED
  BY <1>8, <1>10, <1>12, <1>13 DEF Stacks

\* A stack whose top is no program holds one below it, and so does a stack of
\* two programs.
LEMMA NotAlone ==
  ASSUME IInv, Top.kind # "user" \/ HasParent
  PROVE  Depth > 1
<1>1. /\ Mine # << >> /\ Depth = Len(Mine) /\ Depth \in Nat /\ Depth >= 1
      /\ Top = Mine[Depth] /\ Shape(Mine)
  BY MineFacts
<1>2. SUFFICES ASSUME Depth = 1 PROVE FALSE
  BY <1>1
<1>3. Top.kind = "user"
  BY <1>1, <1>2 DEF Shape
<1> DEFINE users == {n \in 1..Depth : Mine[n].kind = "user"}
<1>4. users \subseteq {1}
  BY <1>2
<1>5. IsFiniteSet({1}) /\ Cardinality({1}) = 1
  BY FS_Singleton
<1> HIDE DEF users
<1>6. IsFiniteSet(users) /\ Cardinality(users) <= 1
  BY <1>4, <1>5, FS_Subset
<1>7. Cardinality(users) \in Nat
  BY <1>6, FS_CardinalityType
<1> QED
  BY <1>3, <1>6, <1>7 DEF HasParent, Count, users

\* Every step keeps the stacks as the invariant has them.
LEMMA StacksStep ==
  ASSUME IInv, Next
  PROVE  Stacks'
<1>0. /\ "user" \notin Irq /\ "rtc_read" \notin Irq /\ "call" \notin Irq
      /\ KB \in Irq /\ RTC \in Irq
      /\ TRUE \in BOOLEAN /\ FALSE \in BOOLEAN
  BY DEF Irq, KB, RTC
<1>1. ASSUME NEW kind \in {"user", "call", "rtc_read"}, NEW flag \in BOOLEAN
      PROVE  New(kind, flag) \in Context /\ Settled(New(kind, flag))
  BY <1>0, <1>1 DEF New, Context, Kind, Settled
<1>2. ASSUME NEW kind \in {"user", "call", "rtc_read"}, NEW flag \in BOOLEAN,
             Running("user"), contexts' = Push(kind, flag),
             UNCHANGED <<terminal_idx, in_service>>
      PROVE  Stacks'
  <2>1. Settled(Top) /\ Top.kind = "user"
    BY <1>0, <1>2 DEF Running, Settled
  <2>2. in_service' = {}
    BY <1>2, <2>1 DEF IInv, OneUnserved
  <2>3. PICK c \in Context : c = New(kind, flag) /\ Settled(c)
    BY <1>1, <1>2
  <2>4. contexts' = [contexts EXCEPT ![terminal_idx] = Append(@, c)]
    BY <1>2, <2>3 DEF Push
  <2> QED
    BY <1>2, <2>1, <2>2, <2>3, <2>4, PushStep
<1>3. ASSUME NEW kind \in {"user", "call", "rtc_read"}, Running(kind),
             kind # "user" \/ HasParent,
             contexts' = Pop, UNCHANGED <<terminal_idx, in_service>>
      PROVE  Stacks'
  <2>1. Settled(Top)
    BY <1>0, <1>3 DEF Running, Settled
  <2>2. Depth > 1
    BY <1>3, NotAlone DEF Running
  <2> QED
    BY <1>3, <2>1, <2>2, PopStep
<1>4. ASSUME NEW irq \in Irq, Request(irq) PROVE Stacks'
  BY <1>4, SameStep DEF Request
<1>5. ASSUME NEW irq \in Irq, Take(irq) PROVE Stacks'
  <2>1. Settled(Top) /\ in_service = {}
    BY <1>5 DEF Take, IInv, OneUnserved
  <2>2. New(irq, FALSE) \in Context
    BY DEF New, Context, Kind
  <2>3. PICK c \in Context : c = New(irq, FALSE)
    BY <2>2
  <2>4. c.kind = irq /\ ~c.sti
    BY <2>3 DEF New
  <2>5. in_service' = Lines(irq)
    BY <1>5, <2>1 DEF Take
  <2>6. ~Settled(c)
    BY <2>3 DEF New, Settled
  <2>7. contexts' = [contexts EXCEPT ![terminal_idx] = Append(@, c)]
    BY <1>5, <2>3 DEF Take, Push
  <2>8. terminal_idx' = terminal_idx
    BY <1>5 DEF Take
  <2> QED
    BY <2>1, <2>4, <2>5, <2>6, <2>7, <2>8, PushStep
<1>6. ASSUME NEW irq \in Irq, Leave(irq) PROVE Stacks'
  <2>1. Settled(Top)
    BY <1>6 DEF Leave, Settled
  <2>2. Depth > 1
    BY <1>0, <1>6, NotAlone DEF Leave, Running
  <2> QED
    BY <1>6, <2>1, <2>2, PopStep DEF Leave, deviceVars
<1>7. ASSUME NEW irq \in Irq, AtEntry(irq), contexts' = Serve(TRUE),
             in_service' = in_service \ Ended(irq), terminal_idx' = terminal_idx
      PROVE  Stacks'
  <2> DEFINE c == [kind |-> Top.kind, sti |-> TRUE, served |-> TRUE]
  <2>1. /\ in_service \ Ended(irq) = {}
        /\ c \in Context /\ c.kind = Top.kind /\ Settled(c)
        /\ Serve(TRUE) = [contexts EXCEPT ![terminal_idx] = [@ EXCEPT ![Depth] = c]]
    BY <1>0, <1>7, ServeFacts
  <2> HIDE DEF c
  <2> QED
    BY <1>7, <2>1, TopStep
<1>8. CASE rtc_handler
  BY <1>0, <1>7, <1>8 DEF rtc_handler
<1>9. CASE keyboard_handler
  BY <1>0, <1>7, <1>9 DEF keyboard_handler
<1>10. ASSUME NEW t \in Term, SwitchToRunning(t) \/ SwitchToNew(t) PROVE Stacks'
  BY <1>10, SwitchStep
<1>11. CASE Execute
  BY <1>0, <1>2, <1>11 DEF Execute, CallUnchanged, deviceVars
<1>12. CASE HaltChild
  BY <1>3, <1>12 DEF HaltChild, CallUnchanged, deviceVars
<1>13. CASE HaltShell
  <2> DEFINE c == [Top EXCEPT !.sti = FALSE]
  <2>1. Top \in Context /\ Depth \in Nat /\ Top = Mine[Depth] /\ Mine = contexts[terminal_idx]
    BY MineFacts
  <2>2. Top.kind = "user"
    BY <1>13 DEF HaltShell, Running
  <2>3. c \in Context /\ c.kind = Top.kind /\ Settled(c) /\ Settled(Top)
    BY <1>0, <2>1, <2>2 DEF Context, Settled
  <2>4. contexts' = [contexts EXCEPT ![terminal_idx] = [@ EXCEPT ![Depth] = c]]
    BY <1>13, <2>1 DEF HaltShell
  <2>5. terminal_idx' = terminal_idx /\ in_service' = {}
    BY <1>13, <2>3 DEF HaltShell, CallUnchanged, deviceVars, IInv, OneUnserved
  <2> HIDE DEF c
  <2> QED
    BY <2>3, <2>4, <2>5, TopStep
<1>14. CASE rtc_read
  BY <1>0, <1>2, <1>14 DEF rtc_read, CallUnchanged, deviceVars
<1>15. CASE rtc_read_returns
  BY <1>3, <1>15 DEF rtc_read_returns, CallUnchanged, deviceVars
<1>16. CASE Call
  BY <1>0, <1>2, <1>16 DEF Call, CallEnabled, CallUnchanged, deviceVars
<1>17. CASE CallReturns
  BY <1>3, <1>17 DEF CallReturns, CallUnchanged, deviceVars
<1> QED
  BY <1>4, <1>5, <1>6, <1>8, <1>9, <1>10, <1>11, <1>12, <1>13, <1>14, <1>15,
     <1>16, <1>17 DEF Next

\* Every step keeps the controllers and the flags in their ranges.
LEMMA RangesStep ==
  ASSUME IInv, Next
  PROVE  /\ terminal_idx' \in Term /\ RTC_IR' \in BOOLEAN
         /\ pending' \subseteq Irq /\ raised' \subseteq Irq
         /\ in_service' \subseteq AllMasked /\ masked' \subseteq AllMasked
         /\ ticked' \in [Term -> BOOLEAN]
<1>0. /\ terminal_idx \in Term /\ RTC_IR \in BOOLEAN
      /\ pending \subseteq Irq /\ raised \subseteq Irq
      /\ in_service \subseteq AllMasked /\ masked \subseteq AllMasked
      /\ ticked \in [Term -> BOOLEAN]
  BY DEF IInv, TypeOK
<1>1. ASSUME NEW irq \in Irq, Request(irq) \/ Take(irq) \/ Leave(irq)
      PROVE  /\ terminal_idx' \in Term /\ RTC_IR' \in BOOLEAN
             /\ pending' \subseteq Irq /\ raised' \subseteq Irq
             /\ in_service' \subseteq AllMasked /\ masked' \subseteq AllMasked
             /\ ticked' \in [Term -> BOOLEAN]
  <2>1. Lines(irq) \subseteq AllMasked
    BY DEF Lines, AllMasked, Irq
  <2> QED
    BY <1>0, <1>1, <2>1 DEF Request, Take, Leave, deviceVars
<1>2. CASE rtc_handler
  <2>1. ticked' \in [Term -> BOOLEAN]
    <3>1. \A t \in Term : Waiting(t) \in BOOLEAN
      BY DEF Waiting
    <3> QED
      BY <1>2, <3>1 DEF rtc_handler
  <2> QED
    BY <1>0, <1>2, <2>1 DEF rtc_handler, ClockServed
<1>3. CASE keyboard_handler
  BY <1>0, <1>3 DEF keyboard_handler
<1>4. ASSUME NEW t \in Term, SwitchToRunning(t) \/ SwitchToNew(t)
      PROVE  /\ terminal_idx' \in Term /\ RTC_IR' \in BOOLEAN
             /\ pending' \subseteq Irq /\ raised' \subseteq Irq
             /\ in_service' \subseteq AllMasked /\ masked' \subseteq AllMasked
             /\ ticked' \in [Term -> BOOLEAN]
  BY <1>0, <1>4 DEF SwitchToRunning, SwitchToNew
<1>5. CASE Execute \/ HaltChild \/ HaltShell \/ Call \/ CallReturns
  BY <1>0, <1>5 DEF Execute, HaltChild, HaltShell, Call, CallReturns, CallUnchanged, deviceVars
<1>6. CASE rtc_read \/ rtc_read_returns
  <2>1. ticked' = [ticked EXCEPT ![terminal_idx] = FALSE]
    BY <1>6 DEF rtc_read, rtc_read_returns
  <2>2. ticked' \in [Term -> BOOLEAN]
    BY <1>0, <2>1
  <2>3. RTC_IR' \in BOOLEAN
    BY <1>0, <1>6 DEF rtc_read, rtc_read_returns, FlagSet
  <2> QED
    BY <1>0, <1>6, <2>2, <2>3 DEF rtc_read, rtc_read_returns, CallUnchanged, deviceVars
<1> QED
  BY <1>1, <1>2, <1>3, <1>4, <1>5, <1>6 DEF Next

\* The invariant is inductive.
LEMMA InterruptsStep ==
  ASSUME IInv, [Next]_vars
  PROVE  IInv'
<1>1. CASE Next
  BY <1>1, StacksStep, RangesStep DEF IInv, TypeOK, Stacks
<1>2. CASE UNCHANGED vars
  <2>1. Stacks'
    BY <1>2, SameStep DEF vars, deviceVars
  <2> QED
    BY <1>2, <2>1 DEF vars, deviceVars, IInv, TypeOK, Stacks
<1> QED
  BY <1>1, <1>2

\* The invariant holds of every behaviour.
LEMMA InterruptsAlways == Spec => []IInv
<1>1. Init => IInv
  BY InterruptsInit
<1>2. IInv /\ [Next]_vars => IInv'
  BY InterruptsStep
<1> QED
  BY <1>1, <1>2, PTL DEF Spec

\* "FIX: forget to send eoi" (buglog.txt:46): however the two handlers, the
\* calls and Alt+Fn follow one another, whenever the processor accepts
\* interrupts the controllers hold none to be unfinished.
THEOREM InterruptsFlow == Spec => []NothingHeldBack
<1>1. IInv => NothingHeldBack
  BY DEF IInv, OneUnserved, NothingHeldBack
<1> QED
  BY <1>1, InterruptsAlways, PTL

-----------------------------------------------------------------------------
(* rtc_read *)

\* A terminal waits for the clock when rtc_read is somewhere on its stack; it is
\* there only once.
LEMMA OneReader ==
  ASSUME IInv, Running("rtc_read")
  PROVE  \A n \in 1..(Depth - 1) : Mine[n].kind # "rtc_read"
<1>1. /\ Depth = Len(Mine) /\ Depth \in Nat /\ Depth >= 1
      /\ Top = Mine[Depth] /\ Shape(Mine)
  BY MineFacts
<1>2. "rtc_read" \notin Irq /\ "rtc_read" # "user"
  BY DEF Irq, KB, RTC
<1>3. Depth \in 1..Len(Mine) /\ Mine[Depth].kind \notin Irq
  BY <1>1, <1>2 DEF Running
<1>4. \A n \in 1..(Depth - 1) : Mine[n].kind = "user"
  BY <1>1, <1>3 DEF Shape
<1> QED
  BY <1>2, <1>4

\* A step after which a terminal waits for the clock that did not wait before
\* is rtc_read.
LEMMA WaitingStep ==
  ASSUME IInv, Next, ~rtc_read, NEW t \in Term, Waiting(t)'
  PROVE  Waiting(t)
<1>0. /\ terminal_idx \in Term /\ Mine = contexts[terminal_idx]
      /\ Mine \in Seq(Context) /\ Mine # << >> /\ Depth = Len(Mine)
      /\ Depth \in Nat /\ Depth >= 1 /\ Top = Mine[Depth]
      /\ Shape(Mine) /\ contexts \in [Term -> Seq(Context)]
  BY MineFacts DEF IInv, TypeOK
<1>1. ASSUME NEW c \in Context, c.kind # "rtc_read",
             contexts' = [contexts EXCEPT ![terminal_idx] = Append(@, c)]
      PROVE  Waiting(t)
  <2>1. CASE t = terminal_idx
    <3>1. contexts'[t] = Append(Mine, c)
      BY <1>0, <1>1, <2>1
    <3>2. /\ Len(Append(Mine, c)) = Depth + 1 /\ Append(Mine, c)[Depth + 1] = c
          /\ \A n \in 1..Depth : Append(Mine, c)[n] = Mine[n]
      BY <1>0, PushFacts
    <3>3. PICK n \in 1..(Depth + 1) : Append(Mine, c)[n].kind = "rtc_read"
      BY <3>1, <3>2 DEF Waiting
    <3>4. n \in 1..Depth
      BY <1>0, <1>1, <3>2, <3>3
    <3> QED
      BY <1>0, <2>1, <3>2, <3>3, <3>4 DEF Waiting
  <2>2. CASE t # terminal_idx
    BY <1>0, <1>1, <2>2 DEF Waiting
  <2> QED
    BY <2>1, <2>2
<1>2. ASSUME contexts' = Pop, Depth > 1
      PROVE  Waiting(t)
  <2>1. CASE t = terminal_idx
    <3>1. contexts'[t] = SubSeq(Mine, 1, Depth - 1)
      BY <1>0, <1>2, <2>1 DEF Pop
    <3>2. /\ Len(SubSeq(Mine, 1, Depth - 1)) = Depth - 1
          /\ \A n \in 1..(Depth - 1) : SubSeq(Mine, 1, Depth - 1)[n] = Mine[n]
      BY <1>0, <1>2, PopFacts
    <3>3. PICK n \in 1..(Depth - 1) : SubSeq(Mine, 1, Depth - 1)[n].kind = "rtc_read"
      BY <3>1, <3>2 DEF Waiting
    <3>4. n \in 1..Depth
      BY <1>0
    <3> QED
      BY <1>0, <2>1, <3>2, <3>3, <3>4 DEF Waiting
  <2>2. CASE t # terminal_idx
    BY <1>0, <1>2, <2>2 DEF Waiting, Pop
  <2> QED
    BY <2>1, <2>2
<1>3. ASSUME NEW c \in Context, c.kind = Top.kind, NEW D,
             D = [contexts EXCEPT ![terminal_idx] = [@ EXCEPT ![Depth] = c]],
             contexts'[t] = D[t]
      PROVE  Waiting(t)
  <2>1. CASE t = terminal_idx
    <3>1. contexts'[t] = [Mine EXCEPT ![Depth] = c]
      BY <1>0, <1>3, <2>1
    <3>2. LET r == [Mine EXCEPT ![Len(Mine)] = c] IN
          /\ Len(r) = Len(Mine) /\ r[Len(Mine)] = c
          /\ \A n \in 1..Len(Mine) : n # Len(Mine) => r[n] = Mine[n]
      BY <1>0, <1>3, TopFacts
    <3>3. PICK n \in 1..Depth : [Mine EXCEPT ![Depth] = c][n].kind = "rtc_read"
      BY <1>0, <3>1, <3>2 DEF Waiting
    <3>4. Mine[n].kind = "rtc_read"
      BY <1>0, <1>3, <3>2, <3>3
    <3> QED
      BY <1>0, <2>1, <3>4 DEF Waiting
  <2>2. CASE t # terminal_idx
    BY <1>0, <1>3, <2>2 DEF Waiting
  <2> QED
    BY <2>1, <2>2
<1>4. ASSUME NEW kind \in Kind, kind # "rtc_read", NEW flag \in BOOLEAN,
             contexts' = Push(kind, flag)
      PROVE  Waiting(t)
  <2>1. New(kind, flag) \in Context /\ New(kind, flag).kind = kind
    BY <1>4 DEF New, Context
  <2>2. PICK c \in Context : c = New(kind, flag)
    BY <2>1
  <2> QED
    BY <1>1, <1>4, <2>1, <2>2 DEF Push
<1>5. ASSUME contexts' = contexts PROVE Waiting(t)
  BY <1>5 DEF Waiting
<1>6. /\ RTC # "rtc_read" /\ KB # "rtc_read" /\ "user" # "rtc_read" /\ "call" # "rtc_read"
      /\ {RTC, KB, "user", "call"} \subseteq Kind
      /\ Irq = {KB, RTC} /\ TRUE \in BOOLEAN /\ FALSE \in BOOLEAN
      /\ "user" \notin Irq
  BY DEF Kind, Irq, KB, RTC
<1>7. ASSUME NEW irq \in Irq, Request(irq) \/ Take(irq) \/ Leave(irq) PROVE Waiting(t)
  <2>1. CASE Request(irq)
    BY <1>5, <2>1 DEF Request
  <2>2. CASE Take(irq)
    BY <1>4, <1>6, <2>2 DEF Take
  <2>3. CASE Leave(irq)
    BY <1>2, <1>6, <2>3, NotAlone DEF Leave, Running
  <2> QED
    BY <1>7, <2>1, <2>2, <2>3
<1>8. CASE rtc_handler
  <2> DEFINE c == [kind |-> Top.kind, sti |-> TRUE, served |-> TRUE]
  <2>1. RTC \in Irq /\ AtEntry(RTC) /\ contexts' = Serve(TRUE)
    BY <1>6, <1>8 DEF rtc_handler
  <2>2. /\ c \in Context /\ c.kind = Top.kind
        /\ contexts' = [contexts EXCEPT ![terminal_idx] = [@ EXCEPT ![Depth] = c]]
    BY <1>6, <2>1, ServeFacts
  <2> HIDE DEF c
  <2> QED
    BY <1>3, <2>2
<1>9. CASE keyboard_handler
  <2> DEFINE c == [kind |-> Top.kind, sti |-> TRUE, served |-> TRUE]
  <2>1. KB \in Irq /\ AtEntry(KB) /\ contexts' = Serve(TRUE)
    BY <1>6, <1>9 DEF keyboard_handler
  <2>2. /\ c \in Context /\ c.kind = Top.kind
        /\ contexts' = [contexts EXCEPT ![terminal_idx] = [@ EXCEPT ![Depth] = c]]
    BY <1>6, <2>1, ServeFacts
  <2> HIDE DEF c
  <2> QED
    BY <1>3, <2>2
<1>10. ASSUME NEW v \in Term, SwitchToRunning(v) \/ SwitchToNew(v) PROVE Waiting(t)
  <2> DEFINE c == [kind |-> Top.kind, sti |-> FALSE, served |-> TRUE]
  <2> DEFINE D == Serve(FALSE)
  <2>1. KB \in Irq /\ AtEntry(KB)
        /\ (contexts' = D \/ contexts' = [D EXCEPT ![v] = << New("user", TRUE) >>])
    BY <1>6, <1>10 DEF SwitchToRunning, SwitchToNew
  <2>2. /\ c \in Context /\ c.kind = Top.kind
        /\ D = [contexts EXCEPT ![terminal_idx] = [@ EXCEPT ![Depth] = c]]
        /\ D \in [Term -> Seq(Context)]
    BY <1>6, <2>1, ServeFacts
  <2> HIDE DEF c, D
  <2>3. contexts'[t] # D[t] => contexts'[t] = << New("user", TRUE) >>
    BY <2>1, <2>2
  <2>4. contexts'[t] # << New("user", TRUE) >>
    <3>1. New("user", TRUE) \in Context /\ New("user", TRUE).kind = "user"
      BY <1>6 DEF New, Context
    <3>2. PICK d \in Context : d = New("user", TRUE)
      BY <3>1
    <3>3. Len(<< d >>) = 1 /\ << d >>[1] = d /\ d.kind # "rtc_read"
      BY <1>6, <3>1, <3>2, FirstFacts
    <3>4. \A n \in 1..Len(<< d >>) : n = 1
      BY <3>3
    <3>5. contexts'[t] # << d >>
      BY <3>3, <3>4 DEF Waiting
    <3> QED
      BY <3>2, <3>5
  <2> QED
    BY <1>3, <2>2, <2>3, <2>4
<1>11. CASE Execute
  BY <1>4, <1>6, <1>11 DEF Execute
<1>12. CASE HaltChild
  BY <1>2, <1>12, NotAlone DEF HaltChild
<1>13. CASE HaltShell
  <2> DEFINE c == [Top EXCEPT !.sti = FALSE]
  <2>1. Top \in Context
    BY MineFacts
  <2>2. c \in Context /\ c.kind = Top.kind
    BY <2>1 DEF Context
  <2>3. contexts' = [contexts EXCEPT ![terminal_idx] = [@ EXCEPT ![Depth] = c]]
    BY <1>0, <1>13 DEF HaltShell
  <2> HIDE DEF c
  <2> QED
    BY <1>3, <2>2, <2>3
<1>14. CASE rtc_read_returns
  BY <1>2, <1>6, <1>14, NotAlone DEF rtc_read_returns, Running
<1>15. CASE Call
  BY <1>4, <1>6, <1>15 DEF Call, CallEnabled
<1>16. CASE CallReturns
  BY <1>2, <1>6, <1>16, NotAlone DEF CallReturns, Running
<1> QED
  BY <1>7, <1>8, <1>9, <1>10, <1>11, <1>12, <1>13, <1>14, <1>15, <1>16 DEF Next

\* RTC_IR is cleared only by the handler, which all who wait then have seen.
LEMMA ReleasedStep ==
  ASSUME IInv, Released, [Next]_vars
  PROVE  Released'
<1>0. /\ terminal_idx \in Term /\ Mine = contexts[terminal_idx]
      /\ Mine \in Seq(Context) /\ Depth = Len(Mine) /\ Depth \in Nat
      /\ ticked \in [Term -> BOOLEAN]
  BY MineFacts DEF IInv, TypeOK
<1>1. SUFFICES ASSUME Next, ~RTC_IR', NEW t \in Term, Waiting(t)'
               PROVE  ticked'[t]
  BY DEF Released, vars, Waiting
<1>2. ~rtc_read
  BY <1>1 DEF rtc_read, FlagSet
<1>3. Waiting(t)
  BY <1>1, <1>2, WaitingStep
<1>4. CASE RTC_IR' = RTC_IR /\ ticked' = ticked
  BY <1>1, <1>3, <1>4 DEF Released
<1>5. CASE rtc_handler
  BY <1>3, <1>5 DEF rtc_handler
<1>6. CASE rtc_read_returns
  <2>1. t # terminal_idx
    <3>1. SUFFICES ASSUME t = terminal_idx PROVE FALSE
      OBVIOUS
    <3>2. Depth > 1
      BY <1>6, NotAlone DEF rtc_read_returns, Running
    <3>3. contexts'[t] = SubSeq(Mine, 1, Depth - 1)
      BY <1>0, <1>6, <3>1 DEF rtc_read_returns, Pop, IInv, TypeOK
    <3>4. /\ Len(SubSeq(Mine, 1, Depth - 1)) = Depth - 1
          /\ \A n \in 1..(Depth - 1) : SubSeq(Mine, 1, Depth - 1)[n] = Mine[n]
      BY <1>0, <3>2, PopFacts
    <3>5. PICK n \in 1..(Depth - 1) : Mine[n].kind = "rtc_read"
      BY <1>1, <3>3, <3>4 DEF Waiting
    <3> QED
      BY <1>6, <3>5, OneReader DEF rtc_read_returns
  <2>2. ~RTC_IR /\ ticked' = [ticked EXCEPT ![terminal_idx] = FALSE]
    BY <1>6 DEF rtc_read_returns
  <2>3. ticked[t]
    BY <1>3, <2>2 DEF Released
  <2> QED
    BY <1>0, <2>1, <2>2, <2>3
<1>7. CASE Execute \/ HaltChild \/ HaltShell \/ Call \/ CallReturns
  BY <1>4, <1>7 DEF Execute, HaltChild, HaltShell, Call, CallReturns
<1>8. CASE \E irq \in Irq : Request(irq) \/ Take(irq) \/ Leave(irq)
  BY <1>4, <1>8 DEF Request, Take, Leave
<1>9. CASE keyboard_handler \/ \E u \in Term : SwitchToRunning(u) \/ SwitchToNew(u)
  BY <1>4, <1>9 DEF keyboard_handler, SwitchToRunning, SwitchToNew
<1> QED
  BY <1>1, <1>2, <1>5, <1>6, <1>7, <1>8, <1>9 DEF Next

\* "return: 0 after the interrupt happens" (rtc.c:120): although one flag serves
\* the readers of all terminals, none returns before the clock's handler ran
\* during its call.
THEOREM ReadersWait == Spec => ReturnsAfterInterrupt
<1>1. Init => IInv /\ Released
  BY InterruptsInit
<1>2. IInv /\ Released /\ [Next]_vars => IInv' /\ Released'
  BY InterruptsStep, ReleasedStep
<1>3. IInv /\ Released /\ [Next]_vars => [rtc_read_returns => ticked[terminal_idx]]_vars
  <2>1. ASSUME IInv, Released, rtc_read_returns PROVE ticked[terminal_idx]
    <3>1. /\ terminal_idx \in Term /\ Mine = contexts[terminal_idx]
          /\ Depth = Len(Mine) /\ Depth \in Nat /\ Depth >= 1 /\ Top = Mine[Depth]
      BY <2>1, MineFacts
    <3>2. ~RTC_IR /\ Top.kind = "rtc_read"
      BY <2>1 DEF rtc_read_returns, Running
    <3>3. Depth \in 1..Len(contexts[terminal_idx])
      BY <3>1
    <3>4. Waiting(terminal_idx)
      BY <3>1, <3>2, <3>3 DEF Waiting
    <3> QED
      BY <2>1, <3>1, <3>2, <3>4 DEF Released
  <2> QED
    BY <2>1
<1> QED
  BY <1>1, <1>2, <1>3, PTL DEF Spec, ReturnsAfterInterrupt

===============================================================================

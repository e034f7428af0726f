-------------------------- MODULE TerminalInputProofs --------------------------
(***************************************************************************)
(* Theorems about TerminalInput: the screen shows the line buffer, and a   *)
(* read returns the line its user entered, for every number of terminals,  *)
(* every length of a row and every buffer a caller may pass, with Enter    *)
(* and Alt+Fn pressed at any time.                                         *)
(*                                                                         *)
(* Both need that Enter is not pressed on a full line: the newline then    *)
(* goes to the next row.  The second rests on two facts.  A line that was  *)
(* entered and not read stands in its terminal's row of terminal_buf,      *)
(* whatever happens on the other terminals; and a read that is intact has  *)
(* copied the beginning of that line (RowsHold).                           *)
(***************************************************************************)
EXTENDS TerminalInput, SequenceTheorems, TLAPS

\* The part of a row that is on the screen.
Visible(t) == IF char_cnt[t] = SIZE THEN SIZE - 1 ELSE char_cnt[t]

EchoInv ==
    /\ TypeOK
    /\ unread \in [Term -> Seq(Byte)] /\ echo \in [Term -> Seq(Byte)]
    /\ \A t \in Term :
        /\ Len(echo[t]) = Visible(t)
        /\ \A k \in 1..Visible(t) : echo[t][k] = line_buf[Cell(t, k - 1)]

\* What the reader of terminal t has copied of the line.
Copied(t, k) == rpc[t] \in {"check", "accept"} \/ (rpc[t] = "copy" /\ k <= i[t])

Whole(t) ==
    /\ t_char_cnt = Len(unread[t]) /\ t_char_cnt > 0
    /\ rpc[t] = "copy" => i[t] <= t_char_cnt
    /\ \A k \in 1..t_char_cnt : Copied(t, k) => buf[t][k - 1] = unread[t][k]

RowsHold ==
    /\ intact \in [Term -> BOOLEAN] /\ t_char_cnt <= SIZE
    /\ \A t \in Term :
        /\ Len(unread[t]) <= SIZE
        /\ \A k \in 1..Len(unread[t]) : terminal_buf[Cell(t, k - 1)] = unread[t][k]
    /\ \A t \in Term : intact[t] => Whole(t)

-----------------------------------------------------------------------------
(* Rows and cells *)

\* Each row ends where the next begins.
LEMMA RowEnd ==
  ASSUME NEW a \in Nat, NEW b \in Nat, a < b, NEW c \in Nat
  PROVE  a * c + c <= b * c
<1>1. PICK d \in Nat : b = a + 1 + d
  <2>1. b - a - 1 \in Nat /\ b = a + 1 + (b - a - 1)
    OBVIOUS
  <2> QED
    BY <2>1
<1>2. b * c = a * c + c + d * c /\ d * c \in Nat /\ a * c \in Nat
  BY <1>1
<1> QED
  BY <1>2

\* The cells of a row, and the one after it, are in the array.
LEMMA CellInArray ==
  ASSUME NEW t \in Term, NEW n \in 0..SIZE
  PROVE  Cell(t, n) \in Cells /\ Cell(t, n) \in Nat
<1>1. t \in Nat /\ TM_MAX \in Nat /\ t < TM_MAX /\ SIZE \in Nat
  BY InputBounds DEF Term
<1>2. t * SIZE + SIZE <= TM_MAX * SIZE
  BY <1>1, RowEnd
<1>3. t * SIZE \in Nat /\ TM_MAX * SIZE \in Nat
  BY <1>1
<1> QED
  BY <1>1, <1>2, <1>3 DEF Cell, Cells

\* A cell belongs to one row only: what is stored from the first cell of row t
\* to its n-th does not reach another row.
LEMMA CellOfRow ==
  ASSUME NEW t \in Term, NEW u \in Term,
         NEW n \in 0..(SIZE - 1), NEW m \in 0..(SIZE - 1)
  PROVE  /\ Cell(u, m) = Cell(t, n) <=> u = t /\ m = n
         /\ Cell(u, m) \in Cell(t, 0)..Cell(t, n) <=> u = t /\ m <= n
<1>1. t \in Nat /\ u \in Nat /\ SIZE \in Nat /\ SIZE >= 1
  BY InputBounds DEF Term
<1>2. PICK a \in Nat : a = t * SIZE
  BY <1>1
<1>3. PICK b \in Nat : b = u * SIZE
  BY <1>1
<1>4. /\ t < u => a + SIZE <= b
      /\ u < t => b + SIZE <= a
      /\ u = t => a = b
  BY <1>1, <1>2, <1>3, RowEnd
<1>5. /\ Cell(t, n) = a + n /\ Cell(t, 0) = a + 0 /\ Cell(u, m) = b + m
  BY <1>2, <1>3 DEF Cell
<1>6. n \in Nat /\ m \in Nat /\ n < SIZE /\ m < SIZE
  BY <1>1
<1> QED
  BY <1>1, <1>4, <1>5, <1>6

-----------------------------------------------------------------------------
(* The screen and the line buffer *)

\* In zeroed memory no line is begun.
LEMMA InputInit ==
  ASSUME Init
  PROVE  EchoInv /\ RowsHold
<1>1. TM_MAX \in Nat \ {0} /\ SIZE \in Nat \ {0} /\ 0 \in Term /\ 1..0 = {}
  BY InputBounds DEF Term
<1>2. line_buf \in [Cells -> Byte] /\ terminal_buf \in [Cells -> Byte]
  BY DEF Init, Byte
<1>3. buf \in [Term -> [BufIndex -> Byte]]
  BY DEF Init, Byte
<1>4. char_cnt \in [Term -> 0..SIZE] /\ t_char_cnt \in 0..(SIZE + 1)
      /\ i \in [Term -> 0..(SIZE + 1)]
      /\ rpc \in [Term -> Reading \cup {"user"}]
  BY <1>1 DEF Init
<1>5. TypeOK
  BY <1>1, <1>2, <1>3, <1>4 DEF Init, TypeOK
<1>6. << >> \in Seq(Byte) /\ Len(<< >>) = 0
  OBVIOUS
<1>7. unread \in [Term -> Seq(Byte)] /\ echo \in [Term -> Seq(Byte)]
  BY <1>6 DEF Init
<1>8. \A t \in Term : Visible(t) = 0 /\ Len(echo[t]) = 0
  BY <1>1, <1>6 DEF Init, Visible
<1>9. EchoInv
  BY <1>1, <1>5, <1>7, <1>8 DEF EchoInv
<1>10. /\ t_char_cnt = 0 /\ intact = [t \in Term |-> FALSE]
       /\ \A t \in Term : unread[t] = << >>
  BY DEF Init
<1>11. RowsHold
  BY <1>1, <1>6, <1>10 DEF RowsHold
<1> QED
  BY <1>9, <1>11

\* The counts stay in the row they count in, whatever keys are pressed.
LEMMA TypeStep ==
  ASSUME TypeOK, [Next]_vars
  PROVE  TypeOK'
<1>0. TM_MAX \in Nat \ {0} /\ SIZE \in Nat \ {0} /\ SIZE - 1 \in Nat
  BY InputBounds
<1>t. /\ now \in Term /\ line_buf \in [Cells -> Byte] /\ char_cnt \in [Term -> 0..SIZE]
      /\ terminal_buf \in [Cells -> Byte] /\ t_char_cnt \in 0..(SIZE + 1)
      /\ rpc \in [Term -> Reading \cup {"user"}] /\ i \in [Term -> 0..(SIZE + 1)]
      /\ buf \in [Term -> [BufIndex -> Byte]]
      /\ count = char_cnt[now] /\ count \in 0..SIZE
  BY DEF TypeOK, now, count
<1>b. NUL \in Byte /\ NL \in Byte /\ FOREIGN \in Byte /\ Char \subseteq Byte
  BY DEF Byte
<1>1. ASSUME NEW c \in Char, KeyChar(c) PROVE TypeOK'
  <2>1. char_cnt' \in [Term -> 0..SIZE]
    BY <1>0, <1>t, <1>1 DEF KeyChar
  <2>2. line_buf' \in [Cells -> Byte]
    BY <1>t, <1>b, <1>1 DEF KeyChar
  <2> QED
    BY <1>t, <1>1, <2>1, <2>2 DEF KeyChar, readVars, TypeOK, now
<1>2. CASE KeyBackspace
  <2>1. char_cnt' \in [Term -> 0..SIZE]
    <3> DEFINE n == IF count = SIZE THEN count - 1 ELSE count
    <3>0. count \in 0..SIZE /\ SIZE \in Nat \ {0}
      BY <1>0, <1>t, Zenon
    <3>1. n \in 0..SIZE /\ (n # 0 => n - 1 \in 0..SIZE)
      BY <3>0
    <3>2. \/ char_cnt' = [char_cnt EXCEPT ![now] = n]
          \/ n # 0 /\ char_cnt' = [char_cnt EXCEPT ![now] = n - 1]
      BY <1>2, Zenon DEF KeyBackspace
    <3> HIDE DEF n
    <3> QED
      BY <1>t, <3>1, <3>2
  <2>2. line_buf' \in [Cells -> Byte]
    BY <1>0, <1>t, <1>b, <1>2 DEF KeyBackspace
  <2>3. UNCHANGED <<terminal_idx, terminal_buf, t_char_cnt, readVars>>
    BY <1>0, <1>t, <1>2 DEF KeyBackspace
  <2> QED
    BY <1>t, <2>1, <2>2, <2>3 DEF readVars, TypeOK, now
<1>3. CASE KeyEnter
  <2>1. char_cnt' \in [Term -> 0..SIZE]
    BY <1>0, <1>t, <1>3 DEF KeyEnter
  <2>2. line_buf' \in [Cells -> Byte]
    BY <1>t, <1>b, <1>3 DEF KeyEnter
  <2>3. terminal_buf' \in [Cells -> Byte]
    BY <1>t, <1>b, <1>3 DEF KeyEnter, Entered
  <2>4. t_char_cnt' \in 0..(SIZE + 1)
    BY <1>0, <1>t, <1>3 DEF KeyEnter
  <2> QED
    BY <1>t, <1>3, <2>1, <2>2, <2>3, <2>4 DEF KeyEnter, readVars, TypeOK, now
<1>4. CASE KeyClear
  <2>1. char_cnt' \in [Term -> 0..SIZE]
    BY <1>0, <1>t, <1>4 DEF KeyClear
  <2>2. line_buf' \in [Cells -> Byte]
    BY <1>t, <1>b, <1>4 DEF KeyClear
  <2> QED
    BY <1>t, <1>4, <2>1, <2>2 DEF KeyClear, readVars, TypeOK, now
<1>5. ASSUME NEW t \in Term, KeySwitch(t) PROVE TypeOK'
  BY <1>t, <1>5 DEF KeySwitch, bufVars, readVars, TypeOK, now
<1>6. ASSUME NEW n \in NBYTES, ReadStart(n) PROVE TypeOK'
  <2>1. buf' \in [Term -> [BufIndex -> Byte]]
    BY <1>t, <1>b, <1>6 DEF ReadStart
  <2>2. rpc' \in [Term -> Reading \cup {"user"}]
    BY <1>t, <1>6 DEF ReadStart, Reading
  <2> QED
    BY <1>t, <1>6, <2>1, <2>2 DEF ReadStart, bufVars, TypeOK, now
<1>7. CASE ReadPoll
  <2>1. rpc' \in [Term -> Reading \cup {"user"}] /\ i' \in [Term -> 0..(SIZE + 1)]
    BY <1>0, <1>t, <1>7 DEF ReadPoll, Reading
  <2> QED
    BY <1>t, <1>7, <2>1 DEF ReadPoll, bufVars, TypeOK, now
<1>8. CASE ReadCopy
  <2>1. i[now] \in Nat /\ i[now] < t_char_cnt
    BY <1>0, <1>t, <1>8 DEF ReadCopy, More
  <2>2. i[now] + 1 \in 0..(SIZE + 1) /\ i[now] \in 0..SIZE
    BY <1>0, <1>t, <2>1
  <2>3. terminal_buf[Cell(now, i[now])] \in Byte
    BY <1>t, <2>2, CellInArray
  <2>4. i' \in [Term -> 0..(SIZE + 1)]
    BY <1>t, <1>8, <2>2 DEF ReadCopy
  <2>5. buf' \in [Term -> [BufIndex -> Byte]]
    BY <1>t, <1>8, <2>3 DEF ReadCopy
  <2> QED
    BY <1>t, <1>8, <2>4, <2>5 DEF ReadCopy, bufVars, TypeOK, now
<1>9. CASE ReadCopied
  <2>1. rpc' \in [Term -> Reading \cup {"user"}] /\ i' \in [Term -> 0..(SIZE + 1)]
    BY <1>0, <1>t, <1>9 DEF ReadCopied, Reading
  <2> QED
    BY <1>t, <1>9, <2>1 DEF ReadCopied, bufVars, TypeOK, now
<1>10. CASE ReadCheck
  <2>1. \E v \in {"accept", "loop"} : rpc' = [rpc EXCEPT ![now] = v]
    BY <1>10 DEF ReadCheck
  <2>2. rpc' \in [Term -> Reading \cup {"user"}]
    BY <1>t, <2>1 DEF Reading
  <2> QED
    BY <1>t, <1>10, <2>2 DEF ReadCheck, bufVars, TypeOK, now
<1>11. CASE ReadReturn
  <2>1. terminal_buf' \in [Cells -> Byte]
    BY <1>t, <1>b, <1>11 DEF ReadReturn
  <2>2. buf' \in [Term -> [BufIndex -> Byte]]
    BY <1>t, <1>b, <1>11 DEF ReadReturn
  <2>3. rpc' \in [Term -> Reading \cup {"user"}] /\ i' \in [Term -> 0..(SIZE + 1)]
        /\ t_char_cnt' \in 0..(SIZE + 1)
    BY <1>0, <1>t, <1>11 DEF ReadReturn
  <2> QED
    BY <1>t, <1>11, <2>1, <2>2, <2>3 DEF ReadReturn, TypeOK, now
<1>12. CASE UNCHANGED vars
  BY <1>12 DEF vars, bufVars, readVars, TypeOK
<1> QED
  BY <1>1, <1>2, <1>3, <1>4, <1>5, <1>6, <1>7, <1>8, <1>9, <1>10, <1>11, <1>12
     DEF Next, Key, Read

\* What the invariant says of one terminal.
LEMMA EchoFacts ==
  ASSUME EchoInv, NEW t \in Term
  PROVE  /\ SIZE \in Nat \ {0} /\ now \in Term /\ count = char_cnt[now]
         /\ char_cnt[t] \in 0..SIZE
         /\ Visible(t) \in 0..(SIZE - 1)
         /\ Visible(t) = IF char_cnt[t] = SIZE THEN SIZE - 1 ELSE char_cnt[t]
         /\ echo[t] \in Seq(Byte) /\ Len(echo[t]) = Visible(t)
         /\ \A k \in 1..Visible(t) : echo[t][k] = line_buf[Cell(t, k - 1)]
<1>1. SIZE \in Nat \ {0}
  BY InputBounds
<1>2. char_cnt[t] \in 0..SIZE /\ now \in Term
  BY DEF EchoInv, TypeOK, now
<1>3. Visible(t) \in 0..(SIZE - 1)
  BY <1>1, <1>2 DEF Visible
<1> QED
  BY <1>1, <1>2, <1>3 DEF EchoInv, Visible, count

\* A step on the displayed terminal that leaves n characters in its row, and
\* shows the line e, keeps the invariant if e is what the row then holds and
\* no other row is touched.
LEMMA EchoChange ==
  ASSUME EchoInv, TypeOK', NEW n \in 0..SIZE, NEW e \in Seq(Byte),
         char_cnt' = [char_cnt EXCEPT ![now] = n],
         echo' = [echo EXCEPT ![now] = e],
         unread' \in [Term -> Seq(Byte)],
         Len(e) = IF n = SIZE THEN SIZE - 1 ELSE n,
         \A k \in 1..Len(e) : e[k] = line_buf'[Cell(now, k - 1)],
         \A t \in Term \ {now} : \A m \in 0..(SIZE - 1) :
            line_buf'[Cell(t, m)] = line_buf[Cell(t, m)]
  PROVE  EchoInv'
<1>1. now \in Term /\ char_cnt \in [Term -> 0..SIZE] /\ echo \in [Term -> Seq(Byte)]
  BY DEF EchoInv, TypeOK, now
<1>2. echo' \in [Term -> Seq(Byte)]
  BY <1>1
<1>3. ASSUME NEW t \in Term
      PROVE  /\ Len(echo'[t]) = Visible(t)'
             /\ \A k \in 1..Visible(t)' : echo'[t][k] = line_buf'[Cell(t, k - 1)]
  <2>1. CASE t = now
    <3>1. echo'[t] = e /\ char_cnt'[t] = n
      BY <1>1, <2>1
    <3> QED
      BY <2>1, <3>1 DEF Visible
  <2>2. CASE t # now
    <3>1. echo'[t] = echo[t] /\ char_cnt'[t] = char_cnt[t]
      BY <1>1, <2>2
    <3>2. Visible(t)' = Visible(t)
      BY <3>1 DEF Visible
    <3>3. /\ SIZE \in Nat /\ Visible(t) \in 0..(SIZE - 1) /\ Len(echo[t]) = Visible(t)
          /\ \A k \in 1..Visible(t) : echo[t][k] = line_buf[Cell(t, k - 1)]
      BY EchoFacts
    <3>4. \A k \in 1..Visible(t) : k - 1 \in 0..(SIZE - 1)
      BY <3>3
    <3>5. \A k \in 1..Visible(t) : line_buf'[Cell(t, k - 1)] = line_buf[Cell(t, k - 1)]
      BY <2>2, <3>4
    <3> QED
      BY <3>1, <3>2, <3>3, <3>5
  <2> QED
    BY <2>1, <2>2
<1> QED
  BY <1>2, <1>3 DEF EchoInv

\* Every step keeps the screen and the line buffer the same.
LEMMA EchoStep ==
  ASSUME ~EnterFull, EchoInv, [Next]_vars
  PROVE  EchoInv'
<1>0. /\ SIZE \in Nat \ {0} /\ now \in Term /\ count = char_cnt[now] /\ count \in 0..SIZE
      /\ Visible(now) \in 0..(SIZE - 1)
      /\ Visible(now) = IF count = SIZE THEN SIZE - 1 ELSE count
      /\ echo[now] \in Seq(Byte) /\ Len(echo[now]) = Visible(now)
      /\ \A k \in 1..Visible(now) : echo[now][k] = line_buf[Cell(now, k - 1)]
  <2>1. now \in Term
    BY DEF EchoInv, TypeOK, now
  <2> QED
    BY <2>1, EchoFacts
<1>1. /\ line_buf \in [Cells -> Byte] /\ echo \in [Term -> Seq(Byte)]
      /\ char_cnt \in [Term -> 0..SIZE] /\ unread \in [Term -> Seq(Byte)]
  BY DEF EchoInv, TypeOK
<1>2. TypeOK'
  BY TypeStep DEF EchoInv
<1>3. ASSUME NEW t \in Term, NEW m \in 0..(SIZE - 1)
      PROVE  Cell(t, m) \in Cells
  <2>1. m \in 0..SIZE
    BY <1>0
  <2> QED
    BY <2>1, CellInArray
<1>4. ASSUME UNCHANGED <<line_buf, char_cnt, echo>>, unread' \in [Term -> Seq(Byte)]
      PROVE  EchoInv'
  <2>1. \A t \in Term : Visible(t)' = Visible(t)
    BY <1>4 DEF Visible
  <2> QED
    BY <1>2, <1>4, <2>1 DEF EchoInv
<1>5. NUL \in Byte /\ NL \in Byte /\ Char \subseteq Byte /\ << >> \in Seq(Byte)
      /\ Len(<< >>) = 0
  BY DEF Byte
<1>6. ASSUME NEW c \in Char, KeyChar(c) PROVE EchoInv'
  <2>1. /\ count < SIZE /\ line_buf' = [line_buf EXCEPT ![Cell(now, count)] = c]
        /\ char_cnt' = [char_cnt EXCEPT ![now] = count + 1]
        /\ echo' = IF count + 1 < SIZE THEN [echo EXCEPT ![now] = Append(@, c)] ELSE echo
        /\ unread' = unread
    BY <1>0, <1>6 DEF KeyChar
  <2>2. count \in 0..(SIZE - 1) /\ count + 1 \in 0..SIZE /\ Visible(now) = count
    BY <1>0, <2>1
  <2>3. \A t \in Term : \A m \in 0..(SIZE - 1) :
            t # now \/ m # count => line_buf'[Cell(t, m)] = line_buf[Cell(t, m)]
    BY <1>0, <1>1, <1>3, <2>1, <2>2, CellOfRow
  <2>4. line_buf'[Cell(now, count)] = c
    BY <1>0, <1>1, <1>3, <2>1, <2>2
  <2>5. CASE count + 1 < SIZE
    <3> DEFINE e == Append(echo[now], c)
    <3>1. /\ e \in Seq(Byte) /\ Len(e) = count + 1 /\ e[count + 1] = c
          /\ \A k \in 1..count : e[k] = echo[now][k]
      BY <1>0, <1>5, <2>2
    <3>2. echo' = [echo EXCEPT ![now] = e]
      BY <2>1, <2>5
    <3> HIDE DEF e
    <3>3. ASSUME NEW k \in 1..Len(e) PROVE e[k] = line_buf'[Cell(now, k - 1)]
      <4>1. CASE k = count + 1
        BY <1>0, <2>4, <3>1, <4>1
      <4>2. CASE k \in 1..count
        <5>1. k - 1 \in 0..(SIZE - 1) /\ k - 1 # count
          BY <1>0, <4>2
        <5> QED
          BY <1>0, <2>2, <2>3, <3>1, <4>2, <5>1
      <4> QED
        BY <1>0, <3>1, <4>1, <4>2
    <3> QED
      <4>1. /\ count + 1 \in 0..SIZE /\ e \in Seq(Byte) /\ unread' \in [Term -> Seq(Byte)]
            /\ Len(e) = IF count + 1 = SIZE THEN SIZE - 1 ELSE count + 1
            /\ \A t \in Term \ {now} : \A m \in 0..(SIZE - 1) :
                    line_buf'[Cell(t, m)] = line_buf[Cell(t, m)]
        BY <1>0, <1>1, <2>1, <2>2, <2>3, <2>5, <3>1
      <4> QED
        BY <1>2, <2>1, <3>2, <3>3, <4>1, EchoChange
  <2>6. CASE ~(count + 1 < SIZE)
    <3>1. echo' = [echo EXCEPT ![now] = echo[now]]
      BY <1>0, <1>1, <2>1, <2>6
    <3>2. count + 1 = SIZE
      BY <1>0, <2>1, <2>6
    <3>3. ASSUME NEW k \in 1..Len(echo[now])
          PROVE  echo[now][k] = line_buf'[Cell(now, k - 1)]
      <4>1. k \in 1..count /\ k - 1 \in 0..(SIZE - 1) /\ k - 1 # count
        BY <1>0, <2>2
      <4> QED
        BY <1>0, <2>2, <2>3, <4>1
    <3> QED
      <4>1. /\ count + 1 \in 0..SIZE /\ echo[now] \in Seq(Byte)
            /\ unread' \in [Term -> Seq(Byte)]
            /\ Len(echo[now]) = IF count + 1 = SIZE THEN SIZE - 1 ELSE count + 1
            /\ \A t \in Term \ {now} : \A m \in 0..(SIZE - 1) :
                    line_buf'[Cell(t, m)] = line_buf[Cell(t, m)]
        BY <1>0, <1>1, <2>1, <2>2, <2>3, <3>2
      <4> QED
        BY <1>2, <2>1, <3>1, <3>3, <4>1, EchoChange
  <2> QED
    BY <2>5, <2>6
<1>7. CASE KeyBackspace
  <2> DEFINE n == IF count = SIZE THEN count - 1 ELSE count
  <2>1. n = Visible(now) /\ n \in 0..(SIZE - 1)
    BY <1>0
  <2>2. CASE n = 0
    <3>1. /\ char_cnt' = [char_cnt EXCEPT ![now] = 0]
          /\ line_buf' = line_buf /\ echo' = echo /\ unread' = unread
      BY <1>7, <2>2 DEF KeyBackspace, histVars
    <3>2. echo' = [echo EXCEPT ![now] = echo[now]] /\ Len(echo[now]) = 0
      BY <1>0, <1>1, <2>1, <2>2, <3>1
    <3> HIDE DEF n
    <3>3. \A k \in 1..Len(echo[now]) : echo[now][k] = line_buf'[Cell(now, k - 1)]
      BY <1>0, <3>1
    <3>4. 0 \in 0..SIZE /\ 0 # SIZE
      BY <1>0
    <3> QED
      BY <1>0, <1>1, <1>2, <3>1, <3>2, <3>3, <3>4, EchoChange
  <2>3. CASE n # 0
    <3>1. /\ line_buf' = [line_buf EXCEPT ![Cell(now, n)] = NUL]
          /\ char_cnt' = [char_cnt EXCEPT ![now] = n - 1]
          /\ echo' = [echo EXCEPT ![now] = SubSeq(@, 1, Len(@) - 1)]
          /\ unread' = unread
      BY <1>7, <2>3 DEF KeyBackspace
    <3> HIDE DEF n
    <3> DEFINE e == SubSeq(echo[now], 1, n - 1)
    <3>2. n - 1 \in 0..SIZE /\ n - 1 # SIZE /\ n - 1 >= 0
      BY <1>0, <2>1, <2>3
    <3>3. echo' = [echo EXCEPT ![now] = e]
      BY <1>0, <2>1, <3>1
    <3>4. /\ e \in Seq(Byte) /\ Len(e) = n - 1
          /\ \A k \in 1..(n - 1) : e[k] = echo[now][k]
      <4>1. \A k \in 1..(n - 1) : k \in 1..Len(echo[now])
        BY <1>0, <2>1
      <4>2. \A k \in 1..(n - 1) : echo[now][k] \in Byte
        BY <1>0, <4>1
      <4> QED
        BY <1>0, <2>1, <3>2, <4>2, SubSeqProperties
    <3> HIDE DEF e
    <3>5. \A t \in Term : \A m \in 0..(SIZE - 1) :
            t # now \/ m # n => line_buf'[Cell(t, m)] = line_buf[Cell(t, m)]
      BY <1>0, <1>1, <1>3, <2>1, <3>1, CellOfRow
    <3>6. ASSUME NEW k \in 1..Len(e) PROVE e[k] = line_buf'[Cell(now, k - 1)]
      <4>1. k \in 1..(n - 1) /\ k \in 1..Visible(now) /\ k - 1 \in 0..(SIZE - 1) /\ k - 1 # n
        BY <1>0, <2>1, <3>2, <3>4
      <4> QED
        BY <1>0, <3>4, <3>5, <4>1
    <3> QED
      <4>1. /\ unread' \in [Term -> Seq(Byte)]
            /\ Len(e) = IF n - 1 = SIZE THEN SIZE - 1 ELSE n - 1
            /\ \A t \in Term \ {now} : \A m \in 0..(SIZE - 1) :
                    line_buf'[Cell(t, m)] = line_buf[Cell(t, m)]
        BY <1>1, <3>1, <3>2, <3>4, <3>5
      <4> QED
        BY <1>2, <3>1, <3>2, <3>3, <3>4, <3>6, <4>1, EchoChange
  <2> QED
    BY <2>2, <2>3
<1>8. CASE KeyEnter
  <2>1. /\ count \in 0..(SIZE - 1)
        /\ line_buf' = [c \in Cells |->
            IF c \in Cell(now, 0)..Cell(now, count) THEN NUL ELSE line_buf[c]]
        /\ char_cnt' = [char_cnt EXCEPT ![now] = 0]
        /\ echo' = [echo EXCEPT ![now] = << >>]
        /\ unread' = [unread EXCEPT ![now] = Append(echo[now], NL)]
    BY ~EnterFull, <1>0, <1>8 DEF KeyEnter
  <2>2. unread' \in [Term -> Seq(Byte)]
    <3>1. Append(echo[now], NL) \in Seq(Byte)
      BY <1>0, <1>5
    <3> QED
      BY <1>0, <1>1, <2>1, <3>1
  <2>3. \A t \in Term \ {now} : \A m \in 0..(SIZE - 1) :
            line_buf'[Cell(t, m)] = line_buf[Cell(t, m)]
    BY <1>0, <1>3, <2>1, CellOfRow
  <2>4. 0 \in 0..SIZE /\ 0 # SIZE /\ 1..0 = {}
    BY <1>0
  <2> QED
    <3>1. /\ Len(<< >>) = IF 0 = SIZE THEN SIZE - 1 ELSE 0
          /\ \A k \in 1..Len(<< >>) : << >>[k] = line_buf'[Cell(now, k - 1)]
      BY <1>5, <2>4
    <3> QED
      BY <1>2, <1>5, <2>1, <2>2, <2>3, <2>4, <3>1, EchoChange
<1>9. CASE KeyClear
  <2> DEFINE n == IF count < SIZE THEN count + 1 ELSE count
  <2>1. /\ line_buf' = [c \in Cells |->
            IF c \in Cell(now, 0)..Cell(now, n - 1) THEN NUL ELSE line_buf[c]]
        /\ char_cnt' = [char_cnt EXCEPT ![now] = 0]
        /\ echo' = [echo EXCEPT ![now] = << >>]
        /\ unread' = unread
    BY <1>9 DEF KeyClear
  <2>2. n - 1 \in 0..(SIZE - 1)
    BY <1>0
  <2> HIDE DEF n
  <2>3. \A t \in Term \ {now} : \A m \in 0..(SIZE - 1) :
            line_buf'[Cell(t, m)] = line_buf[Cell(t, m)]
    BY <1>0, <1>3, <2>1, <2>2, CellOfRow
  <2>4. 0 \in 0..SIZE /\ 0 # SIZE /\ 1..0 = {}
    BY <1>0
  <2> QED
    <3>1. /\ Len(<< >>) = IF 0 = SIZE THEN SIZE - 1 ELSE 0
          /\ \A k \in 1..Len(<< >>) : << >>[k] = line_buf'[Cell(now, k - 1)]
          /\ unread' \in [Term -> Seq(Byte)]
      BY <1>1, <1>5, <2>1, <2>4
    <3> QED
      BY <1>2, <1>5, <2>1, <2>3, <2>4, <3>1, EchoChange
<1>10. CASE \E t \in Term : KeySwitch(t)
  BY <1>1, <1>4, <1>10 DEF KeySwitch, bufVars, histVars
<1>11. CASE (\E n \in NBYTES : ReadStart(n)) \/ ReadPoll \/ ReadCopy \/ ReadCopied \/ ReadCheck
  BY <1>1, <1>4, <1>11
     DEF ReadStart, ReadPoll, ReadCopy, ReadCopied, ReadCheck, bufVars, histVars
<1>12. CASE ReadReturn
  <2>1. unread' \in [Term -> Seq(Byte)]
    BY <1>1, <1>5, <1>12 DEF ReadReturn
  <2> QED
    BY <1>4, <1>12, <2>1 DEF ReadReturn
<1>13. CASE UNCHANGED vars
  BY <1>1, <1>4, <1>13 DEF vars, bufVars, histVars
<1> QED
  BY <1>6, <1>7, <1>8, <1>9, <1>10, <1>11, <1>12, <1>13 DEF Next, Key, Read

\* The invariant is the property.
LEMMA EchoShown ==
  ASSUME EchoInv
  PROVE  EchoIsLine
<1>1. ASSUME NEW t \in Term
      PROVE  Row(line_buf, t, Visible(t)) = echo[t]
  <2>1. /\ Visible(t) \in Nat /\ echo[t] \in Seq(Byte) /\ Len(echo[t]) = Visible(t)
        /\ \A k \in 1..Visible(t) : echo[t][k] = line_buf[Cell(t, k - 1)]
    BY EchoFacts
  <2>2. echo[t] = [k \in 1..Visible(t) |-> echo[t][k]]
    BY <2>1
  <2> QED
    BY <2>1, <2>2 DEF Row
<1> QED
  BY <1>1 DEF EchoInv, EchoIsLine, Visible

\* What is on the screen of a terminal is what its line buffer holds, as long
\* as Enter is not pressed on a full line.
THEOREM ScreenShowsLine ==
  ASSUME ~EnterFull
  PROVE  Spec => []EchoIsLine
<1>1. Init => EchoInv
  BY InputInit
<1>2. EchoInv /\ [Next]_vars => EchoInv'
  BY ~EnterFull, EchoStep
<1>3. EchoInv => EchoIsLine
  BY EchoShown
<1> QED
  BY <1>1, <1>2, <1>3, PTL DEF Spec

-----------------------------------------------------------------------------
(* The reader *)

\* A step that leaves the rows, the count and the readers alone keeps the
\* invariant: any key but Enter, Alt+Fn among them.
LEMMA LinesKept ==
  ASSUME RowsHold, UNCHANGED <<terminal_buf, t_char_cnt, readVars, unread, intact>>
  PROVE  RowsHold'
<1>1. rpc' = rpc /\ i' = i /\ buf' = buf
  BY DEF readVars
<1>2. \A t \in Term : Whole(t) => Whole(t)'
  BY <1>1 DEF Whole, Copied
<1>3. intact' \in [Term -> BOOLEAN] /\ \A t \in Term : intact'[t] = intact[t]
  BY Zenon DEF RowsHold
<1>4. \A t \in Term : intact'[t] => Whole(t)'
  BY <1>2, <1>3, Zenon DEF RowsHold
<1>5. \A t \in Term : \A k : Cell(t, k)' = Cell(t, k)
  BY DEF Cell
<1> QED
  BY <1>3, <1>4, <1>5 DEF RowsHold

\* A step of the displayed terminal's reader that leaves the rows alone keeps
\* the invariant if the read, should it be intact afterwards, is then whole.
LEMMA ReaderMoves ==
  ASSUME EchoInv, RowsHold, TypeOK', NEW t \in Term,
         UNCHANGED <<terminal_buf, t_char_cnt, unread>>,
         \A u \in Term \ {t} : rpc'[u] = rpc[u] /\ i'[u] = i[u] /\ buf'[u] = buf[u],
         intact' \in [Term -> BOOLEAN],
         \A u \in Term \ {t} : intact'[u] = intact[u],
         intact'[t] => Whole(t)'
  PROVE  RowsHold'
<1>1. \A u \in Term \ {t} : Whole(u) => Whole(u)'
  BY DEF Whole, Copied
<1>2. \A u \in Term : intact'[u] => Whole(u)'
  BY <1>1, Zenon DEF RowsHold
<1>3. \A u \in Term : \A k : Cell(u, k)' = Cell(u, k)
  BY DEF Cell
<1> QED
  BY <1>2, <1>3 DEF RowsHold

\* Enter writes the line it enters to the row of its terminal, and to no other.
LEMMA EnterFillsRow ==
  ASSUME ~EnterFull, EchoInv, RowsHold, KeyEnter
  PROVE  RowsHold'
<1>0. /\ SIZE \in Nat \ {0} /\ now \in Term /\ count = char_cnt[now] /\ count \in 0..SIZE
      /\ terminal_buf \in [Cells -> Byte] /\ unread \in [Term -> Seq(Byte)]
  BY InputBounds DEF EchoInv, TypeOK, now, count
<1>1. /\ count \in 0..(SIZE - 1)
      /\ terminal_buf' = [c \in Cells |-> Entered(c)]
      /\ t_char_cnt' = count + 1
      /\ unread' = [unread EXCEPT ![now] = Append(echo[now], NL)]
  BY ~EnterFull, <1>0 DEF KeyEnter
<1>2. intact' = [t \in Term |-> FALSE]
  BY DEF KeyEnter
<1>3. /\ echo[now] \in Seq(Byte) /\ Len(echo[now]) = count
      /\ \A k \in 1..count : echo[now][k] = line_buf[Cell(now, k - 1)]
  <2>1. /\ Visible(now) = IF count = SIZE THEN SIZE - 1 ELSE count
        /\ echo[now] \in Seq(Byte) /\ Len(echo[now]) = Visible(now)
        /\ \A k \in 1..Visible(now) : echo[now][k] = line_buf[Cell(now, k - 1)]
    BY <1>0, EchoFacts
  <2>2. Visible(now) = count
    BY <1>0, <1>1, <2>1
  <2> QED
    BY <2>1, <2>2
<1>4. /\ Append(echo[now], NL) \in Seq(Byte) /\ Len(Append(echo[now], NL)) = count + 1
      /\ Append(echo[now], NL)[count + 1] = NL
      /\ \A k \in 1..count : Append(echo[now], NL)[k] = echo[now][k]
  <2>1. NL \in Byte
    BY DEF Byte
  <2> QED
    BY <1>1, <1>3, <2>1
<1>5. unread'[now] = Append(echo[now], NL) /\ \A t \in Term : t # now => unread'[t] = unread[t]
  BY <1>0, <1>1
<1>6. ASSUME NEW k \in 1..(count + 1)
      PROVE  terminal_buf'[Cell(now, k - 1)] = unread'[now][k]
  <2>1. k - 1 \in 0..(SIZE - 1) /\ k - 1 \in 0..SIZE
    BY <1>0, <1>1
  <2>2. Cell(now, k - 1) \in Cells
    BY <1>0, <2>1, CellInArray
  <2>3. terminal_buf'[Cell(now, k - 1)] = Entered(Cell(now, k - 1))
    BY <1>1, <2>2
  <2>4. CASE k = count + 1
    <3>1. k - 1 = count
      BY <1>1, <2>4
    <3> QED
      BY <1>4, <1>5, <2>3, <2>4, <3>1 DEF Entered
  <2>5. CASE k \in 1..count
    <3>1. PICK m \in 0..(SIZE - 1) : m = k - 1
      BY <2>1
    <3>2. m # count /\ m <= count
      BY <1>0, <2>5, <3>1
    <3>3. Cell(now, k - 1) # Cell(now, count)
          /\ Cell(now, k - 1) \in Cell(now, 0)..Cell(now, count)
      <4>1. Cell(now, m) # Cell(now, count)
            /\ Cell(now, m) \in Cell(now, 0)..Cell(now, count)
        BY <1>0, <1>1, <3>2, CellOfRow
      <4> QED
        BY <3>1, <4>1
    <3> QED
      BY <1>3, <1>4, <1>5, <2>3, <2>5, <3>3 DEF Entered
  <2>6. count \in Nat /\ (k = count + 1 \/ k \in 1..count)
    BY <1>0, <1>1
  <2> QED
    BY <2>4, <2>5, <2>6
<1>7. ASSUME NEW t \in Term, t # now, NEW k \in 1..Len(unread[t])
      PROVE  terminal_buf'[Cell(t, k - 1)] = unread'[t][k]
  <2>1. PICK e \in Nat : e = Len(unread[t])
    BY <1>0, Zenon, LenProperties
  <2>2. e <= SIZE /\ terminal_buf[Cell(t, k - 1)] = unread[t][k]
    BY <2>1 DEF RowsHold
  <2>3. PICK m \in 0..(SIZE - 1) : m = k - 1
    <3>1. k \in 1..e
      BY <2>1, Zenon
    <3> QED
      BY <1>0, <2>2, <3>1
  <2>4. Cell(t, m) \in Cells
    <3>1. m \in 0..SIZE
      BY <1>0
    <3> QED
      BY <3>1, CellInArray
  <2>5. Cell(t, m) # Cell(now, count) /\ Cell(t, m) \notin Cell(now, 0)..Cell(now, count)
    BY <1>0, <1>1, <1>7, CellOfRow
  <2>6. terminal_buf'[Cell(t, m)] = terminal_buf[Cell(t, m)]
    BY <1>1, <2>4, <2>5 DEF Entered
  <2> QED
    BY <1>5, <1>7, <2>2, <2>3, <2>6
<1>8. ASSUME NEW t \in Term
      PROVE  /\ Len(unread'[t]) <= SIZE
             /\ \A k \in 1..Len(unread'[t]) : terminal_buf'[Cell(t, k - 1)'] = unread'[t][k]
  <2>1. \A k : Cell(t, k)' = Cell(t, k)
    BY DEF Cell
  <2>2. CASE t = now
    <3>1. Len(unread'[t]) = count + 1
      BY <1>4, <1>5, <2>2
    <3>2. \A k \in 1..(count + 1) : terminal_buf'[Cell(t, k - 1)] = unread'[t][k]
      BY <1>6, <2>2
    <3>3. count + 1 <= SIZE
      BY <1>0, <1>1
    <3> QED
      BY <2>1, <3>1, <3>2, <3>3
  <2>3. CASE t # now
    <3>1. Len(unread[t]) <= SIZE /\ unread'[t] = unread[t]
      BY <1>5, <2>3 DEF RowsHold
    <3> QED
      BY <1>7, <2>1, <2>3, <3>1
  <2> QED
    BY <2>2, <2>3
<1>9. intact' \in [Term -> BOOLEAN] /\ \A t \in Term : ~intact'[t]
  BY <1>2
<1>10. t_char_cnt' <= SIZE
  BY <1>0, <1>1
<1> QED
  BY <1>8, <1>9, <1>10 DEF RowsHold

\* A read that returns clears bytes of its own row only.
LEMMA ReturnClearsRow ==
  ASSUME EchoInv, RowsHold, ReadReturn
  PROVE  RowsHold'
<1>0. /\ SIZE \in Nat \ {0} /\ now \in Term
      /\ terminal_buf \in [Cells -> Byte] /\ unread \in [Term -> Seq(Byte)]
      /\ t_char_cnt \in 0..SIZE
  BY InputBounds DEF EchoInv, TypeOK, now, RowsHold
<1>1. /\ terminal_buf' = [c \in Cells |->
            IF c \in Cell(now, 0)..Cell(now, t_char_cnt - 1) THEN NUL ELSE terminal_buf[c]]
      /\ t_char_cnt' = 0
      /\ unread' = [unread EXCEPT ![now] = << >>]
  BY DEF ReadReturn
<1>2. intact' = [t \in Term |-> FALSE]
  BY DEF ReadReturn
<1>3. ASSUME NEW t \in Term, t # now, NEW k \in 1..Len(unread[t])
      PROVE  terminal_buf'[Cell(t, k - 1)] = unread[t][k]
  <2>1. PICK e \in Nat : e = Len(unread[t])
    BY <1>0, Zenon, LenProperties
  <2>2. e <= SIZE /\ terminal_buf[Cell(t, k - 1)] = unread[t][k]
    BY <2>1 DEF RowsHold
  <2>3. PICK m \in 0..(SIZE - 1) : m = k - 1
    <3>1. k \in 1..e
      BY <2>1, Zenon
    <3> QED
      BY <1>0, <2>2, <3>1
  <2>4. Cell(t, m) \in Cells
    <3>1. m \in 0..SIZE
      BY <1>0
    <3> QED
      BY <3>1, CellInArray
  <2>5. Cell(t, m) \notin Cell(now, 0)..Cell(now, t_char_cnt - 1)
    <3>1. CASE t_char_cnt = 0
      <4>1. PICK a \in Nat : a = now * SIZE
        BY <1>0 DEF Term
      <4>2. Cell(now, 0) = a + 0 /\ Cell(now, t_char_cnt - 1) = a + (0 - 1)
        BY <3>1, <4>1 DEF Cell
      <4> QED
        BY <4>1, <4>2
    <3>2. CASE t_char_cnt # 0
      <4>1. t_char_cnt - 1 \in 0..(SIZE - 1)
        BY <1>0, <3>2
      <4> QED
        BY <1>0, <1>3, <4>1, CellOfRow
    <3> QED
      BY <3>1, <3>2
  <2>6. terminal_buf'[Cell(t, m)] = terminal_buf[Cell(t, m)]
    BY <1>1, <2>4, <2>5
  <2> QED
    BY <2>2, <2>3, <2>6
<1>4. ASSUME NEW t \in Term
      PROVE  /\ Len(unread'[t]) <= SIZE
             /\ \A k \in 1..Len(unread'[t]) : terminal_buf'[Cell(t, k - 1)'] = unread'[t][k]
  <2>1. \A k : Cell(t, k)' = Cell(t, k)
    BY DEF Cell
  <2>2. CASE t = now
    <3>1. unread'[t] = << >> /\ Len(<< >>) = 0 /\ 1..0 = {}
      BY <1>0, <1>1, <2>2
    <3> QED
      BY <1>0, <3>1
  <2>3. CASE t # now
    <3>1. Len(unread[t]) <= SIZE /\ unread'[t] = unread[t]
      BY <1>0, <1>1, <2>3 DEF RowsHold
    <3> QED
      BY <1>3, <2>1, <2>3, <3>1
  <2> QED
    BY <2>2, <2>3
<1>5. intact' \in [Term -> BOOLEAN] /\ \A t \in Term : ~intact'[t]
  BY <1>2
<1> QED
  BY <1>0, <1>1, <1>4, <1>5 DEF RowsHold

\* Whatever is pressed and whoever reads, the rows hold the lines, and an intact
\* read has copied the beginning of its own.
LEMMA RowsStep ==
  ASSUME ~EnterFull, EchoInv, RowsHold, [Next]_vars
  PROVE  RowsHold'
<1>0. /\ SIZE \in Nat \ {0} /\ now \in Term /\ t_char_cnt \in 0..SIZE
      /\ unread \in [Term -> Seq(Byte)]
      /\ rpc \in [Term -> Reading \cup {"user"}] /\ i \in [Term -> 0..(SIZE + 1)]
      /\ buf \in [Term -> [BufIndex -> Byte]] /\ i[now] \in 0..(SIZE + 1)
  BY InputBounds DEF EchoInv, TypeOK, now, RowsHold
<1>b. intact \in [Term -> BOOLEAN] /\ (intact[now] => Whole(now))
  BY <1>0, Zenon DEF RowsHold
<1>t. TypeOK'
  BY TypeStep DEF EchoInv
<1>me. PICK me \in Term : me = now
  BY <1>0
<1>1. CASE (\E c \in Char : KeyChar(c)) \/ KeyClear \/ \E t \in Term : KeySwitch(t)
  BY <1>1, LinesKept DEF KeyChar, KeyClear, KeySwitch, bufVars, histVars
<1>2. CASE KeyBackspace
  <2> DEFINE n == IF count = SIZE THEN count - 1 ELSE count
  <2>1. UNCHANGED <<terminal_buf, t_char_cnt, readVars, unread, intact>>
    <3>1. CASE n = 0
      BY <1>2, <3>1 DEF KeyBackspace, histVars
    <3>2. CASE n # 0
      BY <1>2, <3>2 DEF KeyBackspace
    <3> QED
      BY <3>1, <3>2
  <2> QED
    BY <2>1, LinesKept
<1>3. CASE KeyEnter
  BY <1>3, ~EnterFull, EnterFillsRow
<1>4. CASE UNCHANGED vars
  BY <1>4, LinesKept DEF vars, bufVars, histVars
<1>5. ASSUME NEW n \in NBYTES, ReadStart(n) PROVE RowsHold'
  <2>1. /\ rpc' = [rpc EXCEPT ![me] = "loop"] /\ i' = i
        /\ \A u \in Term \ {me} : buf'[u] = buf[u]
        /\ UNCHANGED <<terminal_buf, t_char_cnt, unread>>
    BY <1>0, <1>me, <1>5 DEF ReadStart, bufVars, histVars
  <2>2. intact' = intact
    BY <1>5 DEF ReadStart, histVars
  <2>3. rpc'[me] = "loop" /\ \A u \in Term \ {me} : rpc'[u] = rpc[u]
    BY <1>0, <1>me, <2>1
  <2>4. Whole(me) => Whole(me)'
    BY <2>1, <2>3 DEF Whole, Copied
  <2>5. intact'[me] => Whole(me)'
    BY <1>b, <1>me, <2>2, <2>4, Zenon
  <2> QED
    BY <1>0, <1>me, <1>b, <1>t, <2>1, <2>2, <2>3, <2>5, ReaderMoves
<1>6. CASE ReadPoll
  <2>1. /\ rpc' = [rpc EXCEPT ![me] = "copy"] /\ i' = [i EXCEPT ![me] = 0] /\ buf' = buf
        /\ UNCHANGED <<terminal_buf, t_char_cnt, unread>> /\ t_char_cnt > 0
    BY <1>me, <1>6 DEF ReadPoll, bufVars
  <2>2. intact' = [intact EXCEPT ![me] = Counted(me)] /\ Counted(me) \in BOOLEAN
    BY <1>me, <1>6 DEF ReadPoll, Counted
  <2>3. /\ rpc'[me] = "copy" /\ i'[me] = 0
        /\ \A u \in Term \ {me} : rpc'[u] = rpc[u] /\ i'[u] = i[u]
    BY <1>0, <1>me, <2>1
  <2>4. /\ intact' \in [Term -> BOOLEAN] /\ intact'[me] = Counted(me)
        /\ \A u \in Term \ {me} : intact'[u] = intact[u]
    BY <1>0, <1>me, <1>b, <2>2, Zenon
  <2>5. Counted(me) => Whole(me)'
    <3> SUFFICES ASSUME Counted(me) PROVE Whole(me)'
      OBVIOUS
    <3>1. t_char_cnt' = Len(unread'[me]) /\ t_char_cnt' > 0 /\ i'[me] <= t_char_cnt'
      BY <1>0, <1>me, <2>1, <2>3 DEF Counted
    <3>2. \A k \in 1..t_char_cnt' : ~Copied(me, k)'
      BY <2>3 DEF Copied
    <3> QED
      BY <3>1, <3>2 DEF Whole
  <2>6. intact'[me] => Whole(me)'
    BY <2>4, <2>5, Zenon
  <2> QED
    BY <1>0, <1>me, <1>t, <2>1, <2>3, <2>4, <2>6, ReaderMoves
<1>7. CASE ReadCopy
  <2> DEFINE k == i[me]
  <2>1. /\ rpc[me] = "copy" /\ k < t_char_cnt /\ k \in BufIndex /\ rpc' = rpc
        /\ buf' = [buf EXCEPT ![me][k] = terminal_buf[Cell(me, k)]]
        /\ i' = [i EXCEPT ![me] = k + 1]
        /\ UNCHANGED <<terminal_buf, t_char_cnt, unread>>
    BY <1>0, <1>me, <1>7 DEF ReadCopy, More, bufVars, histVars, BufIndex
  <2>2. intact' = intact
    BY <1>me, <1>7 DEF ReadCopy, histVars
  <2>3. /\ i'[me] = k + 1 /\ buf'[me][k] = terminal_buf[Cell(me, k)]
        /\ \A m \in BufIndex : m # k => buf'[me][m] = buf[me][m]
        /\ \A t \in Term \ {me} : buf'[t] = buf[t] /\ i'[t] = i[t]
    BY <1>0, <1>me, <2>1
  <2>4. ASSUME Whole(me) PROVE Whole(me)'
    <3>1. t_char_cnt = Len(unread[me])
      BY <2>4 DEF Whole
    <3>2. k + 1 \in 1..t_char_cnt /\ (k + 1) - 1 = k
      BY <1>0, <1>me, <2>1
    <3>3. terminal_buf[Cell(me, k)] = unread[me][k + 1]
      BY <1>0, <1>me, <3>1, <3>2 DEF RowsHold
    <3>4. ASSUME NEW m \in 1..t_char_cnt, m <= k + 1
          PROVE  buf'[me][m - 1] = unread[me][m]
      <4>1. CASE m = k + 1
        BY <2>3, <3>2, <3>3, <4>1
      <4>2. CASE m <= k
        <5>1. m - 1 \in BufIndex /\ m - 1 # k
          BY <1>0, <1>me, <4>2 DEF BufIndex
        <5>2. Copied(me, m)
          BY <2>1, <4>2 DEF Copied
        <5> QED
          BY <2>3, <2>4, <5>1, <5>2 DEF Whole
      <4> QED
        BY <1>0, <1>me, <3>4, <4>1, <4>2
    <3>5. i'[me] <= t_char_cnt /\ t_char_cnt > 0
      BY <1>0, <1>me, <2>1, <2>3
    <3> HIDE DEF k
    <3>6. \A m \in 1..t_char_cnt : Copied(me, m)' => m <= k + 1
      BY <2>1, <2>3 DEF Copied
    <3> QED
      BY <2>1, <3>1, <3>4, <3>5, <3>6 DEF Whole
  <2>5. intact'[me] => Whole(me)'
    BY <1>b, <1>me, <2>2, <2>4, Zenon
  <2> HIDE DEF k
  <2> QED
    BY <1>0, <1>me, <1>b, <1>t, <2>1, <2>2, <2>3, <2>5, ReaderMoves
<1>8. CASE ReadCopied
  <2>1. /\ rpc[me] = "copy" /\ ~More(i[me])
        /\ rpc' = [rpc EXCEPT ![me] = "check"] /\ i' = [i EXCEPT ![me] = 0]
        /\ UNCHANGED <<terminal_buf, t_char_cnt, unread, buf>>
    BY <1>me, <1>8 DEF ReadCopied, bufVars, histVars
  <2>2. intact' = intact
    BY <1>me, <1>8 DEF ReadCopied, histVars
  <2>3. i[me] >= t_char_cnt
    BY <1>0, <1>me, <2>1 DEF More
  <2>4. rpc'[me] = "check" /\ \A u \in Term \ {me} : rpc'[u] = rpc[u] /\ i'[u] = i[u]
    BY <1>0, <1>me, <2>1
  <2>5. \A k \in 1..t_char_cnt : Copied(me, k)
    BY <1>0, <1>me, <2>1, <2>3 DEF Copied
  <2>6. Whole(me) => Whole(me)'
    BY <2>1, <2>4, <2>5 DEF Whole
  <2>7. intact'[me] => Whole(me)'
    BY <1>b, <1>me, <2>2, <2>6, Zenon
  <2> QED
    BY <1>0, <1>me, <1>b, <1>t, <2>1, <2>2, <2>4, <2>7, ReaderMoves
<1>9. CASE ReadCheck
  <2>1. rpc[me] = "check" /\ UNCHANGED <<terminal_buf, t_char_cnt, unread, i, buf>>
    BY <1>me, <1>9 DEF ReadCheck, bufVars
  <2>2. CASE rpc' = [rpc EXCEPT ![me] = "accept"] /\ intact' = intact
    <3>1. rpc'[me] = "accept" /\ \A u \in Term \ {me} : rpc'[u] = rpc[u]
      BY <1>0, <1>me, <2>2
    <3>2. \A k \in 1..t_char_cnt : Copied(me, k)
      BY <2>1 DEF Copied
    <3>3. Whole(me) => Whole(me)'
      BY <2>1, <3>1, <3>2 DEF Whole
    <3>4. intact'[me] => Whole(me)'
      BY <1>b, <1>me, <2>2, <3>3, Zenon
    <3> QED
      BY <1>0, <1>me, <1>b, <1>t, <2>1, <2>2, <3>1, <3>4, ReaderMoves
  <2>3. CASE /\ rpc' = [rpc EXCEPT ![me] = "loop"]
             /\ intact' = [intact EXCEPT ![me] = FALSE]
    <3>1. \A u \in Term \ {me} : rpc'[u] = rpc[u]
      BY <1>0, <1>me, <2>3
    <3>2. /\ intact' \in [Term -> BOOLEAN] /\ ~intact'[me]
          /\ \A u \in Term \ {me} : intact'[u] = intact[u]
      BY <1>0, <1>me, <1>b, <2>3, Zenon
    <3> QED
      BY <1>0, <1>me, <1>t, <2>1, <3>1, <3>2, ReaderMoves
  <2>4. \/ rpc' = [rpc EXCEPT ![now] = "accept"] /\ intact' = intact
        \/ /\ rpc' = [rpc EXCEPT ![now] = "loop"]
           /\ intact' = [intact EXCEPT ![now] = FALSE]
    BY <1>9, Zenon DEF ReadCheck
  <2> QED
    BY <1>me, <2>2, <2>3, <2>4
<1>10. CASE ReadReturn
  BY <1>10, ReturnClearsRow
<1> QED
  BY <1>1, <1>2, <1>3, <1>4, <1>5, <1>6, <1>7, <1>8, <1>9, <1>10 DEF Next, Key, Read

\* What a read returns is the line that its own user entered last, whole and
\* with its length, whatever nbytes the caller gives, whatever was typed ahead
\* and whoever spins on the count: unless between line 318 and the return Enter
\* is pressed or another read returns.
THEOREM ReadsLine ==
  ASSUME ~EnterFull
  PROVE  Spec => ReadsWholeLine
<1>1. Init => EchoInv /\ RowsHold
  BY InputInit
<1>2. EchoInv /\ RowsHold /\ [Next]_vars => EchoInv' /\ RowsHold'
  BY ~EnterFull, EchoStep, RowsStep
<1>3. EchoInv /\ RowsHold /\ [Next]_vars
        => [\A t \in Term : rpc[t] = "accept" /\ rpc'[t] = "user" /\ intact[t] =>
                /\ unread[t] # << >> /\ t_char_cnt = Len(unread[t])
                /\ \A k \in 1..t_char_cnt : buf[t][k - 1] = unread[t][k]]_vars
  <2>1. ASSUME EchoInv, RowsHold, NEW t \in Term, rpc[t] = "accept", intact[t]
        PROVE  /\ unread[t] # << >> /\ t_char_cnt = Len(unread[t])
               /\ \A k \in 1..t_char_cnt : buf[t][k - 1] = unread[t][k]
    <3>1. Whole(t)
      BY <2>1, Zenon DEF RowsHold
    <3>2. Len(<< >>) = 0 /\ ~(0 > 0)
      OBVIOUS
    <3> QED
      BY <2>1, <3>1, <3>2 DEF Whole, Copied
  <2> QED
    BY <2>1
<1> QED
  BY <1>1, <1>2, <1>3, PTL DEF Spec, ReadsWholeLine

===============================================================================

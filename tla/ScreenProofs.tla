----------------------------- MODULE ScreenProofs -----------------------------
(***************************************************************************)
(* Theorems about Screen, for every size of the screen, when keys arrive   *)
(* between the bytes of a program's output and not inside an iteration     *)
(* (~Split), and nothing but a character, backspace or Ctrl+L is added     *)
(* below the last row (Tidy).                                              *)
(*                                                                         *)
(* Each terminal has a cell that its next character belongs to, NextCell:  *)
(* the one under its cursor, except between the statements that move the   *)
(* cursor.  The line stands before that cell and nothing stands behind it  *)
(* (Sound), at every statement; each statement moves the cursor, the page  *)
(* or the program counter so that this stays true.                         *)
(***************************************************************************)
EXTENDS Screen, SequenceTheorems, TLAPS

Screens == [page : Page, x : 0..COLS, y : 0..ROWS]

\* The line stands before cell p, and nothing on the screen from p on.
Sound(page, p, line) ==
    /\ Len(line) <= p /\ p <= COLS * ROWS
    /\ \A k \in 1..Len(line) : page[p - k] = line[Len(line) + 1 - k]
    /\ \A c \in Cells : p <= c /\ c < COLS * ROWS => page[c] = BLANK

MovesX == {"load_x", "store_x"}             \* the character is put, x not moved
MovesY == {"load_y", "store_y", "home"}     \* the row is done, y not moved

NextCell(s, at) ==
    IF at \in MovesX THEN Pos(s) + 1
    ELSE IF at \in MovesY THEN COLS * s.y + COLS
    ELSE Pos(s)

OnScreen(s) == s.x \in 0..(COLS - 1) /\ s.y \in 0..(ROWS - 1)
BelowEnd(s) == s.x = 0 /\ s.y = ROWS

\* The cursor of screen s, whose program is at a statement of terminal_write
\* with byte b, register r and container.
Cursor(s, at, b, r, kept) ==
    /\ at \in Rest \cup {"bottom"} => OnScreen(s) \/ BelowEnd(s)
    /\ at \in {"put", "load_x", "store_x", "load_y", "store_y"} => OnScreen(s)
    /\ at = "put" => b \in Text
    /\ at = "store_x" => r = s.x + 1
    /\ at = "wrap" => s.x \in 1..COLS /\ s.y \in 0..(ROWS - 1)
    /\ at \in {"load_y", "store_y"} => s.x = 0 \/ b = NL
    /\ at = "store_y" => r = s.y + 1
    /\ at = "restore" => BelowEnd(s) /\ kept = s.page
    /\ at = "home" => s.x = 0 /\ s.y = ROWS - 2

Fine(s, at, b, r, kept, line) ==
    /\ s \in Screens
    /\ line \in Seq(Text) /\ Len(line) <= KEEP
    /\ Cursor(s, at, b, r, kept)
    /\ Sound(s.page, NextCell(s, at), line)

ScreenInv ==
    /\ terminal_idx \in Term
    /\ screen \in Screens /\ saved \in [Term -> Screens]
    /\ char_cnt \in [Term -> 0..LINE]
    /\ wpc \in [Term -> Rest \cup Lines]
    /\ byte \in [Term -> Text \cup {NL, END}]
    /\ reg \in [Term -> 0..(COLS + ROWS)]
    /\ container \in [Term -> Page]
    /\ shown \in [Term -> Seq(Text)]
    /\ \A t \in Term : t # now => wpc[t] \in Rest
    /\ \A t \in Term :
        Fine(ScreenOf(t), wpc[t], byte[t], reg[t], container[t], shown[t])

-----------------------------------------------------------------------------
(* Cells and rows *)

\* The screen in numbers: N cells, rows of COLS, a page a little longer.
LEMMA Sizes ==
  /\ COLS \in Nat /\ COLS > 1 /\ ROWS \in Nat /\ ROWS > 1 /\ KEEP = COLS
  /\ COLS * ROWS \in Nat /\ PAGE \in Nat /\ COLS * ROWS < PAGE
  /\ COLS * (ROWS - 1) = COLS * ROWS - COLS
  /\ 2 * COLS <= COLS * ROWS
<1>1. COLS \in Nat /\ COLS > 1 /\ ROWS \in Nat /\ ROWS > 1 /\ PAGE \in Nat /\ PAGE > ROWS * COLS
  BY ScreenBounds
<1>2. COLS * ROWS = ROWS * COLS /\ COLS * ROWS \in Nat
  BY <1>1
<1>3. COLS * (ROWS - 1) = COLS * ROWS - COLS
  BY <1>1
<1>4. PICK d \in Nat : ROWS = 2 + d
  <2>1. ROWS - 2 \in Nat /\ ROWS = 2 + (ROWS - 2)
    BY <1>1
  <2> QED
    BY <2>1
<1>5. COLS * ROWS = 2 * COLS + COLS * d /\ COLS * d \in Nat
  BY <1>1, <1>4
<1> QED
  BY <1>1, <1>2, <1>3, <1>5 DEF KEEP

\* A row above the last begins at least a row before the end of the screen.
LEMMA RowStart ==
  ASSUME NEW y \in 0..ROWS
  PROVE  /\ COLS * y \in Nat
         /\ COLS * (y + 1) = COLS * y + COLS
         /\ COLS * (y - 1) = COLS * y - COLS
         /\ y < ROWS => COLS * y + COLS <= COLS * ROWS
         /\ y <= ROWS - 2 => COLS * y + 2 * COLS <= COLS * ROWS
         /\ y = ROWS - 1 => COLS * y + COLS = COLS * ROWS
         /\ y = ROWS - 2 => COLS * y + 2 * COLS = COLS * ROWS
         /\ y > 0 => COLS * y >= COLS
         /\ y = 0 => COLS * y = 0
<1>1. COLS \in Nat /\ ROWS \in Nat /\ y \in Nat /\ y <= ROWS
  BY Sizes
<1>2. PICK d \in Nat : ROWS = y + d
  <2>1. ROWS - y \in Nat /\ ROWS = y + (ROWS - y)
    BY <1>1
  <2> QED
    BY <2>1
<1>3. COLS * ROWS = COLS * y + COLS * d /\ COLS * d \in Nat /\ COLS * y \in Nat
  BY <1>1, <1>2
<1>4. COLS * (y + 1) = COLS * y + COLS /\ COLS * (y - 1) = COLS * y - COLS
  BY <1>1
<1>5. /\ d = 1 => COLS * d = COLS
      /\ d = 2 => COLS * d = 2 * COLS
      /\ d >= 1 => COLS * d >= COLS
      /\ d >= 2 => COLS * d >= 2 * COLS
  <2>1. d >= 1 => COLS * d = COLS + COLS * (d - 1) /\ COLS * (d - 1) \in Nat
    BY <1>1
  <2>2. d >= 2 => COLS * d = 2 * COLS + COLS * (d - 2) /\ COLS * (d - 2) \in Nat
    BY <1>1
  <2> QED
    BY <1>1, <2>1, <2>2
<1>6. y > 0 => COLS * y >= COLS
  <2>1. y > 0 => COLS * y = COLS + COLS * (y - 1) /\ COLS * (y - 1) \in Nat
    BY <1>1
  <2> QED
    BY <1>1, <2>1
<1>7. y = 0 => COLS * y = 0
  BY <1>1
<1> QED
  BY <1>1, <1>2, <1>3, <1>4, <1>5, <1>6, <1>7

-----------------------------------------------------------------------------
(* What is done to a page and the line on it *)

\* The character that comes next is stored where it belongs.
LEMMA PutSound ==
  ASSUME NEW page \in Page, NEW p \in Nat, NEW line \in Seq(Text), NEW c \in Text,
         Sound(page, p, line), p < COLS * ROWS, Len(line) <= KEEP
  PROVE  /\ Put(page, p, c) \in Page
         /\ Longer(line, c) \in Seq(Text) /\ Len(Longer(line, c)) <= KEEP
         /\ Sound(Put(page, p, c), p + 1, Longer(line, c))
<1> DEFINE q == Put(page, p, c)
<1> DEFINE a == Append(line, c)
<1> DEFINE r == Longer(line, c)
<1>1. p \in Cells /\ q \in Page /\ q[p] = c /\ \A n \in Cells : n # p => q[n] = page[n]
  BY Sizes DEF Cells, Put, Page
<1>2. /\ a \in Seq(Text) /\ Len(a) = Len(line) + 1 /\ a[Len(line) + 1] = c
      /\ \A k \in 1..Len(line) : a[k] = line[k]
      /\ Len(line) \in Nat /\ a # << >>
  OBVIOUS
<1>3. Len(line) <= p /\ \A k \in 1..Len(line) : page[p - k] = line[Len(line) + 1 - k]
  BY DEF Sound
<1>4. ASSUME NEW k \in 1..(Len(line) + 1)
      PROVE  q[p + 1 - k] = a[Len(line) + 2 - k]
  <2>1. CASE k = 1
    BY <1>1, <1>2, <2>1
  <2>2. CASE k # 1
    <3>1. PICK j \in 1..Len(line) : j = k - 1
      BY <1>2, <2>2
    <3>2. p - j \in Cells /\ p - j # p
      BY <1>1, <1>2, <1>3, <3>1, Sizes DEF Cells
    <3>3. Len(line) + 1 - j \in 1..Len(line)
      BY <1>2, <3>1
    <3>4. q[p - j] = a[Len(line) + 1 - j]
      BY <1>1, <1>2, <1>3, <3>2, <3>3
    <3> QED
      BY <1>2, <3>1, <3>4
  <2> QED
    BY <2>1, <2>2
<1>5. ASSUME NEW d \in Cells, p + 1 <= d, d < COLS * ROWS
      PROVE  q[d] = BLANK
  <2>1. d # p /\ p <= d
    BY <1>5 DEF Cells
  <2> QED
    BY <1>1, <1>5, <2>1 DEF Sound
<1>6. CASE Len(a) <= KEEP
  <2>1. r = a
    BY <1>2, <1>6, Sizes DEF Longer
  <2>2. Sound(q, p + 1, a)
    <3> HIDE DEF q, a
    <3>1. Len(a) <= p + 1 /\ p + 1 <= COLS * ROWS
      BY <1>2, <1>3, Sizes
    <3>2. \A k \in 1..Len(a) : q[p + 1 - k] = a[Len(a) + 1 - k]
      BY <1>2, <1>4
    <3> QED
      BY <1>5, <3>1, <3>2 DEF Sound
  <2> QED
    BY <1>1, <1>2, <1>6, <2>1, <2>2
<1>7. CASE Len(a) > KEEP
  <2>1. r = Tail(a) /\ Len(line) = KEEP
    BY <1>2, <1>7, Sizes DEF Longer
  <2>2. /\ r \in Seq(Text) /\ Len(r) = Len(line)
        /\ \A k \in 1..Len(line) : r[k] = a[k + 1]
    BY <1>2, <2>1, HeadTailProperties
  <2> HIDE DEF r, q, a
  <2>3. ASSUME NEW k \in 1..Len(r) PROVE q[p + 1 - k] = r[Len(r) + 1 - k]
    <3>1. k \in 1..(Len(line) + 1) /\ Len(line) + 1 - k \in 1..Len(line)
          /\ (Len(line) + 1 - k) + 1 = Len(line) + 2 - k
      BY <1>2, <2>2
    <3>2. r[Len(line) + 1 - k] = a[Len(line) + 2 - k]
      BY <2>2, <3>1
    <3> QED
      BY <1>4, <2>2, <3>1, <3>2
  <2>4. Len(r) <= p + 1 /\ p + 1 <= COLS * ROWS
    BY <1>2, <1>3, <2>2, Sizes
  <2>5. Sound(q, p + 1, r)
    BY <1>5, <2>3, <2>4 DEF Sound
  <2> QED
    BY <1>1, <2>1, <2>2, <2>5, Sizes DEF r, q
<1> QED
  BY <1>2, <1>6, <1>7, Sizes

\* All rows go one row up, the line with them.
LEMMA ScrollSound ==
  ASSUME NEW page \in Page, NEW line \in Seq(Text), Len(line) <= KEEP,
         Sound(page, COLS * ROWS, line)
  PROVE  Sound(RowsUp(page, page), COLS * ROWS - COLS, line)
<1> DEFINE q == RowsUp(page, page)
<1> DEFINE n == COLS * ROWS
<1>1. /\ n \in Nat /\ COLS \in Nat /\ 2 * COLS <= n /\ PAGE \in Nat /\ n < PAGE
      /\ COLS * (ROWS - 1) = n - COLS /\ KEEP = COLS /\ Len(line) \in Nat /\ COLS > 1
  BY Sizes
<1> HIDE DEF n
<1>2. /\ \A c \in Cells : c < n - COLS => q[c] = page[c + COLS]
      /\ \A c \in Cells : n - COLS <= c /\ c < n => q[c] = BLANK
  <2>1. \A c \in Cells : ~(c < n - COLS) <=> n - COLS <= c
    BY <1>1 DEF Cells
  <2> QED
    BY <1>1, <2>1 DEF RowsUp, n
<1> HIDE DEF q
<1>3. ASSUME NEW k \in 1..Len(line)
      PROVE  q[n - COLS - k] = line[Len(line) + 1 - k]
  <2>1. PICK c \in Cells : c = n - COLS - k
    <3>1. n - COLS - k \in Cells
      BY <1>1 DEF Cells
    <3> QED
      BY <3>1
  <2>2. c < n - COLS /\ c + COLS = n - k
    BY <1>1, <2>1
  <2>3. q[c] = page[n - k]
    BY <1>2, <2>2
  <2> QED
    BY <2>1, <2>3 DEF Sound, n
<1>4. Len(line) <= n - COLS /\ n - COLS <= n
  BY <1>1
<1> QED
  BY <1>2, <1>3, <1>4 DEF Sound, n, q

\* A page that has gone up has a blank last row.
LEMMA ScrollEmpty ==
  ASSUME NEW page \in Page
  PROVE  /\ RowsUp(page, page) \in Page
         /\ Sound(RowsUp(page, page), COLS * ROWS - COLS, << >>)
<1> DEFINE q == RowsUp(page, page)
<1> DEFINE n == COLS * ROWS
<1>1. /\ n \in Nat /\ COLS \in Nat /\ 2 * COLS <= n /\ PAGE \in Nat /\ n < PAGE
      /\ COLS * (ROWS - 1) = n - COLS /\ COLS > 1
  BY Sizes
<1> HIDE DEF n
<1>2. \A c \in Cells : c < n - COLS => c + COLS \in Cells
  BY <1>1 DEF Cells
<1>3. q \in Page
  BY <1>1, <1>2 DEF RowsUp, Page, Text, n
<1>4. \A c \in Cells : n - COLS <= c /\ c < n => q[c] = BLANK
  <2>1. \A c \in Cells : ~(c < n - COLS) <=> n - COLS <= c
    BY <1>1 DEF Cells
  <2> QED
    BY <1>1, <2>1 DEF RowsUp, n
<1>5. Len(<< >>) = 0 /\ 1..0 = {} /\ 0 <= n - COLS /\ n - COLS <= n
  BY <1>1
<1> HIDE DEF q
<1> QED
  BY <1>3, <1>4, <1>5 DEF Sound, n, q

\* The character before the next one is erased.
LEMMA EraseSound ==
  ASSUME NEW page \in Page, NEW p \in Nat, NEW line \in Seq(Text),
         Sound(page, p, line), p > 0, Len(line) <= KEEP
  PROVE  /\ Put(page, p - 1, BLANK) \in Page
         /\ Shorter(line) \in Seq(Text) /\ Len(Shorter(line)) <= KEEP
         /\ Sound(Put(page, p - 1, BLANK), p - 1, Shorter(line))
<1> DEFINE q == Put(page, p - 1, BLANK)
<1> DEFINE r == Shorter(line)
<1>1. p <= COLS * ROWS /\ Len(line) <= p
      /\ (\A k \in 1..Len(line) : page[p - k] = line[Len(line) + 1 - k])
      /\ \A c \in Cells : p <= c /\ c < COLS * ROWS => page[c] = BLANK
  BY DEF Sound
<1>2. /\ p - 1 \in Cells /\ q \in Page /\ q[p - 1] = BLANK
      /\ \A n \in Cells : n # p - 1 => q[n] = page[n]
  BY <1>1, Sizes DEF Cells, Put, Page, Text
<1>3. r \in Seq(Text) /\ Len(r) <= Len(line) /\ Len(r) \in Nat /\ Len(r) <= p - 1
      /\ Len(line) \in Nat
      /\ (r = << >> \/ (Len(r) = Len(line) - 1 /\ \A k \in 1..Len(r) : r[k] = line[k]))
  <2>1. CASE line = << >>
    BY <2>1 DEF Shorter
  <2>2. CASE line # << >>
    <3>1. Len(line) \in Nat /\ Len(line) >= 1 /\ r = SubSeq(line, 1, Len(line) - 1)
      BY <2>2 DEF Shorter
    <3>2. PICK m \in Nat : m = Len(line) - 1
      BY <3>1
    <3>3. /\ 1 \in Int /\ m \in Int /\ m - 1 + 1 = m
          /\ \A k \in 1..m : line[k] \in Text
      BY <3>1, <3>2
    <3> HIDE DEF r
    <3>4. r = SubSeq(line, 1, m)
      BY <3>1, <3>2
    <3>5. /\ r \in Seq(Text) /\ Len(r) = IF 1 <= m THEN m - 1 + 1 ELSE 0
          /\ \A k \in 1..(m - 1 + 1) : r[k] = line[1 + k - 1]
      BY <3>3, <3>4, SubSeqProperties
    <3>6. Len(r) = m /\ \A k \in 1..Len(r) : r[k] = line[k]
      BY <3>3, <3>5
    <3> QED
      BY <1>1, <3>1, <3>2, <3>5, <3>6
  <2> QED
    BY <2>1, <2>2
<1> HIDE DEF q, r
<1>4. ASSUME NEW k \in 1..Len(r) PROVE q[p - 1 - k] = r[Len(r) + 1 - k]
  <2>1. Len(r) = Len(line) - 1 /\ \A j \in 1..Len(r) : r[j] = line[j]
    BY <1>3
  <2>2. PICK j \in 1..Len(line) : j = k + 1
    BY <1>3, <2>1
  <2>3. p - j \in Cells /\ p - j # p - 1 /\ p - 1 - k = p - j
    BY <1>1, <1>3, <2>2, Sizes DEF Cells
  <2>4. Len(r) + 1 - k \in 1..Len(r) /\ Len(r) + 1 - k = Len(line) + 1 - j
    <3>1. Len(r) \in Nat /\ Len(line) = Len(r) + 1
      BY <1>3, <2>1
    <3> QED
      BY <2>2, <3>1
  <2> QED
    BY <1>1, <1>2, <2>1, <2>2, <2>3, <2>4
<1>5. ASSUME NEW c \in Cells, p - 1 <= c, c < COLS * ROWS PROVE q[c] = BLANK
  <2>1. c = p - 1 \/ (c # p - 1 /\ p <= c)
    BY <1>5 DEF Cells
  <2> QED
    BY <1>1, <1>2, <1>5, <2>1
<1>6. Sound(q, p - 1, r)
  BY <1>1, <1>3, <1>4, <1>5, Sizes DEF Sound
<1> QED
  BY <1>2, <1>3, <1>6, Sizes DEF q, r

\* A new line further on, after a stray character or none.
LEMMA NewLineSound ==
  ASSUME NEW page \in Page, NEW p \in Nat, NEW line \in Seq(Text),
         Sound(page, p, line), NEW q \in Nat, p <= q, 0 < q, q <= COLS * ROWS, NEW c \in Text
  PROVE  /\ Sound(page, q, << >>)
         /\ Put(page, q - 1, c) \in Page
         /\ Sound(Put(page, q - 1, c), q, << >>)
<1> DEFINE r == Put(page, q - 1, c)
<1>1. /\ r \in Page
      /\ \A n \in Cells : n # q - 1 => r[n] = page[n]
  BY DEF Put, Page
<1>2. Len(<< >>) = 0 /\ 1..0 = {} /\ 0 <= q
  OBVIOUS
<1>3. ASSUME NEW n \in Cells, q <= n, n < COLS * ROWS PROVE page[n] = BLANK /\ r[n] = BLANK
  <2>1. p <= n /\ n # q - 1
    BY <1>3 DEF Cells
  <2>2. page[n] = BLANK
    BY <1>3, <2>1 DEF Sound
  <2> QED
    BY <1>1, <2>1, <2>2
<1> HIDE DEF r
<1> QED
  BY <1>1, <1>2, <1>3 DEF Sound, r

-----------------------------------------------------------------------------
(* What keys do to a screen *)

\* A screen with its line at rest: no statement of terminal_write is under way.
Resting(s, line) ==
    /\ s \in Screens
    /\ line \in Seq(Text) /\ Len(line) <= KEEP
    /\ OnScreen(s) \/ BelowEnd(s)
    /\ Sound(s.page, Pos(s), line)

\* Between statements, a screen that is fine has its line at rest.
LEMMA RestFine ==
  ASSUME NEW s, NEW at \in Rest, NEW b, NEW r, NEW kept, NEW line
  PROVE  Fine(s, at, b, r, kept, line) <=> Resting(s, line)
BY DEF Fine, Resting, Rest, Cursor, NextCell, MovesX, MovesY

\* The position of a screen at rest.
LEMMA RestFacts ==
  ASSUME NEW s, NEW line, Resting(s, line)
  PROVE  /\ s \in Screens /\ s = [page |-> s.page, x |-> s.x, y |-> s.y]
         /\ s.page \in Page /\ s.x \in 0..(COLS - 1) /\ s.y \in 0..ROWS
         /\ s.y = ROWS => s.x = 0
         /\ Pos(s) \in Nat /\ Pos(s) = COLS * s.y + s.x /\ COLS * s.y \in Nat
         /\ Pos(s) <= COLS * ROWS
         /\ s.y < ROWS => Pos(s) < COLS * ROWS
         /\ s.y = ROWS => Pos(s) = COLS * ROWS
<1>1. /\ s \in Screens /\ s = [page |-> s.page, x |-> s.x, y |-> s.y]
      /\ s.page \in Page /\ s.y \in 0..ROWS
  BY DEF Resting, Screens
<1>2. s.x \in 0..(COLS - 1) /\ (s.y = ROWS => s.x = 0)
  BY Sizes DEF Resting, OnScreen, BelowEnd
<1>3. COLS * s.y \in Nat /\ (s.y < ROWS => COLS * s.y + COLS <= COLS * ROWS)
  BY <1>1, RowStart
<1>4. Pos(s) = COLS * s.y + s.x
  BY DEF Pos
<1>5. s.y = ROWS => COLS * s.y = COLS * ROWS
  OBVIOUS
<1>6. s.x \in Nat /\ s.x < COLS /\ COLS * ROWS \in Nat /\ COLS \in Nat
      /\ (s.y < ROWS \/ s.y = ROWS)
  <2>1. COLS \in Nat /\ ROWS \in Nat /\ COLS * ROWS \in Nat
    BY Sizes
  <2>2. s.x \in Nat /\ s.x < COLS
    BY <1>2, <2>1
  <2>3. s.y < ROWS \/ s.y = ROWS
    BY <1>1, <2>1
  <2> QED
    BY <2>1, <2>2, <2>3
<1>7. PICK m \in Nat : m = COLS * s.y
  BY <1>3
<1>8. Pos(s) = m + s.x
  BY <1>4, <1>7
<1> QED
  BY <1>1, <1>2, <1>3, <1>5, <1>6, <1>7, <1>8

\* The scroll of a full screen.
LEMMA ScrollFacts ==
  ASSUME NEW s \in Screens
  PROVE  LET r == vert_scroll_down(s) IN
         /\ r = [page |-> RowsUp(s.page, s.page), x |-> 0, y |-> ROWS - 2]
         /\ r.page \in Page /\ r \in Screens
<1>1. s.page \in Page
  BY DEF Screens
<1>2. RowsUp(s.page, s.page) \in Page
  BY <1>1, ScrollEmpty
<1>3. ROWS - 2 \in 0..ROWS /\ 0 \in 0..COLS
  BY Sizes
<1> QED
  BY <1>2, <1>3 DEF vert_scroll_down, Screens

\* The cursor goes on by one cell.
LEMMA AdvanceResting ==
  ASSUME NEW page \in Page, NEW x \in 0..(COLS - 1), NEW y \in 0..(ROWS - 1),
         NEW line \in Seq(Text), Len(line) <= KEEP,
         Sound(page, COLS * y + x + 1, line)
  PROVE  Resting(Advance([page |-> page, x |-> x, y |-> y]), line)
<1> DEFINE s == [page |-> page, x |-> x, y |-> y]
<1>1. COLS \in Nat /\ ROWS \in Nat /\ x \in Nat /\ y \in Nat /\ COLS > 1
  BY Sizes
<1>2. COLS * (y + 1) = COLS * y + COLS /\ COLS * y \in Nat
  <2>1. y \in 0..ROWS
    BY <1>1
  <2> QED
    BY <2>1, RowStart
<1>3. CASE x + 1 = COLS
  <2>1. Advance(s) = [page |-> page, x |-> 0, y |-> y + 1]
    BY <1>3 DEF Advance
  <2> DEFINE r == [page |-> page, x |-> 0, y |-> y + 1]
  <2>2. r \in Screens /\ (OnScreen(r) \/ BelowEnd(r))
    BY <1>1 DEF Screens, OnScreen, BelowEnd
  <2>3. Pos(r) = COLS * (y + 1) + 0
    BY DEF Pos
  <2>4. COLS * (y + 1) + 0 = COLS * y + x + 1
    BY <1>1, <1>2, <1>3
  <2>5. r.page = page
    OBVIOUS
  <2> HIDE DEF r
  <2> QED
    BY <2>1, <2>2, <2>3, <2>4, <2>5 DEF Resting, r
<1>4. CASE x + 1 # COLS
  <2>1. Advance(s) = [page |-> page, x |-> x + 1, y |-> y]
    BY <1>4 DEF Advance
  <2> DEFINE r == [page |-> page, x |-> x + 1, y |-> y]
  <2>2. r \in Screens /\ (OnScreen(r) \/ BelowEnd(r))
    BY <1>1, <1>4 DEF Screens, OnScreen, BelowEnd
  <2>3. Pos(r) = COLS * y + (x + 1)
    BY DEF Pos
  <2>4. COLS * y + (x + 1) = COLS * y + x + 1
    BY <1>1, <1>2
  <2>5. r.page = page
    OBVIOUS
  <2> HIDE DEF r
  <2> QED
    BY <2>1, <2>2, <2>3, <2>4, <2>5 DEF Resting, r
<1> QED
  BY <1>3, <1>4

\* update_cursor draws a character where the line ends, after a scroll if the
\* line ends below the screen.
LEMMA UpdateResting ==
  ASSUME NEW s, NEW line, Resting(s, line), NEW c \in Text
  PROVE  Resting(update_cursor(s, c), Longer(line, c))
<1>1. /\ s \in Screens /\ s = [page |-> s.page, x |-> s.x, y |-> s.y]
      /\ s.page \in Page /\ s.x \in 0..(COLS - 1) /\ s.y \in 0..ROWS
      /\ s.y = ROWS => s.x = 0
      /\ Pos(s) \in Nat /\ Pos(s) = COLS * s.y + s.x
      /\ s.y < ROWS => Pos(s) < COLS * ROWS
      /\ s.y = ROWS => Pos(s) = COLS * ROWS
  BY RestFacts
<1>2. COLS \in Nat /\ COLS > 1 /\ ROWS \in Nat /\ ROWS > 1 /\ COLS * ROWS \in Nat
      /\ 2 * COLS <= COLS * ROWS
  BY Sizes
<1>3. line \in Seq(Text) /\ Len(line) <= KEEP /\ Sound(s.page, Pos(s), line)
  BY DEF Resting
<1>4. ~(s.y > ROWS \/ s.x > COLS)
  BY <1>1, <1>2
<1>5. CASE s.y # ROWS
  <2> DEFINE q == Put(s.page, Pos(s), c)
  <2>1. update_cursor(s, c) = Advance([s EXCEPT !.page = q])
    BY <1>4, <1>5 DEF update_cursor
  <2>2. [s EXCEPT !.page = q] = [page |-> q, x |-> s.x, y |-> s.y]
    BY <1>1
  <2>3. /\ q \in Page /\ Longer(line, c) \in Seq(Text) /\ Len(Longer(line, c)) <= KEEP
        /\ Sound(q, Pos(s) + 1, Longer(line, c))
    <3>1. Pos(s) < COLS * ROWS
      BY <1>1, <1>2, <1>5
    <3> QED
      BY <1>1, <1>3, <3>1, PutSound
  <2>4. s.y \in 0..(ROWS - 1)
    BY <1>1, <1>2, <1>5
  <2>5. Pos(s) + 1 = COLS * s.y + s.x + 1
    BY <1>1
  <2> HIDE DEF q
  <2> QED
    BY <1>1, <2>1, <2>2, <2>3, <2>4, <2>5, AdvanceResting
<1>6. CASE s.y = ROWS
  <2> DEFINE r == [vert_scroll_down(s) EXCEPT !.y = ROWS - 1]
  <2> DEFINE up == RowsUp(s.page, s.page)
  <2>1. r = [page |-> up, x |-> 0, y |-> ROWS - 1] /\ up \in Page
    BY <1>1, ScrollFacts, ScrollEmpty
  <2>2. Pos(r) = COLS * (ROWS - 1) + 0
    BY <2>1 DEF Pos
  <2>3. COLS * (ROWS - 1) + 0 = COLS * ROWS - COLS
    BY <1>2, Sizes
  <2>4. Pos(r) \in Nat /\ Pos(r) = COLS * ROWS - COLS /\ Pos(r) < COLS * ROWS
    BY <1>2, <2>2, <2>3
  <2>5. Sound(up, Pos(r), line)
    BY <1>1, <1>3, <1>6, <2>4, ScrollSound
  <2> DEFINE q == Put(up, Pos(r), c)
  <2>6. /\ q \in Page /\ Longer(line, c) \in Seq(Text) /\ Len(Longer(line, c)) <= KEEP
        /\ Sound(q, Pos(r) + 1, Longer(line, c))
    BY <1>3, <2>1, <2>4, <2>5, PutSound
  <2>7. update_cursor(s, c) = Advance([r EXCEPT !.page = Put(@, Pos(r), c)])
    BY <1>4, <1>6 DEF update_cursor
  <2>8. [r EXCEPT !.page = Put(@, Pos(r), c)] = [page |-> q, x |-> 0, y |-> ROWS - 1]
    <3> DEFINE p == Pos(r)
    <3> HIDE DEF r, up, p
    <3>1. [r EXCEPT !.page = Put(@, p, c)] = [page |-> Put(up, p, c), x |-> 0, y |-> ROWS - 1]
      BY <2>1
    <3> QED
      BY <3>1 DEF p
  <2>9. 0 \in 0..(COLS - 1) /\ ROWS - 1 \in 0..(ROWS - 1)
        /\ Pos(r) + 1 = COLS * (ROWS - 1) + 0 + 1
    BY <1>2, <2>2
  <2> HIDE DEF q, r, up
  <2> QED
    BY <2>6, <2>7, <2>8, <2>9, AdvanceResting
<1> QED
  BY <1>5, <1>6

\* The cursor of a screen is moved.
MovedTo(s, u, v) == [s EXCEPT !.x = u, !.y = v]

\* Only the cursor changes.
LEMMA Moved ==
  ASSUME NEW page \in Page, NEW x \in Int, NEW y \in Int, NEW u \in Int, NEW v \in Int
  PROVE  MovedTo([page |-> page, x |-> x, y |-> y], u, v) = [page |-> page, x |-> u, y |-> v]
<1> DEFINE s == [page |-> page, x |-> x, y |-> y]
<1>1. s.page = page /\ s.x = x /\ s.y = y
  OBVIOUS
<1>2. [s EXCEPT !.x = u, !.y = v] = [page |-> s.page, x |-> u, y |-> v]
  <2>1. [s EXCEPT !.x = u, !.y = v] = [[s EXCEPT !.x = u] EXCEPT !.y = v]
    OBVIOUS
  <2>2. [s EXCEPT !.x = u] = [page |-> page, x |-> u, y |-> y]
    OBVIOUS
  <2>3. [[page |-> page, x |-> u, y |-> y] EXCEPT !.y = v] = [page |-> page, x |-> u, y |-> v]
    OBVIOUS
  <2> QED
    BY <2>1, <2>2, <2>3
<1> QED
  BY <1>1, <1>2 DEF MovedTo

\* The same with the row first.
MovedDown(s, u, v) == [s EXCEPT !.y = v, !.x = u]

\* Only the cursor changes.
LEMMA MovedBoth ==
  ASSUME NEW page \in Page, NEW x \in Int, NEW y \in Int, NEW u \in Int, NEW v \in Int
  PROVE  MovedDown([page |-> page, x |-> x, y |-> y], u, v) = [page |-> page, x |-> u, y |-> v]
<1> DEFINE s == [page |-> page, x |-> x, y |-> y]
<1>1. [s EXCEPT !.y = v, !.x = u] = [[s EXCEPT !.y = v] EXCEPT !.x = u]
  OBVIOUS
<1>2. [s EXCEPT !.y = v] = [page |-> page, x |-> x, y |-> v]
  OBVIOUS
<1>3. [[page |-> page, x |-> x, y |-> v] EXCEPT !.x = u] = [page |-> page, x |-> u, y |-> v]
  OBVIOUS
<1> QED
  BY <1>1, <1>2, <1>3 DEF MovedDown

\* Enter begins a line on the next row, and the stray character that
\* update_cursor is given falls at the end of the row that is left.
LEMMA NewlineResting ==
  ASSUME NEW s, NEW line, Resting(s, line), s.y < ROWS, NEW c \in Text
  PROVE  Resting(update_cursor(newline_cursor(s), c), << >>)
<1>1. /\ s \in Screens /\ s = [page |-> s.page, x |-> s.x, y |-> s.y]
      /\ s.page \in Page /\ s.x \in 0..(COLS - 1) /\ s.y \in 0..ROWS
      /\ Pos(s) \in Nat /\ Pos(s) = COLS * s.y + s.x
  BY RestFacts
<1>2. COLS \in Nat /\ COLS > 1 /\ ROWS \in Nat /\ ROWS > 1 /\ COLS * ROWS \in Nat
      /\ 2 * COLS <= COLS * ROWS /\ COLS * (ROWS - 1) = COLS * ROWS - COLS
  BY Sizes
<1>3. line \in Seq(Text) /\ Sound(s.page, Pos(s), line) /\ << >> \in Seq(Text)
  BY DEF Resting
<1> DEFINE up == RowsUp(s.page, s.page)
<1>4. PICK page \in Page, y \in 1..(ROWS - 1) :
        /\ newline_cursor(s) = [page |-> page, x |-> -1, y |-> y]
        /\ \/ page = s.page /\ y = s.y + 1
           \/ page = up /\ y = ROWS - 1
  <2>1. CASE s.y = ROWS - 1
    <3>1. vert_scroll_down(s) = [page |-> up, x |-> 0, y |-> ROWS - 2] /\ up \in Page
      BY <1>1, ScrollFacts, ScrollEmpty
    <3>2. newline_cursor(s) = [vert_scroll_down(s) EXCEPT !.x = -1, !.y = @ + 1]
      BY <2>1 DEF newline_cursor
    <3> HIDE DEF up
    <3>a. newline_cursor(s) = [page |-> up, x |-> -1, y |-> (ROWS - 2) + 1]
      <4>1. MovedTo([page |-> up, x |-> 0, y |-> ROWS - 2], -1, (ROWS - 2) + 1)
                = [page |-> up, x |-> -1, y |-> (ROWS - 2) + 1]
        <5>1. up \in Page /\ 0 \in Int /\ ROWS - 2 \in Int /\ -1 \in Int /\ (ROWS - 2) + 1 \in Int
          BY <1>2, <3>1
        <5> QED
          BY <5>1, Moved
      <4>2. [page |-> up, x |-> 0, y |-> ROWS - 2].y = ROWS - 2
        OBVIOUS
      <4> QED
        BY <3>1, <3>2, <4>1, <4>2, Zenon DEF MovedTo
    <3>b. (ROWS - 2) + 1 = ROWS - 1
      BY <1>2
    <3>3. newline_cursor(s) = [page |-> up, x |-> -1, y |-> ROWS - 1]
      BY <3>a, <3>b
    <3> QED
      BY <1>2, <3>1, <3>3
  <2>2. CASE s.y # ROWS - 1
    <3>1. newline_cursor(s) = [s EXCEPT !.x = -1, !.y = @ + 1]
      BY <2>2 DEF newline_cursor
    <3>2. newline_cursor(s) = [page |-> s.page, x |-> -1, y |-> s.y + 1]
      BY <1>1, <3>1
    <3>3. s.y + 1 \in 1..(ROWS - 1)
      BY <1>1, <1>2, <2>2
    <3> QED
      BY <1>1, <3>2, <3>3
  <2> QED
    BY <2>1, <2>2
<1> DEFINE n == [page |-> page, x |-> -1, y |-> y]
<1> DEFINE p == COLS * y
<1>5. p \in Nat /\ p >= COLS /\ p + COLS <= COLS * ROWS
  <2>1. y \in 0..ROWS /\ y < ROWS /\ y > 0
    BY <1>2
  <2> QED
    BY <2>1, RowStart
<1>6. Pos(n) = p + (-1)
  BY DEF Pos
<1>7. Pos(n) = p - 1
  BY <1>5, <1>6
<1> DEFINE q == Put(page, p - 1, c)
<1>8. q \in Page /\ Sound(q, p, << >>)
  <2>1. CASE page = s.page /\ y = s.y + 1
    <3>1. p = COLS * s.y + COLS /\ COLS * s.y \in Nat
      BY <1>1, <2>1, RowStart
    <3>2. Pos(s) <= p /\ 0 < p /\ p <= COLS * ROWS
      BY <1>1, <1>2, <1>5, <3>1
    <3> QED
      BY <1>1, <1>3, <1>5, <2>1, <3>2, NewLineSound
  <2>2. CASE page = up /\ y = ROWS - 1
    <3>1. p = COLS * ROWS - COLS
      BY <1>2, <2>2
    <3>2. Sound(up, p, << >>)
      BY <1>1, <3>1, ScrollEmpty
    <3>3. p <= p /\ 0 < p /\ p <= COLS * ROWS
      BY <1>2, <1>5
    <3> HIDE DEF up, p
    <3> QED
      BY <1>3, <1>5, <2>2, <3>2, <3>3, NewLineSound
  <2> QED
    BY <1>4, <2>1, <2>2
<1>9. update_cursor(n, c) = [page |-> q, x |-> 0, y |-> y]
  <2>1. n.y # ROWS /\ ~(n.y > ROWS \/ n.x > COLS) /\ n.x + 1 # COLS
    BY <1>2
  <2>2. update_cursor(n, c) = Advance([n EXCEPT !.page = Put(@, Pos(n), c)])
    BY <2>1 DEF update_cursor
  <2>3. [n EXCEPT !.page = Put(@, Pos(n), c)] = [page |-> q, x |-> -1, y |-> y]
    BY <1>7
  <2> HIDE DEF q
  <2>4. Advance([page |-> q, x |-> -1, y |-> y]) = [page |-> q, x |-> 0, y |-> y]
    BY <1>2 DEF Advance
  <2> QED
    BY <2>2, <2>3, <2>4
<1> DEFINE r == [page |-> q, x |-> 0, y |-> y]
<1>10. r \in Screens /\ OnScreen(r) /\ r.page = q
  <2> HIDE DEF q
  <2> QED
    BY <1>2, <1>8 DEF Screens, OnScreen
<1>11. Pos(r) = p
  <2>1. Pos(r) = COLS * y + 0
    BY DEF Pos
  <2> QED
    BY <1>5, <2>1
<1>12. Len(<< >>) = 0 /\ 0 <= KEEP
  BY Sizes
<1> HIDE DEF r, q, p
<1>13. Resting(r, << >>)
  BY <1>3, <1>8, <1>10, <1>11, <1>12 DEF Resting
<1> QED
  BY <1>4, <1>9, <1>13 DEF r

\* backspace_cursor takes back the last character of the line, over the end of
\* a row too.
LEMMA BackResting ==
  ASSUME NEW s, NEW line, Resting(s, line), ~(s.x = 0 /\ s.y = 0)
  PROVE  Resting(backspace_cursor(s), Shorter(line))
<1>1. /\ s \in Screens /\ s = [page |-> s.page, x |-> s.x, y |-> s.y]
      /\ s.page \in Page /\ s.x \in 0..(COLS - 1) /\ s.y \in 0..ROWS
      /\ s.y = ROWS => s.x = 0
      /\ Pos(s) \in Nat /\ Pos(s) = COLS * s.y + s.x /\ COLS * s.y \in Nat
  BY RestFacts
<1>2. COLS \in Nat /\ COLS > 1 /\ ROWS \in Nat /\ ROWS > 1
  BY Sizes
<1>3. line \in Seq(Text) /\ Len(line) <= KEEP /\ Sound(s.page, Pos(s), line)
  BY DEF Resting
<1>4. /\ s.y > 0 => COLS * s.y >= COLS
      /\ COLS * (s.y - 1) = COLS * s.y - COLS
  BY <1>1, RowStart
<1>5. Pos(s) > 0
  BY <1>1, <1>2, <1>4
<1> DEFINE q == Put(s.page, Pos(s) - 1, BLANK)
<1>6. /\ q \in Page /\ Shorter(line) \in Seq(Text) /\ Len(Shorter(line)) <= KEEP
      /\ Sound(q, Pos(s) - 1, Shorter(line))
  BY <1>1, <1>3, <1>5, EraseSound
<1>7. PICK x \in 0..(COLS - 1), y \in 0..(ROWS - 1) :
        /\ backspace_cursor(s) = [page |-> q, x |-> x, y |-> y]
        /\ COLS * y + x = Pos(s) - 1
  <2>1. CASE s.x = 0
    <3>1. backspace_cursor(s) = [page |-> q, x |-> COLS - 1, y |-> s.y - 1]
      BY <1>1, <2>1 DEF backspace_cursor
    <3>2. COLS - 1 \in 0..(COLS - 1) /\ s.y - 1 \in 0..(ROWS - 1)
      BY <1>1, <1>2, <2>1
    <3>3. COLS * (s.y - 1) + (COLS - 1) = Pos(s) - 1
      BY <1>1, <1>2, <1>4, <2>1
    <3> QED
      BY <3>1, <3>2, <3>3
  <2>2. CASE s.x # 0
    <3>1. backspace_cursor(s) = [page |-> q, x |-> s.x - 1, y |-> s.y]
      BY <1>1, <2>2 DEF backspace_cursor
    <3>2. s.x - 1 \in 0..(COLS - 1) /\ s.y \in 0..(ROWS - 1)
      BY <1>1, <1>2, <2>2
    <3>3. COLS * s.y + (s.x - 1) = Pos(s) - 1
      BY <1>1, <1>2, <2>2
    <3> QED
      BY <3>1, <3>2, <3>3
  <2> QED
    BY <2>1, <2>2
<1> DEFINE r == [page |-> q, x |-> x, y |-> y]
<1> HIDE DEF q
<1>8. r \in Screens /\ OnScreen(r) /\ r.page = q
  BY <1>2, <1>6 DEF Screens, OnScreen
<1>9. Pos(r) = Pos(s) - 1
  BY <1>7 DEF Pos
<1> HIDE DEF r
<1>10. Resting(r, Shorter(line))
  BY <1>6, <1>8, <1>9 DEF Resting
<1> QED
  BY <1>7, <1>10 DEF r

\* Ctrl+L leaves an empty screen.
LEMMA ClearResting ==
  ASSUME NEW s \in Screens
  PROVE  Resting(init_cursor(clear(s)), << >>)
<1> DEFINE q == [c \in Cells |-> IF c < COLS * ROWS THEN BLANK ELSE s.page[c]]
<1> DEFINE r == [page |-> q, x |-> 0, y |-> 0]
<1>1. s = [page |-> s.page, x |-> s.x, y |-> s.y] /\ s.page \in Page
  BY DEF Screens
<1>2. q \in Page
  BY <1>1 DEF Page, Text
<1>3. init_cursor(clear(s)) = r
  <2>1. clear(s) = [s EXCEPT !.page = q]
    BY <1>1, Zenon DEF clear
  <2> HIDE DEF q
  <2>2. clear(s) = [page |-> q, x |-> s.x, y |-> s.y]
    BY <1>1, <2>1
  <2>3. init_cursor([page |-> q, x |-> s.x, y |-> s.y]) = r
    <3>1. q \in Page /\ s.x \in Int /\ s.y \in Int /\ 0 \in Int
      BY <1>2, Sizes DEF Screens
    <3>2. MovedTo([page |-> q, x |-> s.x, y |-> s.y], 0, 0) = [page |-> q, x |-> 0, y |-> 0]
      BY <3>1, Moved
    <3> QED
      BY <3>2, Zenon DEF init_cursor, MovedTo
  <2> QED
    BY <2>2, <2>3
<1>4. COLS \in Nat /\ COLS > 1 /\ ROWS \in Nat /\ ROWS > 1 /\ COLS * ROWS \in Nat
      /\ 0 <= KEEP /\ COLS * 0 + 0 = 0
  BY Sizes
<1>5. Len(<< >>) = 0 /\ << >> \in Seq(Text) /\ 1..0 = {}
  OBVIOUS
<1>6. Sound(q, 0, << >>)
  BY <1>4, <1>5 DEF Sound
<1> HIDE DEF q
<1>7. r \in Screens /\ OnScreen(r) /\ r.page = q /\ Pos(r) = 0
  BY <1>2, <1>4 DEF Screens, OnScreen, Pos
<1> HIDE DEF r
<1>8. Resting(r, << >>)
  BY <1>4, <1>5, <1>6, <1>7 DEF Resting
<1> QED
  BY <1>3, <1>8

-----------------------------------------------------------------------------
(* What each statement of terminal_write does to a screen *)

\* The numbers of a screen.
LEMMA ScreenFacts ==
  ASSUME NEW s \in Screens
  PROVE  /\ s = [page |-> s.page, x |-> s.x, y |-> s.y]
         /\ s.page \in Page /\ s.x \in 0..COLS /\ s.y \in 0..ROWS
         /\ s.x \in Nat /\ s.y \in Nat /\ COLS * s.y \in Nat
         /\ Pos(s) = COLS * s.y + s.x /\ Pos(s) \in Nat
<1>1. /\ s = [page |-> s.page, x |-> s.x, y |-> s.y]
      /\ s.page \in Page /\ s.x \in 0..COLS /\ s.y \in 0..ROWS
  BY DEF Screens
<1>2. s.x \in Nat /\ s.y \in Nat
  BY <1>1, Sizes
<1>3. COLS * s.y \in Nat
  BY <1>1, RowStart
<1>4. Pos(s) = COLS * s.y + s.x
  BY DEF Pos
<1>5. Pos(s) \in Nat
  BY <1>2, <1>3, <1>4
<1> QED
  BY <1>1, <1>2, <1>3, <1>4, <1>5

\* WriteByte of a newline: the line is over, the next one begins a row below.
LEMMA NewlineFine ==
  ASSUME NEW s, NEW line, Resting(s, line), s.y < ROWS, NEW r, NEW kept
  PROVE  Fine(s, "load_y", NL, r, kept, << >>)
<1>1. /\ s \in Screens /\ s.page \in Page /\ s.x \in 0..(COLS - 1) /\ s.y \in 0..ROWS
      /\ Pos(s) \in Nat /\ Pos(s) = COLS * s.y + s.x /\ COLS * s.y \in Nat
  BY RestFacts
<1>2. COLS \in Nat /\ COLS > 1 /\ ROWS \in Nat /\ COLS * ROWS \in Nat /\ KEEP = COLS
  BY Sizes
<1>3. line \in Seq(Text) /\ Sound(s.page, Pos(s), line)
  BY DEF Resting
<1>4. COLS * s.y + COLS <= COLS * ROWS
  BY <1>1, RowStart
<1>5. PICK q \in Nat : q = COLS * s.y + COLS
  BY <1>1, <1>2
<1>6. Pos(s) <= q /\ 0 < q /\ q <= COLS * ROWS
  BY <1>1, <1>2, <1>4, <1>5
<1>7. BLANK \in Text
  BY DEF Text
<1>8. Sound(s.page, q, << >>)
  BY <1>1, <1>3, <1>6, <1>7, NewLineSound
<1>9. OnScreen(s)
  BY <1>1, <1>2 DEF OnScreen
<1>10. << >> \in Seq(Text) /\ Len(<< >>) = 0 /\ 0 <= KEEP
  BY <1>2
<1>11. NextCell(s, "load_y") = q
  BY <1>5 DEF NextCell, MovesX, MovesY
<1>12. Cursor(s, "load_y", NL, r, kept)
  BY <1>9 DEF Cursor, Rest
<1> QED
  BY <1>1, <1>8, <1>10, <1>11, <1>12 DEF Fine

\* WriteByte of a character.
LEMMA CharFine ==
  ASSUME NEW s, NEW line, Resting(s, line), s.y < ROWS, NEW b \in Text, NEW r, NEW kept
  PROVE  Fine(s, "put", b, r, kept, line)
<1>1. s \in Screens /\ s.y \in 0..ROWS /\ s.x \in 0..(COLS - 1)
  BY RestFacts
<1>2. OnScreen(s)
  BY <1>1, Sizes DEF OnScreen
<1>3. NextCell(s, "put") = Pos(s)
  BY DEF NextCell, MovesX, MovesY
<1>4. Cursor(s, "put", b, r, kept)
  BY <1>2 DEF Cursor, Rest
<1> QED
  BY <1>1, <1>3, <1>4 DEF Fine, Resting

\* WriteEnd
LEMMA EndFine ==
  ASSUME NEW s, NEW line, Resting(s, line), NEW b, NEW r, NEW kept
  PROVE  Fine(s, "bottom", b, r, kept, line)
<1>1. NextCell(s, "bottom") = Pos(s)
  BY DEF NextCell, MovesX, MovesY
<1>2. Cursor(s, "bottom", b, r, kept)
  BY DEF Cursor, Rest, Resting
<1> QED
  BY <1>1, <1>2 DEF Fine, Resting

\* WritePut
LEMMA PutFine ==
  ASSUME NEW s, NEW b, NEW r, NEW kept, NEW line, Fine(s, "put", b, r, kept, line)
  PROVE  Fine([s EXCEPT !.page = Put(@, Pos(s), b)], "load_x", b, r, kept, Longer(line, b))
<1>1. /\ s \in Screens /\ OnScreen(s) /\ b \in Text
      /\ line \in Seq(Text) /\ Len(line) <= KEEP
  BY DEF Fine, Cursor
<1>2. /\ s = [page |-> s.page, x |-> s.x, y |-> s.y] /\ s.page \in Page
      /\ s.y \in 0..ROWS /\ s.x \in Nat /\ s.y \in Nat /\ COLS * s.y \in Nat
      /\ Pos(s) = COLS * s.y + s.x /\ Pos(s) \in Nat
  BY <1>1, ScreenFacts
<1>3. Pos(s) < COLS * ROWS
  <2>1. COLS \in Nat /\ ROWS \in Nat /\ COLS * ROWS \in Nat
    BY Sizes
  <2>2. s.y < ROWS /\ s.x < COLS
    BY <1>1, <1>2, <2>1 DEF OnScreen
  <2>3. COLS * s.y + COLS <= COLS * ROWS
    BY <1>2, <2>2, RowStart
  <2>4. PICK m \in Nat : m = COLS * s.y
    BY <1>2
  <2> QED
    BY <1>2, <2>1, <2>2, <2>3, <2>4
<1>4. Sound(s.page, Pos(s), line)
  <2>1. NextCell(s, "put") = Pos(s)
    BY DEF NextCell, MovesX, MovesY
  <2> QED
    BY <2>1 DEF Fine
<1> DEFINE q == Put(s.page, Pos(s), b)
<1>5. /\ q \in Page /\ Longer(line, b) \in Seq(Text) /\ Len(Longer(line, b)) <= KEEP
      /\ Sound(q, Pos(s) + 1, Longer(line, b))
  BY <1>1, <1>2, <1>3, <1>4, PutSound
<1> DEFINE n == [s EXCEPT !.page = Put(@, Pos(s), b)]
<1>6. n = [page |-> q, x |-> s.x, y |-> s.y]
  BY <1>2
<1> HIDE DEF n, q
<1>7. n \in Screens
  BY <1>1, <1>5, <1>6 DEF Screens
<1>8. OnScreen(n) /\ Pos(n) = Pos(s) /\ n.page = q
  BY <1>1, <1>6 DEF OnScreen, Pos
<1>9. NextCell(n, "load_x") = Pos(n) + 1
  BY DEF NextCell, MovesX
<1>10. Cursor(n, "load_x", b, r, kept)
  BY <1>8 DEF Cursor, Rest
<1>11. Fine(n, "load_x", b, r, kept, Longer(line, b))
  BY <1>5, <1>7, <1>8, <1>9, <1>10 DEF Fine
<1> QED
  BY <1>11 DEF n

\* WriteLoadX
LEMMA LoadXFine ==
  ASSUME NEW s, NEW b, NEW r, NEW kept, NEW line, Fine(s, "load_x", b, r, kept, line)
  PROVE  Fine(s, "store_x", b, s.x + 1, kept, line) /\ s.x + 1 \in 0..(COLS + ROWS)
<1>1. s \in Screens /\ OnScreen(s)
  BY DEF Fine, Cursor
<1>2. NextCell(s, "store_x") = NextCell(s, "load_x")
  BY DEF NextCell, MovesX
<1>3. Cursor(s, "store_x", b, s.x + 1, kept)
  BY <1>1 DEF Cursor, Rest
<1>4. s.x + 1 \in 0..(COLS + ROWS)
  <2>1. COLS \in Nat /\ ROWS \in Nat /\ s.x \in Nat
    BY <1>1, Sizes, ScreenFacts
  <2>2. PICK x \in Nat : x = s.x
    BY <2>1
  <2>3. x \in 0..(COLS - 1)
    BY <1>1, <2>2 DEF OnScreen
  <2>4. x + 1 \in 0..(COLS + ROWS)
    BY <2>1, <2>3
  <2> QED
    BY <2>2, <2>4
<1> QED
  BY <1>2, <1>3, <1>4 DEF Fine

\* WriteStoreX
LEMMA StoreXFine ==
  ASSUME NEW s, NEW b, NEW r, NEW kept, NEW line, Fine(s, "store_x", b, r, kept, line)
  PROVE  Fine([s EXCEPT !.x = r], "wrap", b, 0, kept, line)
<1>1. s \in Screens /\ OnScreen(s) /\ r = s.x + 1
  BY DEF Fine, Cursor
<1>2. PICK page \in Page, x \in Nat, y \in Nat :
        s = [page |-> page, x |-> x, y |-> y] /\ s.page = page /\ s.x = x /\ s.y = y
  BY <1>1, ScreenFacts
<1>3. COLS \in Nat /\ ROWS \in Nat /\ COLS * y \in Nat /\ Pos(s) = COLS * y + x
  BY <1>1, <1>2, Sizes, ScreenFacts
<1>4. x \in 0..(COLS - 1) /\ y \in 0..(ROWS - 1)
  BY <1>1, <1>2 DEF OnScreen
<1>5. PICK w \in Nat : w = x + 1
  BY <1>2
<1>6. r = w
  BY <1>1, <1>2, <1>5
<1> DEFINE n == [page |-> page, x |-> w, y |-> y]
<1>7. [s EXCEPT !.x = r] = n
  BY <1>2, <1>6
<1>8. w \in 1..COLS /\ w \in 0..COLS /\ y \in 0..ROWS
  BY <1>3, <1>4, <1>5
<1>9. n \in Screens /\ n.x = w /\ n.y = y /\ n.page = s.page
  BY <1>2, <1>8 DEF Screens
<1> HIDE DEF n
<1>10. NextCell(n, "wrap") = NextCell(s, "store_x")
  <2>1. Pos(n) = COLS * y + (x + 1)
    BY <1>5, <1>9 DEF Pos
  <2>2. COLS * y + (x + 1) = COLS * y + x + 1
    BY <1>3
  <2>3. NextCell(n, "wrap") = Pos(n) /\ NextCell(s, "store_x") = Pos(s) + 1
    BY DEF NextCell, MovesX, MovesY
  <2> QED
    BY <1>3, <2>1, <2>2, <2>3
<1>11. Cursor(n, "wrap", b, 0, kept)
  BY <1>4, <1>8, <1>9 DEF Cursor, Rest
<1>12. Fine(n, "wrap", b, 0, kept, line)
  BY <1>9, <1>10, <1>11 DEF Fine
<1> QED
  BY <1>7, <1>12

\* WriteWrap at the end of a row.
LEMMA WrapFine ==
  ASSUME NEW s, NEW b, NEW r, NEW kept, NEW line, Fine(s, "wrap", b, r, kept, line), Full(s)
  PROVE  Fine([s EXCEPT !.x = 0], "load_y", b, r, kept, line)
<1>1. s \in Screens /\ s.x = COLS /\ s.y \in 0..(ROWS - 1)
  BY DEF Fine, Cursor, Full
<1>2. PICK page \in Page, x \in Nat, y \in Nat :
        s = [page |-> page, x |-> x, y |-> y] /\ s.page = page /\ s.x = x /\ s.y = y
  BY <1>1, ScreenFacts
<1>3. /\ COLS \in Nat /\ COLS > 1 /\ ROWS \in Nat /\ COLS * y \in Nat
      /\ Pos(s) = COLS * y + x
  BY <1>1, <1>2, Sizes, ScreenFacts
<1> DEFINE n == [page |-> page, x |-> 0, y |-> y]
<1>4. [s EXCEPT !.x = 0] = n
  BY <1>2
<1>5. y \in 0..ROWS /\ y \in 0..(ROWS - 1) /\ 0 \in 0..COLS /\ 0 \in 0..(COLS - 1)
  BY <1>1, <1>2, <1>3
<1>6. n \in Screens /\ n.x = 0 /\ n.y = y /\ n.page = s.page
  BY <1>2, <1>5 DEF Screens
<1> HIDE DEF n
<1>7. NextCell(n, "load_y") = NextCell(s, "wrap")
  <2>1. NextCell(n, "load_y") = COLS * y + COLS /\ NextCell(s, "wrap") = Pos(s)
    BY <1>6 DEF NextCell, MovesX, MovesY
  <2> QED
    BY <1>1, <1>2, <1>3, <2>1
<1>8. Cursor(n, "load_y", b, r, kept)
  BY <1>5, <1>6 DEF Cursor, Rest, OnScreen
<1>9. Fine(n, "load_y", b, r, kept, line)
  BY <1>6, <1>7, <1>8 DEF Fine
<1> QED
  BY <1>4, <1>9

\* WriteWrap within a row.
LEMMA NoWrapFine ==
  ASSUME NEW s, NEW b, NEW r, NEW kept, NEW line, Fine(s, "wrap", b, r, kept, line), ~Full(s)
  PROVE  Fine(s, "bottom", b, r, kept, line)
<1>1. s \in Screens /\ s.x \in 1..COLS /\ s.x # COLS /\ s.y \in 0..(ROWS - 1)
  BY DEF Fine, Cursor, Full
<1>2. OnScreen(s)
  BY <1>1, Sizes DEF OnScreen
<1>3. NextCell(s, "wrap") = NextCell(s, "bottom")
  BY DEF NextCell, MovesX, MovesY
<1>4. Cursor(s, "bottom", b, r, kept)
  BY <1>2 DEF Cursor, Rest
<1> QED
  BY <1>3, <1>4 DEF Fine

\* WriteLoadY
LEMMA LoadYFine ==
  ASSUME NEW s, NEW b, NEW r, NEW kept, NEW line, Fine(s, "load_y", b, r, kept, line)
  PROVE  Fine(s, "store_y", b, s.y + 1, kept, line) /\ s.y + 1 \in 0..(COLS + ROWS)
<1>1. s \in Screens /\ OnScreen(s) /\ (s.x = 0 \/ b = NL)
  BY DEF Fine, Cursor
<1>2. NextCell(s, "store_y") = NextCell(s, "load_y")
  BY DEF NextCell, MovesX, MovesY
<1>3. Cursor(s, "store_y", b, s.y + 1, kept)
  BY <1>1 DEF Cursor, Rest
<1>4. s.y + 1 \in 0..(COLS + ROWS)
  <2>1. COLS \in Nat /\ ROWS \in Nat /\ s.y \in Nat
    BY <1>1, Sizes, ScreenFacts
  <2>2. PICK y \in Nat : y = s.y
    BY <2>1
  <2>3. y \in 0..(ROWS - 1)
    BY <1>1, <2>2 DEF OnScreen
  <2>4. y + 1 \in 0..(COLS + ROWS)
    BY <2>1, <2>3
  <2> QED
    BY <2>2, <2>4
<1> QED
  BY <1>2, <1>3, <1>4 DEF Fine

\* WriteStoreY: the next row begins where the last one ended.
LEMMA StoreYFine ==
  ASSUME NEW s, NEW b, NEW r, NEW kept, NEW line, Fine(s, "store_y", b, r, kept, line)
  PROVE  Fine([s EXCEPT !.y = r, !.x = IF b = NL THEN 0 ELSE @], "bottom", b, 0, kept, line)
<1>1. s \in Screens /\ OnScreen(s) /\ r = s.y + 1 /\ (s.x = 0 \/ b = NL)
  BY DEF Fine, Cursor
<1>2. PICK page \in Page, x \in Nat, y \in Nat :
        s = [page |-> page, x |-> x, y |-> y] /\ s.page = page /\ s.x = x /\ s.y = y
  BY <1>1, ScreenFacts
<1>3. /\ COLS \in Nat /\ COLS > 1 /\ ROWS \in Nat /\ COLS * y \in Nat
  BY <1>1, <1>2, Sizes, ScreenFacts
<1>4. y \in 0..(ROWS - 1)
  BY <1>1, <1>2 DEF OnScreen
<1>5. PICK w \in Nat : w = y + 1
  BY <1>2
<1>6. COLS * w = COLS * y + COLS
  <2>1. y \in 0..ROWS
    BY <1>3, <1>4
  <2> QED
    BY <1>5, <2>1, RowStart
<1> DEFINE n == [page |-> page, x |-> 0, y |-> w]
<1>7. [s EXCEPT !.y = r, !.x = IF b = NL THEN 0 ELSE @] = n
  <2>1. (IF b = NL THEN 0 ELSE s.x) = 0
    BY <1>1
  <2>2. r = w
    BY <1>1, <1>2, <1>5
  <2>3. [s EXCEPT !.y = r, !.x = IF b = NL THEN 0 ELSE @] = MovedDown(s, 0, w)
    BY <2>1, <2>2, Zenon DEF MovedDown
  <2>4. MovedDown([page |-> page, x |-> x, y |-> y], 0, w) = n
    <3>1. x \in Int /\ y \in Int /\ w \in Int /\ 0 \in Int
      BY <1>2, <1>5
    <3> QED
      BY <3>1, MovedBoth
  <2> QED
    BY <1>2, <2>3, <2>4, Zenon
<1>8. w \in 0..ROWS /\ 0 \in 0..COLS /\ 0 \in 0..(COLS - 1)
      /\ (w \in 0..(ROWS - 1) \/ w = ROWS)
  BY <1>3, <1>4, <1>5
<1>9. n \in Screens /\ n.x = 0 /\ n.y = w /\ n.page = s.page
  BY <1>2, <1>8 DEF Screens
<1> HIDE DEF n
<1>10. NextCell(n, "bottom") = NextCell(s, "store_y")
  <2>1. Pos(n) = COLS * w + 0
    BY <1>9 DEF Pos
  <2>2. Pos(n) = COLS * y + COLS
    BY <1>3, <1>6, <2>1
  <2>3. NextCell(s, "store_y") = COLS * y + COLS /\ NextCell(n, "bottom") = Pos(n)
    BY <1>2 DEF NextCell, MovesX, MovesY
  <2> QED
    BY <2>2, <2>3
<1>11. Cursor(n, "bottom", b, 0, kept)
  BY <1>8, <1>9 DEF Cursor, Rest, OnScreen, BelowEnd
<1>12. Fine(n, "bottom", b, 0, kept, line)
  BY <1>9, <1>10, <1>11 DEF Fine
<1> QED
  BY <1>7, <1>12

\* WriteBottom below the last row: the page is copied.
LEMMA BelowFine ==
  ASSUME NEW s, NEW b, NEW r, NEW kept, NEW line, Fine(s, "bottom", b, r, kept, line), s.y = ROWS
  PROVE  Fine(s, "restore", b, r, s.page, line)
<1>1. s \in Screens /\ (OnScreen(s) \/ BelowEnd(s))
  BY DEF Fine, Cursor
<1>2. BelowEnd(s)
  BY <1>1, Sizes DEF OnScreen
<1>3. NextCell(s, "restore") = NextCell(s, "bottom")
  BY DEF NextCell, MovesX, MovesY
<1>4. Cursor(s, "restore", b, r, s.page)
  BY <1>2 DEF Cursor, Rest
<1> QED
  BY <1>3, <1>4 DEF Fine

\* WriteBottom on a row of the screen: the byte is done.
LEMMA BottomResting ==
  ASSUME NEW s, NEW b, NEW r, NEW kept, NEW line, Fine(s, "bottom", b, r, kept, line)
  PROVE  Resting(s, line)
<1>1. NextCell(s, "bottom") = Pos(s)
  BY DEF NextCell, MovesX, MovesY
<1>2. OnScreen(s) \/ BelowEnd(s)
  BY DEF Fine, Cursor
<1> QED
  BY <1>1, <1>2 DEF Fine, Resting

\* WriteRestore: the rows go up, and the line with them.
LEMMA RestoreFine ==
  ASSUME NEW s, NEW b, NEW r, NEW kept, NEW any, NEW line,
         Fine(s, "restore", b, r, kept, line)
  PROVE  Fine([page |-> RowsUp(kept, s.page), x |-> 0, y |-> ROWS - 2],
              "home", b, r, any, line)
<1>1. s \in Screens /\ BelowEnd(s) /\ kept = s.page /\ line \in Seq(Text) /\ Len(line) <= KEEP
  BY DEF Fine, Cursor
<1>2. s.page \in Page
  BY <1>1 DEF Screens
<1>3. /\ COLS \in Nat /\ COLS > 1 /\ ROWS \in Nat /\ ROWS > 1 /\ COLS * ROWS \in Nat
  BY Sizes
<1>4. Sound(s.page, COLS * ROWS, line)
  <2>1. NextCell(s, "restore") = COLS * ROWS + 0
    BY <1>1 DEF NextCell, MovesX, MovesY, Pos, BelowEnd
  <2>2. COLS * ROWS + 0 = COLS * ROWS
    BY <1>3
  <2> QED
    BY <2>1, <2>2 DEF Fine
<1> DEFINE up == RowsUp(s.page, s.page)
<1>5. up \in Page
  BY <1>2, ScrollEmpty
<1>6. Sound(up, COLS * ROWS - COLS, line)
  BY <1>1, <1>2, <1>4, ScrollSound
<1> HIDE DEF up
<1> DEFINE n == [page |-> up, x |-> 0, y |-> ROWS - 2]
<1>7. n \in Screens /\ n.page = up /\ n.x = 0 /\ n.y = ROWS - 2
  <2>1. ROWS - 2 \in 0..ROWS /\ 0 \in 0..COLS
    BY <1>3
  <2> QED
    BY <1>5, <2>1 DEF Screens
<1> HIDE DEF n
<1>8. NextCell(n, "home") = COLS * ROWS - COLS
  <2>1. PICK y \in 0..ROWS : y = ROWS - 2
    BY <1>3
  <2>2. COLS * y \in Nat /\ COLS * y + 2 * COLS = COLS * ROWS
    BY <1>3, <2>1, RowStart
  <2>3. NextCell(n, "home") = COLS * y + COLS
    BY <1>7, <2>1 DEF NextCell, MovesX, MovesY
  <2> QED
    BY <1>3, <2>2, <2>3
<1>9. Cursor(n, "home", b, r, any)
  BY <1>7 DEF Cursor, Rest
<1>10. Fine(n, "home", b, r, any, line)
  BY <1>1, <1>6, <1>7, <1>8, <1>9 DEF Fine
<1> QED
  BY <1>1, <1>10 DEF n, up

\* WriteHome
LEMMA HomeResting ==
  ASSUME NEW s, NEW b, NEW r, NEW kept, NEW line, Fine(s, "home", b, r, kept, line)
  PROVE  Resting([s EXCEPT !.x = 0, !.y = ROWS - 1], line)
<1>1. s \in Screens /\ s.x = 0 /\ s.y = ROWS - 2 /\ line \in Seq(Text) /\ Len(line) <= KEEP
  BY DEF Fine, Cursor
<1>2. PICK page \in Page, x \in Int, y \in Int :
        s = [page |-> page, x |-> x, y |-> y] /\ s.page = page /\ s.x = x /\ s.y = y
  BY <1>1, ScreenFacts
<1>3. /\ COLS \in Nat /\ COLS > 1 /\ ROWS \in Nat /\ ROWS > 1 /\ COLS * ROWS \in Nat
      /\ COLS * (ROWS - 1) = COLS * ROWS - COLS
  BY Sizes
<1> DEFINE n == [page |-> page, x |-> 0, y |-> ROWS - 1]
<1>4. [s EXCEPT !.x = 0, !.y = ROWS - 1] = n
  <2>1. ROWS - 1 \in Int /\ 0 \in Int
    BY <1>3
  <2>2. MovedTo([page |-> page, x |-> x, y |-> y], 0, ROWS - 1) = n
    BY <2>1, Moved
  <2> QED
    BY <1>2, <2>2, Zenon DEF MovedTo
<1>5. n \in Screens /\ OnScreen(n) /\ n.page = s.page /\ n.x = 0 /\ n.y = ROWS - 1
  <2>1. ROWS - 1 \in 0..ROWS /\ ROWS - 1 \in 0..(ROWS - 1) /\ 0 \in 0..COLS /\ 0 \in 0..(COLS - 1)
    BY <1>3
  <2> QED
    BY <1>2, <2>1 DEF Screens, OnScreen
<1> HIDE DEF n
<1>6. Pos(n) = NextCell(s, "home")
  <2>1. PICK z \in 0..ROWS : z = ROWS - 2
    BY <1>3
  <2>2. COLS * z \in Nat /\ COLS * z + 2 * COLS = COLS * ROWS
    BY <1>3, <2>1, RowStart
  <2>3. NextCell(s, "home") = COLS * z + COLS
    BY <1>1, <2>1 DEF NextCell, MovesX, MovesY
  <2>4. Pos(n) = COLS * (ROWS - 1) + 0
    BY <1>5 DEF Pos
  <2> QED
    BY <1>3, <2>2, <2>3, <2>4
<1>7. Resting(n, line)
  BY <1>1, <1>5, <1>6 DEF Fine, Resting
<1> QED
  BY <1>4, <1>7

-----------------------------------------------------------------------------
(* The invariant *)

\* The screens in zeroed memory are blank, with no line on them.
LEMMA ScreenInit == Init => ScreenInv
<1> SUFFICES ASSUME Init PROVE ScreenInv
  OBVIOUS
<1>1. /\ COLS \in Nat /\ COLS > 1 /\ ROWS \in Nat /\ ROWS > 1 /\ COLS * ROWS \in Nat
      /\ KEEP = COLS /\ 0 \in 0..(COLS + ROWS) /\ 0 \in 0..COLS /\ 0 \in 0..ROWS
      /\ 0 \in 0..(COLS - 1) /\ 0 \in 0..(ROWS - 1) /\ COLS * 0 + 0 = 0
  BY Sizes
<1>2. TM_MAX \in Nat \ {0} /\ 0 \in Term /\ LINE \in Nat /\ 0 \in 0..LINE
  BY ScreenBounds, <1>1 DEF Term
<1>3. BlankPage \in Page /\ BLANK \in Text
  BY DEF BlankPage, Page, Text
<1>4. Unsaved \in Screens /\ Unsaved.page = BlankPage /\ Unsaved.x = 0 /\ Unsaved.y = 0
  BY <1>1, <1>3 DEF Unsaved, Screens
<1>5. << >> \in Seq(Text) /\ Len(<< >>) = 0 /\ 1..0 = {}
  OBVIOUS
<1>6. Sound(BlankPage, 0, << >>)
  BY <1>1, <1>5 DEF Sound, BlankPage
<1>7. Pos(Unsaved) = 0
  BY <1>1, <1>4 DEF Pos
<1>8. Resting(Unsaved, << >>)
  BY <1>1, <1>4, <1>5, <1>6, <1>7 DEF Resting, OnScreen
<1>9. /\ terminal_idx \in Term
      /\ screen \in Screens /\ saved \in [Term -> Screens]
      /\ char_cnt \in [Term -> 0..LINE]
      /\ container \in [Term -> Page]
      /\ shown \in [Term -> Seq(Text)]
      /\ reg \in [Term -> 0..(COLS + ROWS)]
  BY <1>1, <1>2, <1>3, <1>4, <1>5, Zenon DEF Init
<1>10. wpc \in [Term -> Rest \cup Lines] /\ byte \in [Term -> Text \cup {NL, END}]
  BY DEF Init, Rest, Lines
<1>11. ASSUME NEW t \in Term
       PROVE  /\ wpc[t] \in Rest
              /\ Fine(ScreenOf(t), wpc[t], byte[t], reg[t], container[t], shown[t])
  <2>1. wpc[t] \in Rest /\ ScreenOf(t) = Unsaved /\ shown[t] = << >>
    BY DEF Init, Rest, ScreenOf
  <2> QED
    BY <1>8, <2>1, RestFine
<1> QED
  BY <1>9, <1>10, <1>11 DEF ScreenInv

\* A step at the displayed terminal leaves the other terminals as they are.
LEMMA OneScreen ==
  ASSUME ScreenInv, terminal_idx' = terminal_idx, saved' = saved,
         char_cnt' \in [Term -> 0..LINE],
         wpc' \in [Term -> Rest \cup Lines],
         byte' \in [Term -> Text \cup {NL, END}],
         reg' \in [Term -> 0..(COLS + ROWS)],
         container' \in [Term -> Page],
         shown' \in [Term -> Seq(Text)],
         \A t \in Term \ {now} :
            /\ wpc'[t] = wpc[t] /\ byte'[t] = byte[t] /\ reg'[t] = reg[t]
            /\ container'[t] = container[t] /\ shown'[t] = shown[t],
         Fine(screen', wpc'[now], byte'[now], reg'[now], container'[now], shown'[now])
  PROVE  ScreenInv'
<1>1. screen' \in Screens
  BY DEF Fine
<1>2. now' = now /\ now \in Term
  BY DEF ScreenInv, now
<1>3. ASSUME NEW t \in Term
      PROVE  Fine(ScreenOf(t)', wpc'[t], byte'[t], reg'[t], container'[t], shown'[t])
  <2>1. CASE t = now
    <3>1. ScreenOf(t)' = screen'
      BY <1>2, <2>1 DEF ScreenOf
    <3> QED
      BY <2>1, <3>1
  <2>2. CASE t # now
    <3>1. ScreenOf(t)' = ScreenOf(t)
      BY <1>2, <2>2 DEF ScreenOf
    <3>2. Fine(ScreenOf(t), wpc[t], byte[t], reg[t], container[t], shown[t])
      BY DEF ScreenInv
    <3> QED
      BY <2>2, <3>1, <3>2
  <2> QED
    BY <2>1, <2>2
<1>4. \A t \in Term : t # now' => wpc'[t] \in Rest
  BY <1>2 DEF ScreenInv
<1> QED
  BY <1>1, <1>2, <1>3, <1>4 DEF ScreenInv

\* What is known of the displayed terminal.
LEMMA NowFacts ==
  ASSUME ScreenInv
  PROVE  /\ now \in Term /\ screen \in Screens /\ screen.page \in Page
         /\ char_cnt[now] \in 0..LINE /\ reg[now] \in 0..(COLS + ROWS)
         /\ shown[now] \in Seq(Text)
         /\ Fine(screen, wpc[now], byte[now], reg[now], container[now], shown[now])
         /\ wpc[now] \in Rest => Resting(screen, shown[now])
         /\ LINE \in Nat /\ LINE > 0
<1>1. now \in Term /\ ScreenOf(now) = screen
  BY DEF ScreenInv, now, ScreenOf
<1>2. Fine(screen, wpc[now], byte[now], reg[now], container[now], shown[now])
  BY <1>1 DEF ScreenInv
<1>3. wpc[now] \in Rest => Resting(screen, shown[now])
  BY <1>2, RestFine
<1>4. LINE \in Nat /\ LINE > 0
  BY ScreenBounds
<1>5. screen \in Screens /\ screen.page \in Page
  BY DEF ScreenInv, Screens
<1> QED
  BY <1>1, <1>2, <1>3, <1>4, <1>5 DEF ScreenInv

\* A key that leaves the displayed terminal with a screen at rest.
LEMMA KeyStep ==
  ASSUME ScreenInv, wpc[now] \in Rest, NEW line, Resting(screen', line),
         shown' = [shown EXCEPT ![now] = line],
         NEW n \in 0..LINE, char_cnt' = [char_cnt EXCEPT ![now] = n],
         UNCHANGED <<terminal_idx, saved, writeVars>>
  PROVE  ScreenInv'
<1>1. /\ now \in Term /\ line \in Seq(Text)
      /\ shown \in [Term -> Seq(Text)] /\ char_cnt \in [Term -> 0..LINE]
  BY NowFacts DEF Resting, ScreenInv
<1>2. /\ shown' \in [Term -> Seq(Text)] /\ shown'[now] = line
      /\ \A t \in Term \ {now} : shown'[t] = shown[t]
  BY <1>1, Zenon
<1>3. char_cnt' \in [Term -> 0..LINE]
  BY <1>1, Zenon
<1>4. /\ terminal_idx' = terminal_idx /\ saved' = saved
      /\ wpc' = wpc /\ byte' = byte /\ reg' = reg /\ container' = container
  BY DEF writeVars
<1>5. Fine(screen', wpc'[now], byte'[now], reg'[now], container'[now], shown'[now])
  BY <1>2, <1>4, RestFine
<1>6. /\ wpc' \in [Term -> Rest \cup Lines] /\ byte' \in [Term -> Text \cup {NL, END}]
      /\ reg' \in [Term -> 0..(COLS + ROWS)] /\ container' \in [Term -> Page]
  BY <1>4 DEF ScreenInv
<1>7. \A t \in Term \ {now} :
        /\ wpc'[t] = wpc[t] /\ byte'[t] = byte[t] /\ reg'[t] = reg[t]
        /\ container'[t] = container[t] /\ shown'[t] = shown[t]
  BY <1>2, <1>4
<1> QED
  BY <1>2, <1>3, <1>4, <1>5, <1>6, <1>7, OneScreen

\* The keys, between the bytes of a program's output.
LEMMA KeysKeep ==
  ASSUME ~Split, Tidy, ScreenInv, Key
  PROVE  ScreenInv'
<1>1. /\ now \in Term /\ screen \in Screens /\ char_cnt[now] \in 0..LINE
      /\ wpc[now] \in Rest => Resting(screen, shown[now])
      /\ LINE \in Nat /\ LINE > 0 /\ shown \in [Term -> Seq(Text)]
      /\ char_cnt \in [Term -> 0..LINE]
  BY NowFacts DEF ScreenInv
<1>2. ROWS \in Nat /\ screen.y \in 0..ROWS
  BY <1>1, Sizes, ScreenFacts
<1>3. ASSUME NEW c \in Text, KeyChar(c) PROVE ScreenInv'
  <2>1. wpc[now] \in Rest /\ UNCHANGED <<terminal_idx, saved, writeVars>>
    BY <1>3, ~Split DEF KeyChar, KeyArrives
  <2>2. char_cnt[now] + 1 \in 0..LINE /\ char_cnt' = [char_cnt EXCEPT ![now] = char_cnt[now] + 1]
    BY <1>1, <1>3 DEF KeyChar
  <2>3. CASE char_cnt'[now] < LINE
    <3>1. /\ screen' = update_cursor(screen, c)
          /\ shown' = [shown EXCEPT ![now] = Longer(shown[now], c)]
      BY <1>3, <2>3 DEF KeyChar
    <3>2. Resting(screen', Longer(shown[now], c))
      BY <1>1, <2>1, <3>1, UpdateResting
    <3> QED
      BY <2>1, <2>2, <3>1, <3>2, KeyStep
  <2>4. CASE ~(char_cnt'[now] < LINE)
    <3>1. screen' = screen /\ shown' = shown
      BY <1>3, <2>4 DEF KeyChar
    <3>2. shown' = [shown EXCEPT ![now] = shown[now]] /\ Resting(screen', shown[now])
      BY <1>1, <2>1, <3>1
    <3> QED
      BY <2>1, <2>2, <3>2, KeyStep
  <2> QED
    BY <2>3, <2>4
<1>4. CASE KeyEnter
  <2>1. /\ wpc[now] \in Rest /\ UNCHANGED <<terminal_idx, saved, writeVars>>
        /\ ~(screen.y >= ROWS)
    BY <1>4, ~Split, Tidy DEF KeyEnter, KeyArrives, Below
  <2>2. PICK c \in Stray : screen' = update_cursor(newline_cursor(screen), c)
    BY <1>4 DEF KeyEnter
  <2>3. c \in Text /\ screen.y < ROWS
    BY <1>2, <2>1 DEF Stray, Text
  <2>4. Resting(screen', << >>)
    BY <1>1, <2>1, <2>2, <2>3, NewlineResting
  <2>5. /\ shown' = [shown EXCEPT ![now] = << >>] /\ 0 \in 0..LINE
        /\ char_cnt' = [char_cnt EXCEPT ![now] = 0]
    BY <1>1, <1>4 DEF KeyEnter
  <2> QED
    BY <2>1, <2>4, <2>5, KeyStep
<1>5. CASE KeyBackspace
  <2> DEFINE n == IF char_cnt[now] = LINE THEN LINE - 1 ELSE char_cnt[now]
  <2> DEFINE erases == n > 0 /\ ~(screen.x = 0 /\ screen.y = 0)
  <2> DEFINE left == IF erases THEN n - 1 ELSE n
  <2>1. wpc[now] \in Rest /\ UNCHANGED <<terminal_idx, saved, writeVars>>
    BY <1>5, ~Split DEF KeyBackspace, KeyArrives
  <2>2. left \in 0..LINE /\ char_cnt' = [char_cnt EXCEPT ![now] = left]
    <3>1. n \in Nat /\ n <= LINE
      BY <1>1
    <3>2. left \in 0..LINE
      <4> HIDE DEF n
      <4>1. CASE erases
        <5>1. n > 0
          BY <4>1
        <5> QED
          BY <1>1, <3>1, <4>1, <5>1
      <4>2. CASE ~erases
        BY <1>1, <3>1, <4>2
      <4> QED
        BY <4>1, <4>2
    <3>3. char_cnt' = [char_cnt EXCEPT ![now] = left]
      BY <1>5, Zenon DEF KeyBackspace
    <3> QED
      BY <3>2, <3>3
  <2>3. CASE erases
    <3>1. /\ screen' = backspace_cursor(screen)
          /\ shown' = [shown EXCEPT ![now] = Shorter(shown[now])]
      BY <1>5, <2>3, Zenon DEF KeyBackspace
    <3>2. Resting(screen', Shorter(shown[now]))
      BY <1>1, <2>1, <2>3, <3>1, BackResting
    <3> HIDE DEF left, erases
    <3> QED
      BY <2>1, <2>2, <3>1, <3>2, KeyStep
  <2>4. CASE ~erases
    <3>1. screen' = screen /\ shown' = shown
      BY <1>5, <2>4, Zenon DEF KeyBackspace
    <3>2. shown' = [shown EXCEPT ![now] = shown[now]] /\ Resting(screen', shown[now])
      BY <1>1, <2>1, <3>1
    <3> HIDE DEF left, erases
    <3> QED
      BY <2>1, <2>2, <3>2, KeyStep
  <2> QED
    BY <2>3, <2>4
<1>6. CASE KeyClear
  <2>1. wpc[now] \in Rest /\ UNCHANGED <<terminal_idx, saved, writeVars>>
    BY <1>6, ~Split DEF KeyClear, KeyArrives
  <2>2. Resting(screen', << >>)
    BY <1>1, <1>6, ClearResting DEF KeyClear
  <2>3. /\ shown' = [shown EXCEPT ![now] = << >>] /\ 0 \in 0..LINE
        /\ char_cnt' = [char_cnt EXCEPT ![now] = 0]
    BY <1>1, <1>6 DEF KeyClear
  <2> QED
    BY <2>1, <2>2, <2>3, KeyStep
<1>7. ASSUME NEW t \in Term, KeySwitch(t) PROVE ScreenInv'
  <2>1. /\ wpc[now] \in Rest /\ now' = t /\ terminal_idx' = t
        /\ screen' = Left[t] /\ saved' = [Left EXCEPT ![t] = Unsaved]
        /\ char_cnt' = char_cnt /\ shown' = shown
        /\ wpc' = wpc /\ byte' = byte /\ reg' = reg /\ container' = container
    BY <1>7, ~Split DEF KeySwitch, KeyArrives, now, writeVars
  <2>2. Left \in [Term -> Screens] /\ \A u \in Term : Left[u] = ScreenOf(u)
    BY <1>1 DEF Left, ScreenOf, ScreenInv
  <2>3. Unsaved \in Screens
    <3>1. 0 \in 0..COLS /\ 0 \in 0..ROWS
      BY Sizes
    <3>2. BlankPage \in Page
      BY DEF BlankPage, Page, Text
    <3> QED
      BY <3>1, <3>2 DEF Unsaved, Screens
  <2>4. \A u \in Term : ScreenOf(u)' = ScreenOf(u)
    BY <2>1, <2>2 DEF ScreenOf
  <2>5. screen' \in Screens /\ saved' \in [Term -> Screens]
    BY <2>1, <2>2, <2>3, Zenon
  <2>6. \A u \in Term : u # now' => wpc'[u] \in Rest
    BY <2>1 DEF ScreenInv
  <2>7. \A u \in Term :
            Fine(ScreenOf(u)', wpc'[u], byte'[u], reg'[u], container'[u], shown'[u])
    BY <2>1, <2>4 DEF ScreenInv
  <2> QED
    BY <2>1, <2>5, <2>6, <2>7 DEF ScreenInv
<1> QED
  BY <1>3, <1>4, <1>5, <1>6, <1>7 DEF Key

\* A statement of the displayed terminal's program.
LEMMA WriteStep ==
  ASSUME ScreenInv, NEW at \in Rest \cup Lines, NEW b \in Text \cup {NL, END},
         NEW r \in 0..(COLS + ROWS), NEW kept \in Page, NEW line,
         wpc' = [wpc EXCEPT ![now] = at], byte' = [byte EXCEPT ![now] = b],
         reg' = [reg EXCEPT ![now] = r], container' = [container EXCEPT ![now] = kept],
         shown' = [shown EXCEPT ![now] = line],
         UNCHANGED <<terminal_idx, saved, char_cnt>>,
         Fine(screen', at, b, r, kept, line)
  PROVE  ScreenInv'
<1>1. now \in Term /\ line \in Seq(Text)
  BY NowFacts DEF Fine
<1>2. /\ wpc \in [Term -> Rest \cup Lines] /\ byte \in [Term -> Text \cup {NL, END}]
      /\ reg \in [Term -> 0..(COLS + ROWS)] /\ container \in [Term -> Page]
      /\ shown \in [Term -> Seq(Text)] /\ char_cnt \in [Term -> 0..LINE]
  BY DEF ScreenInv
<1>3. /\ wpc' \in [Term -> Rest \cup Lines] /\ wpc'[now] = at
      /\ \A t \in Term \ {now} : wpc'[t] = wpc[t]
  BY <1>1, <1>2, Zenon
<1>4. /\ byte' \in [Term -> Text \cup {NL, END}] /\ byte'[now] = b
      /\ \A t \in Term \ {now} : byte'[t] = byte[t]
  BY <1>1, <1>2, Zenon
<1>5. /\ reg' \in [Term -> 0..(COLS + ROWS)] /\ reg'[now] = r
      /\ \A t \in Term \ {now} : reg'[t] = reg[t]
  BY <1>1, <1>2, Zenon
<1>6. /\ container' \in [Term -> Page] /\ container'[now] = kept
      /\ \A t \in Term \ {now} : container'[t] = container[t]
  BY <1>1, <1>2, Zenon
<1>7. /\ shown' \in [Term -> Seq(Text)] /\ shown'[now] = line
      /\ \A t \in Term \ {now} : shown'[t] = shown[t]
  BY <1>1, <1>2, Zenon
<1>8. terminal_idx' = terminal_idx /\ saved' = saved /\ char_cnt' \in [Term -> 0..LINE]
  BY <1>2
<1>9. Fine(screen', wpc'[now], byte'[now], reg'[now], container'[now], shown'[now])
  BY <1>3, <1>4, <1>5, <1>6, <1>7
<1>10. \A t \in Term \ {now} :
        /\ wpc'[t] = wpc[t] /\ byte'[t] = byte[t] /\ reg'[t] = reg[t]
        /\ container'[t] = container[t] /\ shown'[t] = shown[t]
  BY <1>3, <1>4, <1>5, <1>6, <1>7
<1> QED
  BY <1>3, <1>4, <1>5, <1>6, <1>7, <1>8, <1>9, <1>10, OneScreen

\* The statements of terminal_write.
LEMMA WritesKeep ==
  ASSUME Tidy, ScreenInv, Write
  PROVE  ScreenInv'
<1> DEFINE b == byte[now]
<1> DEFINE r == reg[now]
<1> DEFINE kept == container[now]
<1> DEFINE line == shown[now]
<1>1. /\ now \in Term /\ screen \in Screens /\ screen.page \in Page
      /\ b \in Text \cup {NL, END} /\ r \in 0..(COLS + ROWS) /\ kept \in Page
      /\ Fine(screen, wpc[now], b, r, kept, line)
      /\ wpc[now] \in Rest => Resting(screen, line)
  BY NowFacts DEF ScreenInv
<1>2. /\ byte = [byte EXCEPT ![now] = b] /\ reg = [reg EXCEPT ![now] = r]
      /\ container = [container EXCEPT ![now] = kept] /\ shown = [shown EXCEPT ![now] = line]
  BY <1>1 DEF ScreenInv
<1>3. /\ "user" \in Rest /\ "byte" \in Rest /\ Rest \subseteq Rest \cup Lines
      /\ Lines \subseteq Rest \cup Lines
      /\ {"put", "load_x", "store_x", "wrap", "load_y", "store_y", "bottom", "restore", "home"}
            \subseteq Rest \cup Lines
  BY DEF Rest, Lines
<1>4. 0 \in 0..(COLS + ROWS) /\ ROWS \in Nat /\ screen.y \in 0..ROWS
      /\ NL \in Text \cup {NL, END} /\ END \in Text \cup {NL, END} /\ BlankPage \in Page
  <2>1. BlankPage \in Page
    BY DEF BlankPage, Page, Text
  <2>2. screen.y \in 0..ROWS
    BY <1>1, ScreenFacts
  <2> QED
    BY <2>1, <2>2, Sizes
<1> HIDE DEF b, r, kept, line
<1>5. CASE WriteStart
  <2>1. /\ wpc' = [wpc EXCEPT ![now] = "byte"] /\ wpc[now] = "user" /\ screen' = screen
        /\ byte' = byte /\ reg' = reg /\ container' = container /\ shown' = shown
        /\ UNCHANGED <<terminal_idx, saved, char_cnt>>
    BY <1>5 DEF WriteStart, At, GoTo
  <2>2. Fine(screen', "byte", b, r, kept, line)
    BY <1>1, <1>3, <2>1, RestFine
  <2> QED
    BY <1>1, <1>2, <1>3, <2>1, <2>2, WriteStep
<1>6. ASSUME NEW c \in Text \cup {NL}, WriteByte(c) PROVE ScreenInv'
  <2>1. /\ byte' = [byte EXCEPT ![now] = c] /\ wpc[now] = "byte" /\ screen' = screen
        /\ reg' = reg /\ container' = container
        /\ UNCHANGED <<terminal_idx, saved, char_cnt>> /\ ~(screen.y >= ROWS)
        /\ c \in Text \cup {NL, END}
    BY <1>6, Tidy DEF WriteByte, At, Below
  <2>2. Resting(screen, line) /\ screen.y < ROWS
    BY <1>1, <1>3, <1>4, <2>1
  <2>3. CASE c = NL
    <3>1. wpc' = [wpc EXCEPT ![now] = "load_y"] /\ shown' = [shown EXCEPT ![now] = << >>]
      BY <1>6, <2>3 DEF WriteByte, GoTo
    <3>2. Fine(screen', "load_y", c, r, kept, << >>)
      BY <2>1, <2>2, <2>3, NewlineFine
    <3>3. /\ "load_y" \in Rest \cup Lines /\ c \in Text \cup {NL, END}
          /\ r \in 0..(COLS + ROWS) /\ kept \in Page
          /\ wpc' = [wpc EXCEPT ![now] = "load_y"] /\ byte' = [byte EXCEPT ![now] = c]
          /\ reg' = [reg EXCEPT ![now] = r] /\ container' = [container EXCEPT ![now] = kept]
          /\ shown' = [shown EXCEPT ![now] = << >>] /\ UNCHANGED <<terminal_idx, saved, char_cnt>>
      BY <1>1, <1>2, <1>3, <2>1, <3>1
    <3> QED
      BY <3>2, <3>3, WriteStep
  <2>4. CASE c # NL
    <3>1. wpc' = [wpc EXCEPT ![now] = "put"] /\ shown' = shown
      BY <1>6, <2>4 DEF WriteByte, GoTo
    <3>2. Fine(screen', "put", c, r, kept, line)
      BY <2>1, <2>2, <2>4, CharFine
    <3>3. /\ "put" \in Rest \cup Lines /\ c \in Text \cup {NL, END}
          /\ r \in 0..(COLS + ROWS) /\ kept \in Page
          /\ wpc' = [wpc EXCEPT ![now] = "put"] /\ byte' = [byte EXCEPT ![now] = c]
          /\ reg' = [reg EXCEPT ![now] = r] /\ container' = [container EXCEPT ![now] = kept]
          /\ shown' = [shown EXCEPT ![now] = line] /\ UNCHANGED <<terminal_idx, saved, char_cnt>>
      BY <1>1, <1>2, <1>3, <2>1, <3>1
    <3> QED
      BY <3>2, <3>3, WriteStep
  <2> QED
    BY <2>3, <2>4
<1>7. CASE WriteEnd
  <2>1. /\ wpc' = [wpc EXCEPT ![now] = "bottom"] /\ wpc[now] = "byte" /\ screen' = screen
        /\ byte' = [byte EXCEPT ![now] = END] /\ reg' = reg /\ container' = container
        /\ shown' = shown /\ UNCHANGED <<terminal_idx, saved, char_cnt>>
    BY <1>7 DEF WriteEnd, At, GoTo
  <2>2. Fine(screen', "bottom", END, r, kept, line)
    BY <1>1, <1>3, <2>1, EndFine
  <2>3. /\ "bottom" \in Rest \cup Lines /\ END \in Text \cup {NL, END}
        /\ r \in 0..(COLS + ROWS) /\ kept \in Page
        /\ wpc' = [wpc EXCEPT ![now] = "bottom"] /\ byte' = [byte EXCEPT ![now] = END]
        /\ reg' = [reg EXCEPT ![now] = r] /\ container' = [container EXCEPT ![now] = kept]
        /\ shown' = [shown EXCEPT ![now] = line] /\ UNCHANGED <<terminal_idx, saved, char_cnt>>
    BY <1>1, <1>2, <1>3, <1>4, <2>1
  <2> QED
    BY <2>2, <2>3, WriteStep
<1>8. CASE WritePut
  <2>1. /\ wpc' = [wpc EXCEPT ![now] = "load_x"] /\ wpc[now] = "put"
        /\ screen' = [screen EXCEPT !.page = Put(@, Pos(screen), b)]
        /\ byte' = byte /\ reg' = reg /\ container' = container
        /\ shown' = [shown EXCEPT ![now] = Longer(line, b)]
        /\ UNCHANGED <<terminal_idx, saved, char_cnt>>
    BY <1>8 DEF WritePut, At, GoTo, b, line
  <2>2. Fine(screen, "put", b, r, kept, line)
    BY <1>1, <2>1
  <2>3. Fine(screen', "load_x", b, r, kept, Longer(line, b))
    BY <2>1, <2>2, PutFine
  <2> QED
    BY <1>1, <1>2, <1>3, <2>1, <2>3, WriteStep
<1>9. CASE WriteLoadX
  <2>1. /\ wpc' = [wpc EXCEPT ![now] = "store_x"] /\ wpc[now] = "load_x" /\ screen' = screen
        /\ byte' = byte /\ reg' = [reg EXCEPT ![now] = screen.x + 1]
        /\ container' = container /\ shown' = shown
        /\ UNCHANGED <<terminal_idx, saved, char_cnt>>
    BY <1>9 DEF WriteLoadX, At, GoTo
  <2>2. Fine(screen, "load_x", b, r, kept, line)
    BY <1>1, <2>1
  <2>3. Fine(screen', "store_x", b, screen.x + 1, kept, line) /\ screen.x + 1 \in 0..(COLS + ROWS)
    BY <2>1, <2>2, LoadXFine
  <2>4. PICK w \in 0..(COLS + ROWS) : w = screen.x + 1
    BY <2>3
  <2>5. /\ "store_x" \in Rest \cup Lines /\ b \in Text \cup {NL, END}
        /\ w \in 0..(COLS + ROWS) /\ kept \in Page
        /\ wpc' = [wpc EXCEPT ![now] = "store_x"] /\ byte' = [byte EXCEPT ![now] = b]
        /\ reg' = [reg EXCEPT ![now] = w] /\ container' = [container EXCEPT ![now] = kept]
        /\ shown' = [shown EXCEPT ![now] = line] /\ UNCHANGED <<terminal_idx, saved, char_cnt>>
    BY <1>1, <1>2, <1>3, <2>1, <2>4
  <2>6. Fine(screen', "store_x", b, w, kept, line)
    BY <2>3, <2>4
  <2> QED
    BY <2>5, <2>6, WriteStep
<1>10. CASE WriteStoreX
  <2>1. /\ wpc' = [wpc EXCEPT ![now] = "wrap"] /\ wpc[now] = "store_x"
        /\ screen' = [screen EXCEPT !.x = r]
        /\ byte' = byte /\ reg' = [reg EXCEPT ![now] = 0]
        /\ container' = container /\ shown' = shown
        /\ UNCHANGED <<terminal_idx, saved, char_cnt>>
    BY <1>10 DEF WriteStoreX, At, GoTo, r
  <2>2. Fine(screen, "store_x", b, r, kept, line)
    BY <1>1, <2>1
  <2>3. Fine(screen', "wrap", b, 0, kept, line)
    BY <2>1, <2>2, StoreXFine
  <2> QED
    BY <1>1, <1>2, <1>3, <1>4, <2>1, <2>3, WriteStep
<1>11. CASE WriteWrap
  <2>1. /\ wpc[now] = "wrap" /\ byte' = byte /\ reg' = reg
        /\ container' = container /\ shown' = shown
        /\ UNCHANGED <<terminal_idx, saved, char_cnt>>
    BY <1>11 DEF WriteWrap, At
  <2>2. Fine(screen, "wrap", b, r, kept, line)
    BY <1>1, <2>1
  <2>3. CASE Full(screen)
    <3>1. wpc' = [wpc EXCEPT ![now] = "load_y"] /\ screen' = [screen EXCEPT !.x = 0]
      BY <1>11, <2>3 DEF WriteWrap, GoTo
    <3>2. Fine(screen', "load_y", b, r, kept, line)
      BY <2>2, <2>3, <3>1, WrapFine
    <3> QED
      BY <1>1, <1>2, <1>3, <2>1, <3>1, <3>2, WriteStep
  <2>4. CASE ~Full(screen)
    <3>1. wpc' = [wpc EXCEPT ![now] = "bottom"] /\ screen' = screen
      BY <1>11, <2>4 DEF WriteWrap, GoTo
    <3>2. Fine(screen', "bottom", b, r, kept, line)
      BY <2>2, <2>4, <3>1, NoWrapFine
    <3> QED
      BY <1>1, <1>2, <1>3, <2>1, <3>1, <3>2, WriteStep
  <2> QED
    BY <2>3, <2>4
<1>12. CASE WriteLoadY
  <2>1. /\ wpc' = [wpc EXCEPT ![now] = "store_y"] /\ wpc[now] = "load_y" /\ screen' = screen
        /\ byte' = byte /\ reg' = [reg EXCEPT ![now] = screen.y + 1]
        /\ container' = container /\ shown' = shown
        /\ UNCHANGED <<terminal_idx, saved, char_cnt>>
    BY <1>12 DEF WriteLoadY, At, GoTo
  <2>2. Fine(screen, "load_y", b, r, kept, line)
    BY <1>1, <2>1
  <2>3. Fine(screen', "store_y", b, screen.y + 1, kept, line) /\ screen.y + 1 \in 0..(COLS + ROWS)
    BY <2>1, <2>2, LoadYFine
  <2>4. PICK w \in 0..(COLS + ROWS) : w = screen.y + 1
    BY <2>3
  <2>5. /\ "store_y" \in Rest \cup Lines /\ b \in Text \cup {NL, END}
        /\ w \in 0..(COLS + ROWS) /\ kept \in Page
        /\ wpc' = [wpc EXCEPT ![now] = "store_y"] /\ byte' = [byte EXCEPT ![now] = b]
        /\ reg' = [reg EXCEPT ![now] = w] /\ container' = [container EXCEPT ![now] = kept]
        /\ shown' = [shown EXCEPT ![now] = line] /\ UNCHANGED <<terminal_idx, saved, char_cnt>>
    BY <1>1, <1>2, <1>3, <2>1, <2>4
  <2>6. Fine(screen', "store_y", b, w, kept, line)
    BY <2>3, <2>4
  <2> QED
    BY <2>5, <2>6, WriteStep
<1>13. CASE WriteStoreY
  <2>1. /\ wpc' = [wpc EXCEPT ![now] = "bottom"] /\ wpc[now] = "store_y"
        /\ screen' = [screen EXCEPT !.y = r, !.x = IF b = NL THEN 0 ELSE @]
        /\ byte' = byte /\ reg' = [reg EXCEPT ![now] = 0]
        /\ container' = container /\ shown' = shown
        /\ UNCHANGED <<terminal_idx, saved, char_cnt>>
    BY <1>13, Zenon DEF WriteStoreY, At, GoTo, r, b
  <2>2. Fine(screen, "store_y", b, r, kept, line)
    BY <1>1, <2>1
  <2>3. Fine(screen', "bottom", b, 0, kept, line)
    BY <2>1, <2>2, StoreYFine, Zenon
  <2> QED
    BY <1>1, <1>2, <1>3, <1>4, <2>1, <2>3, WriteStep
<1>14. CASE WriteBottom
  <2>1. /\ wpc[now] = "bottom" /\ screen' = screen /\ reg' = reg /\ shown' = shown
        /\ UNCHANGED <<terminal_idx, saved, char_cnt>>
    BY <1>14 DEF WriteBottom, At
  <2>2. Fine(screen, "bottom", b, r, kept, line)
    BY <1>1, <2>1
  <2>3. CASE screen.y = ROWS
    <3>1. /\ wpc' = [wpc EXCEPT ![now] = "restore"] /\ byte' = byte
          /\ container' = [container EXCEPT ![now] = screen.page]
      BY <1>14, <2>3 DEF WriteBottom, GoTo
    <3>2. Fine(screen', "restore", b, r, screen.page, line)
      BY <2>1, <2>2, <2>3, BelowFine
    <3> QED
      BY <1>1, <1>2, <1>3, <2>1, <3>1, <3>2, WriteStep
  <2>4. CASE screen.y # ROWS
    <3> DEFINE at == IF b = END THEN "user" ELSE "byte"
    <3>1. /\ wpc' = [wpc EXCEPT ![now] = at] /\ byte' = [byte EXCEPT ![now] = NL]
          /\ container' = container
      BY <1>14, <2>4 DEF WriteBottom, Onward, GoTo, b
    <3>2. at \in Rest /\ at \in Rest \cup Lines
      BY <1>3
    <3> HIDE DEF at
    <3>3. Fine(screen', at, NL, r, kept, line)
      BY <2>1, <2>2, <3>2, BottomResting, RestFine
    <3> QED
      BY <1>1, <1>2, <1>4, <2>1, <3>1, <3>2, <3>3, WriteStep
  <2> QED
    BY <2>3, <2>4
<1>15. CASE WriteRestore
  <2>1. /\ wpc' = [wpc EXCEPT ![now] = "home"] /\ wpc[now] = "restore"
        /\ screen' = [page |-> RowsUp(kept, screen.page), x |-> 0, y |-> ROWS - 2]
        /\ container' = [container EXCEPT ![now] = BlankPage]
        /\ byte' = byte /\ reg' = reg /\ shown' = shown
        /\ UNCHANGED <<terminal_idx, saved, char_cnt>>
    BY <1>15 DEF WriteRestore, At, GoTo, kept
  <2>2. Fine(screen, "restore", b, r, kept, line)
    BY <1>1, <2>1
  <2>3. Fine(screen', "home", b, r, BlankPage, line)
    BY <2>1, <2>2, RestoreFine
  <2> QED
    BY <1>1, <1>2, <1>3, <1>4, <2>1, <2>3, WriteStep
<1>16. CASE WriteHome
  <2> DEFINE at == IF b = END THEN "user" ELSE "byte"
  <2>1. /\ wpc' = [wpc EXCEPT ![now] = at] /\ wpc[now] = "home"
        /\ screen' = [screen EXCEPT !.x = 0, !.y = ROWS - 1]
        /\ byte' = [byte EXCEPT ![now] = NL]
        /\ container' = container /\ reg' = reg /\ shown' = shown
        /\ UNCHANGED <<terminal_idx, saved, char_cnt>>
    BY <1>16 DEF WriteHome, At, Onward, GoTo, b
  <2>2. at \in Rest /\ at \in Rest \cup Lines
    BY <1>3
  <2> HIDE DEF at
  <2>3. Fine(screen, "home", b, r, kept, line)
    BY <1>1, <2>1
  <2>4. Fine(screen', at, NL, r, kept, line)
    BY <2>1, <2>2, <2>3, HomeResting, RestFine
  <2> QED
    BY <1>1, <1>2, <1>4, <2>1, <2>2, <2>4, WriteStep
<1> QED
  BY <1>5, <1>6, <1>7, <1>8, <1>9, <1>10, <1>11, <1>12, <1>13, <1>14, <1>15, <1>16 DEF Write

\* ScreenInv holds in every state when keys arrive between bytes.
LEMMA ScreenAlways ==
  ASSUME ~Split, Tidy
  PROVE  Spec => []ScreenInv
<1>1. Init => ScreenInv
  BY ScreenInit
<1>2. ScreenInv /\ [Next]_vars => ScreenInv'
  <2> SUFFICES ASSUME ScreenInv, [Next]_vars PROVE ScreenInv'
    OBVIOUS
  <2>1. CASE Key
    BY <2>1, ~Split, Tidy, KeysKeep
  <2>2. CASE Write
    BY <2>2, Tidy, WritesKeep
  <2>3. CASE UNCHANGED vars
    <3>1. /\ terminal_idx' = terminal_idx /\ screen' = screen /\ saved' = saved
          /\ char_cnt' = char_cnt /\ wpc' = wpc /\ byte' = byte /\ reg' = reg
          /\ container' = container /\ shown' = shown
      BY <2>3 DEF vars, writeVars
    <3> QED
      BY <3>1 DEF ScreenInv, ScreenOf, now
  <2> QED
    BY <2>1, <2>2, <2>3 DEF Next
<1> QED
  BY <1>1, <1>2, PTL DEF Spec

-----------------------------------------------------------------------------
(* The theorems *)

\* No store leaves the page: the cell under the cursor is one of the page,
\* below the last row too.
LEMMA CursorInPage ==
  ASSUME NEW s, NEW at \in Rest \cup Lines, NEW b, NEW r, NEW kept, NEW line,
         Fine(s, at, b, r, kept, line)
  PROVE  Pos(s) \in Cells
<1>1. s \in Screens /\ Sound(s.page, NextCell(s, at), line)
  BY DEF Fine
<1>2. /\ COLS * s.y \in Nat /\ s.x \in Nat /\ s.x <= COLS /\ s.y \in 0..ROWS
      /\ Pos(s) = COLS * s.y + s.x /\ Pos(s) \in Nat
  <2>1. COLS \in Nat
    BY Sizes
  <2> QED
    BY <1>1, <2>1, ScreenFacts
<1>3. COLS \in Nat /\ COLS * ROWS \in Nat /\ PAGE \in Nat /\ COLS * ROWS < PAGE
  BY Sizes
<1>4. Pos(s) <= COLS * ROWS
  <2>1. NextCell(s, at) <= COLS * ROWS
    BY <1>1 DEF Sound
  <2>2. Pos(s) <= NextCell(s, at)
    <3>1. Pos(s) <= Pos(s) + 1 /\ Pos(s) <= Pos(s)
      BY <1>2
    <3>2. PICK m \in Nat : m = COLS * s.y
      BY <1>2
    <3>3. Pos(s) <= m + COLS
      BY <1>2, <1>3, <3>2
    <3> QED
      BY <3>1, <3>2, <3>3 DEF NextCell
  <2>3. NextCell(s, at) \in Nat
    BY <1>2, <1>3 DEF NextCell
  <2> QED
    BY <1>2, <1>3, <2>1, <2>2, <2>3
<1> QED
  BY <1>2, <1>3, <1>4 DEF Cells

\* For every size of screen and page, when keys arrive between the bytes of a
\* program's output: the cursor is on a cell of the screen, or below its end
\* when the last cell has been filled, and no store leaves the page.
THEOREM CursorStaysOnScreen ==
  ASSUME ~Split, Tidy
  PROVE  Spec => []CursorOnScreen
<1>1. ScreenInv => CursorOnScreen
  <2> SUFFICES ASSUME ScreenInv PROVE CursorOnScreen
    OBVIOUS
  <2>1. ASSUME NEW t \in Term
        PROVE  /\ ScreenOf(t) \in Screens /\ Pos(ScreenOf(t)) \in Cells
               /\ wpc[t] \in Rest => Resting(ScreenOf(t), shown[t])
    <3>1. wpc[t] \in Rest \cup Lines
          /\ Fine(ScreenOf(t), wpc[t], byte[t], reg[t], container[t], shown[t])
      BY DEF ScreenInv
    <3>2. Pos(ScreenOf(t)) \in Cells
      BY <3>1, CursorInPage
    <3>3. wpc[t] \in Rest => Resting(ScreenOf(t), shown[t])
      BY <3>1, RestFine
    <3> QED
      BY <3>1, <3>2, <3>3 DEF Fine
  <2>2. \A t \in Term : /\ ScreenOf(t).page \in Page
                       /\ ScreenOf(t).x \in 0..COLS /\ ScreenOf(t).y \in 0..ROWS
                       /\ Pos(ScreenOf(t)) \in Cells
    BY <2>1 DEF Screens
  <2>3. TypeOK
    BY <2>2 DEF TypeOK, ScreenInv
  <2>4. \A t \in Term : wpc[t] \in Rest =>
            OnScreen(ScreenOf(t)) \/ BelowEnd(ScreenOf(t))
    BY <2>1 DEF Resting
  <2>5. 0 \in 0..(COLS - 1)
    BY Sizes
  <2> QED
    BY <2>3, <2>4, <2>5 DEF CursorOnScreen, OnScreen, BelowEnd
<1> QED
  BY <1>1, ScreenAlways, ~Split, Tidy, PTL

\* For every size of screen: the characters since the line began stand before
\* the cursor in the order they came, through wraps, scrolls, backspaces and
\* switches of the terminal.
THEOREM LineStaysBeforeCursor ==
  ASSUME ~Split, Tidy
  PROVE  Spec => []LineBeforeCursor
<1>1. ScreenInv => LineBeforeCursor
  <2> SUFFICES ASSUME ScreenInv, NEW t \in Term, wpc[t] \in Rest, NEW k \in 1..Len(shown[t])
               PROVE  /\ Pos(ScreenOf(t)) >= k
                      /\ ScreenOf(t).page[Pos(ScreenOf(t)) - k] = shown[t][Len(shown[t]) + 1 - k]
    BY DEF LineBeforeCursor
  <2>1. Resting(ScreenOf(t), shown[t])
    BY RestFine DEF ScreenInv
  <2>2. Pos(ScreenOf(t)) \in Nat
    BY <2>1, RestFacts
  <2>3. Len(shown[t]) \in Nat
    BY DEF ScreenInv
  <2> QED
    BY <2>1, <2>2, <2>3 DEF Resting, Sound
<1> QED
  BY <1>1, ScreenAlways, ~Split, Tidy, PTL

\* For every size of screen: no character stands behind the cursor, the stray
\* one that update_cursor is given after Enter included.
THEOREM BlankStaysBehindCursor ==
  ASSUME ~Split, Tidy
  PROVE  Spec => []BlankBehindCursor
<1>1. ScreenInv => BlankBehindCursor
  <2> SUFFICES ASSUME ScreenInv, NEW t \in Term, wpc[t] \in Rest, NEW c \in Cells,
                      Pos(ScreenOf(t)) <= c, c < COLS * ROWS
               PROVE  ScreenOf(t).page[c] = BLANK
    BY DEF BlankBehindCursor
  <2>1. Resting(ScreenOf(t), shown[t])
    BY RestFine DEF ScreenInv
  <2> QED
    BY <2>1 DEF Resting, Sound
<1> QED
  BY <1>1, ScreenAlways, ~Split, Tidy, PTL

===============================================================================

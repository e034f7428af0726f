-------------------------------- MODULE Console --------------------------------
(***************************************************************************)
(* printf of the C library and what it calls: itoa, strrev, puts, putc.    *)
(* It draws with a cursor of its own, from the kernel's first line to the  *)
(* message of an exception; programs write through the terminals (Screen). *)
(*                                                                         *)
(* A character is a number: a digit is its value, and the others are below *)
(* zero.  A machine word has WORD values; printed in radix HEX it fills at *)
(* most DIGITS places (32 bits, 16 and 8 in the code).                     *)
(***************************************************************************)
EXTENDS Integers, SequencesExt

CONSTANTS COLS, ROWS, WORD, HEX, DEC, DIGITS

ASSUME ConsoleBounds ==
    /\ {COLS, ROWS, DIGITS} \subseteq Nat \ {0}
    /\ {HEX, DEC} \subseteq Nat \ {0, 1}
    /\ HEX ^ DIGITS = WORD /\ DEC >= HEX

LETTER == -1        \* any character of a literal text
BLANK == -2
MINUS == -3
NUL == -4
NEWLINE == -5
JUNK == -6          \* what the stack held

(***************************************************************************)
(* The pieces of a format string, each with its argument.                  *)
(***************************************************************************)
Literal(c) == [conv |-> "literal", arg |-> c]
Number(conv, v) == [conv |-> conv, arg |-> v]
String(s) == [conv |-> "s", arg |-> s]
SHARP == [conv |-> "#", arg |-> 0]
Padded(v) == <<SHARP, Number("x", v)>>          \* %#x

VARIABLES
    screen_x, screen_y,
    video,      \* the ROWS * COLS characters of video memory on display
    pc,         \* "caller", or where printf is
    format,     \* the pieces printf has not come to
    alternate,  \* was # seen?
    conv_buf,   \* a number's characters
    itoa_at,    \* itoa's buf, newbuf and newval; then strrev's beg and end
    puts_at,    \* puts' s and index
    asked       \* history: the lines that callers asked for

consoleVars == <<screen_x, screen_y, video, pc, format, alternate, conv_buf, itoa_at,
                 puts_at, asked>>

Blanks == [i \in 0..(ROWS * COLS - 1) |-> BLANK]
Unused == [i \in 0..(2 * DIGITS) |-> JUNK]
NoItoa == [buf |-> 0, beg |-> 0, end |-> 0, newval |-> 0, radix |-> HEX]
NoPuts == [s |-> [i \in {0} |-> NUL], index |-> 0]

ConsoleInit ==
    /\ screen_x = 0 /\ screen_y = 0
    /\ video = Blanks
    /\ pc = "caller"
    /\ format = << >> /\ alternate = FALSE
    /\ conv_buf = Unused
    /\ itoa_at = NoItoa /\ puts_at = NoPuts
    /\ asked = << << >> >>

-----------------------------------------------------------------------------
(* What a caller asks for, whatever printf's way of working *)

\* The digits of a number, the highest first, none of them a leading zero.
Places(v, radix) == CHOOSE n \in 1..WORD : v < radix ^ n /\ (n > 1 => radix ^ (n - 1) <= v)
Digits(v, radix, n) == [i \in 1..n |-> (v \div radix ^ (n - i)) % radix]

Meant(piece, padded) ==
    LET v == piece.arg IN
    CASE piece.conv = "literal" -> <<v>>
      [] piece.conv = "#" -> << >>
      [] piece.conv = "s" -> v
      [] piece.conv = "x" -> Digits(v, HEX, IF padded THEN DIGITS ELSE Places(v, HEX))
      [] piece.conv = "u" -> Digits(v, DEC, Places(v, DEC))
      [] piece.conv = "d" -> IF 2 * v < WORD THEN Digits(v, DEC, Places(v, DEC))
                             ELSE <<MINUS>> \o Digits(WORD - v, DEC, Places(WORD - v, DEC))

\* The characters of a whole call, and the lines they make.
Text(f) == FlattenSeq([i \in 1..Len(f) |-> Meant(f[i], i > 1 /\ f[i - 1] = SHARP)])
Typed(lines, c) ==
    IF c = NEWLINE THEN Append(lines, << >>)
    ELSE [lines EXCEPT ![Len(lines)] = Append(@, c)]

-----------------------------------------------------------------------------
(* putc and clear *)

Wrap(x) == x % COLS

\* A character after the last row is drawn outside of the page.
putc(c) ==
    IF c = NEWLINE
    THEN /\ screen_y' = screen_y + 1
         /\ screen_x' = 0
         /\ UNCHANGED video
    ELSE /\ video' = [video EXCEPT ![COLS * screen_y + screen_x] = c]
         /\ screen_x' = Wrap(screen_x + 1)
         /\ screen_y' = (screen_y + screen_x' \div COLS) % ROWS

clear == video' = Blanks

-----------------------------------------------------------------------------
(* printf *)

Call(f) ==
    /\ pc = "caller"
    /\ pc' = "printf"
    /\ format' = f
    /\ conv_buf' = Unused
    /\ asked' = FoldLeft(Typed, asked, Text(f))

Piece(convs) == pc = "printf" /\ format # << >> /\ Head(format).conv \in convs

PrintChar ==
    /\ Piece({"literal"})
    /\ putc(Head(format).arg)
    /\ format' = Tail(format)
    /\ alternate' = FALSE
    /\ UNCHANGED <<pc, conv_buf, itoa_at, puts_at, asked>>

\* Without the step past the sign.
SharpAgain == format

AfterSharp == Tail(format)

PrintSharp ==
    /\ Piece({"#"})
    /\ alternate' = TRUE
    /\ format' = AfterSharp
    /\ UNCHANGED <<screen_x, screen_y, video, pc, conv_buf, itoa_at, puts_at, asked>>

PrintString ==
    /\ Piece({"s"})
    /\ LET s == Head(format).arg IN
       puts_at' = [s |-> [i \in 0..Len(s) |-> IF i = Len(s) THEN NUL ELSE s[i + 1]],
                   index |-> 0]
    /\ pc' = "puts"
    /\ format' = Tail(format)
    /\ alternate' = FALSE
    /\ UNCHANGED <<screen_x, screen_y, video, conv_buf, itoa_at, asked>>

\* Where the digits go and the value they are of.
PrintNumber ==
    /\ Piece({"x", "u", "d"})
    /\ LET v == Head(format).arg
           conv == Head(format).conv
           negative == conv = "d" /\ 2 * v >= WORD
           buf == IF alternate THEN DIGITS ELSE IF negative THEN 1 ELSE 0
           value == IF negative THEN WORD - v ELSE v
       IN /\ itoa_at' = [buf |-> buf, beg |-> buf, end |-> buf, newval |-> value,
                         radix |-> IF conv = "x" THEN HEX ELSE DEC]
          /\ conv_buf' = IF negative THEN [conv_buf EXCEPT ![0] = MINUS]
                         ELSE IF value = 0 THEN [conv_buf EXCEPT ![buf] = 0, ![buf + 1] = NUL]
                         ELSE conv_buf
          /\ pc' = IF value = 0 THEN "converted" ELSE "itoa"
    /\ UNCHANGED <<screen_x, screen_y, video, format, alternate, puts_at, asked>>

\* One place, lowest first; end is newbuf.
ItoaDigit ==
    /\ pc = "itoa" /\ itoa_at.newval > 0
    /\ conv_buf' = [conv_buf EXCEPT ![itoa_at.end] = itoa_at.newval % itoa_at.radix]
    /\ itoa_at' = [itoa_at EXCEPT !.end = @ + 1, !.newval = @ \div itoa_at.radix]
    /\ UNCHANGED <<screen_x, screen_y, video, pc, format, alternate, puts_at, asked>>

\* strrev's last place taken for the NUL.
LastWithNul(end) == end

LastPlace(end) == end - 1

ItoaEnds ==
    /\ pc = "itoa" /\ itoa_at.newval = 0
    /\ conv_buf' = [conv_buf EXCEPT ![itoa_at.end] = NUL]
    /\ itoa_at' = [itoa_at EXCEPT !.end = LastPlace(@)]
    /\ pc' = "strrev"
    /\ UNCHANGED <<screen_x, screen_y, video, format, alternate, puts_at, asked>>

StrrevSwap ==
    /\ pc = "strrev" /\ itoa_at.beg < itoa_at.end
    /\ conv_buf' = [conv_buf EXCEPT ![itoa_at.beg] = conv_buf[itoa_at.end],
                                    ![itoa_at.end] = conv_buf[itoa_at.beg]]
    /\ itoa_at' = [itoa_at EXCEPT !.beg = @ + 1, !.end = @ - 1]
    /\ UNCHANGED <<screen_x, screen_y, video, pc, format, alternate, puts_at, asked>>

StrrevEnds ==
    /\ pc = "strrev" /\ itoa_at.beg >= itoa_at.end
    /\ pc' = "converted"
    /\ UNCHANGED <<screen_x, screen_y, video, format, alternate, conv_buf, itoa_at,
                   puts_at, asked>>

\* With # the places up to DIGITS are zeros, before the digits at DIGITS.
PutNumber ==
    /\ pc = "converted"
    /\ LET n == CHOOSE k \in 0..DIGITS :
                  /\ conv_buf[itoa_at.buf + k] = NUL
                  /\ \A j \in 0..(k - 1) : conv_buf[itoa_at.buf + j] # NUL
           start == IF alternate THEN n ELSE 0
           filled == [i \in DOMAIN conv_buf |->
                        IF alternate /\ i \in n..(DIGITS - 1) THEN 0 ELSE conv_buf[i]]
       IN /\ conv_buf' = filled
          /\ puts_at' = [s |-> [i \in 0..(2 * DIGITS - start) |-> filled[start + i]],
                         index |-> 0]
    /\ pc' = "puts"
    /\ itoa_at' = NoItoa
    /\ format' = Tail(format)
    /\ alternate' = FALSE
    /\ UNCHANGED <<screen_x, screen_y, video, asked>>

PutsChar ==
    /\ pc = "puts" /\ puts_at.s[puts_at.index] # NUL
    /\ putc(puts_at.s[puts_at.index])
    /\ puts_at' = [puts_at EXCEPT !.index = @ + 1]
    /\ UNCHANGED <<pc, format, alternate, conv_buf, itoa_at, asked>>

PutsEnds ==
    /\ pc = "puts" /\ puts_at.s[puts_at.index] = NUL
    /\ pc' = "printf"
    /\ puts_at' = NoPuts
    /\ UNCHANGED <<screen_x, screen_y, video, format, alternate, conv_buf, itoa_at, asked>>

PrintfReturns ==
    /\ pc = "printf" /\ format = << >>
    /\ pc' = "caller"
    /\ UNCHANGED <<screen_x, screen_y, video, format, alternate, conv_buf, itoa_at,
                   puts_at, asked>>

Printing ==
    \/ PrintChar \/ PrintSharp \/ PrintString \/ PrintNumber
    \/ ItoaDigit \/ ItoaEnds \/ StrrevSwap \/ StrrevEnds \/ PutNumber
    \/ PutsChar \/ PutsEnds \/ PrintfReturns

-----------------------------------------------------------------------------
(* Properties *)

\* Every variable stays in its range.
ConsoleTypeOK ==
    /\ screen_x \in 0..(COLS - 1) /\ screen_y \in 0..ROWS
    /\ video \in [0..(ROWS * COLS - 1) -> LETTER..(WORD - 1) \cup {BLANK, MINUS}]
    /\ pc \in {"caller", "printf", "itoa", "strrev", "converted", "puts"}
    /\ alternate \in BOOLEAN
    /\ conv_buf \in [0..(2 * DIGITS) -> JUNK..(WORD - 1)]
    /\ itoa_at.end \in 0..(2 * DIGITS)

\* No line is longer than its row, and none comes after the last row.
FitsPage ==
    /\ \A r \in DOMAIN asked : Len(asked[r]) <= COLS
    /\ \/ Len(asked) <= ROWS
       \/ Len(asked) = ROWS + 1 /\ Last(asked) = << >>

\* "print a number in hexadecimal / as an unsigned integer / as a signed
\* integer", "zero-padded on the left" with # (lib.c:35-43): between two calls,
\* as long as what was asked for fits on the page, each row shows its line, every
\* number with the digits of the argument in order, no digit lost, doubled or
\* left over from another number; and the cursor never leaves the rows further
\* than by the one below the page, whatever was asked for.
LinesShown ==
    ConsoleTypeOK /\ ((pc = "caller" /\ FitsPage) =>
        \A r \in 0..(ROWS - 1), x \in 0..(COLS - 1) :
            video[COLS * r + x] =
                IF r < Len(asked) /\ x < Len(asked[r + 1]) THEN asked[r + 1][x + 1] ELSE BLANK)

\* A call of printf returns to its caller.
CallsReturn == []<>(pc = "caller")
=============================================================================

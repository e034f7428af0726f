----------------------------- MODULE TerminalInput -----------------------------
(***************************************************************************)
(* The line discipline of the terminals: the keyboard handler edits the    *)
(* line buffer of the terminal on display, Enter moves it to that          *)
(* terminal's terminal_buf, and terminal_read, spinning with interrupts    *)
(* on, copies it to the caller.                                            *)
(*                                                                         *)
(* A process runs only while its terminal is on display, so the reader of  *)
(* terminal t takes steps only when terminal_idx = t; Alt+Fn suspends it   *)
(* anywhere in its loop.  The handler runs with interrupts off and is one  *)
(* step; the loop of terminal_read is one step per iteration and test.     *)
(*                                                                         *)
(* line_buf and terminal_buf are the arrays as they lie in memory: row t   *)
(* begins at cell t * SIZE, and the cell after the last row belongs to     *)
(* another variable (alt_flag and the low byte of inode_start).            *)
(***************************************************************************)
EXTENDS Integers, Sequences

CONSTANTS
    TM_MAX,     \* terminals
    SIZE,       \* LINE_BUF_SIZE = LINE_BUF_MAX = 128, the length of a row
    Char,       \* what a key stores: a character, or "nul" for a key without one
    NBYTES,     \* the values of nbytes that readers use
    Caller,     \* the bytes a caller may have next to its buffer
    EnterFull   \* may Enter be pressed on a line of SIZE characters?

ASSUME InputBounds ==
    /\ TM_MAX \in Nat \ {0}
    /\ SIZE \in Nat \ {0}
    /\ NBYTES \subseteq Nat
    /\ Caller \subseteq Char \cup {"nl", "nul"}
    /\ EnterFull \in BOOLEAN

Term == 0..(TM_MAX - 1)
NL == "nl"
NUL == "nul"
FOREIGN == "other"                        \* the neighbour's own byte
Byte == Char \cup {NL, NUL, FOREIGN}

Cells == 0..(TM_MAX * SIZE)
Cell(t, n) == t * SIZE + n
Row(mem, t, n) == [k \in 1..n |-> mem[Cell(t, k - 1)]]

VARIABLES
    terminal_idx,
    line_buf,       \* keyboard.c
    char_cnt,       \* term_t.char_cnt
    terminal_buf,   \* keyboard.c, read by terminal_read
    t_char_cnt,     \* keyboard.c: one counter for the three terminals
    rpc,            \* where the reader of each terminal is
    i,              \* terminal_read's i
    nbytes,         \* terminal_read's nbytes
    buf,            \* terminal_read's buf
    echo,           \* history: the characters of the line shown on the screen
    unread,         \* history: the line entered last, until a read returns it
    intact          \* history: did line 318 find the count of this terminal's line,
                    \* and has since then no key entered a line and no other read
                    \* reset the count?

bufVars  == <<line_buf, char_cnt, terminal_buf, t_char_cnt>>
readVars == <<rpc, i, nbytes, buf>>
histVars == <<echo, unread, intact>>
vars == <<terminal_idx, bufVars, readVars, histVars>>

Reading == {"loop", "copy", "check", "accept"}
BufIndex == 0..SIZE             \* the part of buf that the loop can touch

Init ==
    /\ terminal_idx = 0
    /\ line_buf = [c \in Cells |-> IF c = TM_MAX * SIZE THEN FOREIGN ELSE NUL]
    /\ terminal_buf = line_buf
    /\ char_cnt = [t \in Term |-> 0]
    /\ t_char_cnt = 0
    /\ rpc = [t \in Term |-> "user"]
    /\ i = [t \in Term |-> 0]
    /\ nbytes = [t \in Term |-> 0]
    /\ buf = [t \in Term |-> [n \in BufIndex |-> NUL]]
    /\ echo = [t \in Term |-> << >>]
    /\ unread = [t \in Term |-> << >>]
    /\ intact = [t \in Term |-> FALSE]

-----------------------------------------------------------------------------
(* keyboard_handler, one action per kind of key *)

now == terminal_idx
count == char_cnt[now]

\* Any other key.  The character that fills the line is stored, not echoed.
KeyChar(c) ==
    /\ count < SIZE
    /\ line_buf' = [line_buf EXCEPT ![Cell(now, count)] = c]
    /\ char_cnt' = [char_cnt EXCEPT ![now] = @ + 1]
    /\ echo' = IF count + 1 < SIZE THEN [echo EXCEPT ![now] = Append(@, c)] ELSE echo
    /\ UNCHANGED <<terminal_idx, terminal_buf, t_char_cnt, readVars, unread, intact>>

\* backspace_cursor; in a full line it gives back two characters.
KeyBackspace ==
    LET n == IF count = SIZE THEN count - 1 ELSE count IN
    IF n = 0
    THEN /\ char_cnt' = [char_cnt EXCEPT ![now] = n]
         /\ UNCHANGED <<terminal_idx, line_buf, terminal_buf, t_char_cnt, readVars, histVars>>
    ELSE /\ line_buf' = [line_buf EXCEPT ![Cell(now, n)] = NUL]
         /\ char_cnt' = [char_cnt EXCEPT ![now] = n - 1]
         /\ echo' = [echo EXCEPT ![now] = SubSeq(@, 1, Len(@) - 1)]
         /\ UNCHANGED <<terminal_idx, terminal_buf, t_char_cnt, readVars, unread, intact>>

\* The copy loop started at 1.
EnteredLate(c) ==
    IF c = Cell(now, count) THEN NL
    ELSE IF c \in Cell(now, 1)..Cell(now, count) THEN line_buf[c] ELSE terminal_buf[c]

\* Byte c of terminal_buf after the line has been ended and copied.
Entered(c) ==
    IF c = Cell(now, count) THEN NL
    ELSE IF c \in Cell(now, 0)..Cell(now, count) THEN line_buf[c] ELSE terminal_buf[c]

\* newline_cursor
KeyEnter ==
    /\ ~EnterFull => count < SIZE
    /\ terminal_buf' = [c \in Cells |-> Entered(c)]
    /\ line_buf' = [c \in Cells |->
            IF c \in Cell(now, 0)..Cell(now, count) THEN NUL ELSE line_buf[c]]
    /\ t_char_cnt' = count + 1
    /\ char_cnt' = [char_cnt EXCEPT ![now] = 0]
    /\ echo' = [echo EXCEPT ![now] = << >>]
    /\ unread' = [unread EXCEPT ![now] = Append(echo[now], NL)]
    /\ intact' = [t \in Term |-> FALSE]
    /\ UNCHANGED <<terminal_idx, readVars>>

\* Ctrl+L without lines 283-288: the screen is cleared, the line is not.
KeyClearScreenOnly ==
    /\ echo' = [echo EXCEPT ![now] = << >>]
    /\ UNCHANGED <<terminal_idx, bufVars, readVars, unread, intact>>

\* Ctrl+L: the character l is stored first, then the line and the screen are cleared.
KeyClear ==
    LET n == IF count < SIZE THEN count + 1 ELSE count IN
    /\ line_buf' = [c \in Cells |->
            IF c \in Cell(now, 0)..Cell(now, n - 1) THEN NUL ELSE line_buf[c]]
    /\ char_cnt' = [char_cnt EXCEPT ![now] = 0]
    /\ echo' = [echo EXCEPT ![now] = << >>]
    /\ UNCHANGED <<terminal_idx, terminal_buf, t_char_cnt, readVars, unread, intact>>

\* Alt+Fn to another terminal
KeySwitch(t) ==
    /\ t # now
    /\ terminal_idx' = t
    /\ UNCHANGED <<bufVars, readVars, histVars>>

-----------------------------------------------------------------------------
(* terminal_read *)

\* Lines 306-316: clear buf, then sti.
ReadStart(n) ==
    /\ rpc[now] = "user"
    /\ nbytes' = [nbytes EXCEPT ![now] = n]
    /\ buf' = [buf EXCEPT ![now] =
            [k \in BufIndex |-> IF k < SIZE \/ k < n THEN NUL ELSE FOREIGN]]
    /\ rpc' = [rpc EXCEPT ![now] = "loop"]
    /\ UNCHANGED <<terminal_idx, bufVars, i, histVars>>

\* The count is that of the line entered here and not read.
Counted(t) == t_char_cnt = Len(unread[t])

\* Line 318
ReadPoll ==
    /\ rpc[now] = "loop"
    /\ t_char_cnt > 0
    /\ i' = [i EXCEPT ![now] = 0]
    /\ rpc' = [rpc EXCEPT ![now] = "copy"]
    /\ intact' = [intact EXCEPT ![now] = Counted(now)]
    /\ UNCHANGED <<terminal_idx, bufVars, nbytes, buf, echo, unread>>

\* Line 319 with && for ||.
MoreRequested(k) == k < nbytes[now] /\ k < SIZE /\ k < t_char_cnt

\* The condition of line 319: nbytes is not a limit unless it exceeds SIZE.
More(k) == (k < nbytes[now] \/ k < SIZE) /\ k < t_char_cnt

\* Lines 320-323, one iteration
ReadCopy ==
    LET k == i[now] IN
    /\ rpc[now] = "copy"
    /\ More(k)
    /\ buf' = [buf EXCEPT ![now][k] = terminal_buf[Cell(now, k)]]
    /\ i' = [i EXCEPT ![now] = k + 1]
    /\ UNCHANGED <<terminal_idx, bufVars, rpc, nbytes, histVars>>

ReadCopied ==
    /\ rpc[now] = "copy"
    /\ ~More(i[now])
    /\ rpc' = [rpc EXCEPT ![now] = "check"]
    /\ i' = [i EXCEPT ![now] = 0]      \* not used again
    /\ UNCHANGED <<terminal_idx, bufVars, nbytes, buf, histVars>>

\* Line 324.  buf[-1], when another terminal's reader has reset t_char_cnt, and
\* a byte past the end of buf are the caller's memory.
ReadCheck ==
    LET ours == t_char_cnt > 0 /\ buf[now][t_char_cnt - 1] # FOREIGN IN
    /\ rpc[now] = "check"
    /\ \E b \in IF ours THEN {buf[now][t_char_cnt - 1]} ELSE Caller :
        IF b = NL
        THEN rpc' = [rpc EXCEPT ![now] = "accept"] /\ UNCHANGED intact
        ELSE /\ rpc' = [rpc EXCEPT ![now] = "loop"]
             /\ intact' = [intact EXCEPT ![now] = FALSE]
    /\ UNCHANGED <<terminal_idx, bufVars, i, nbytes, buf, echo, unread>>

\* Lines 329-336, after cli: t_char_cnt bytes are returned.
ReadReturn ==
    /\ rpc[now] = "accept"
    /\ terminal_buf' = [c \in Cells |->
            IF c \in Cell(now, 0)..Cell(now, t_char_cnt - 1) THEN NUL ELSE terminal_buf[c]]
    /\ t_char_cnt' = 0
    /\ rpc' = [rpc EXCEPT ![now] = "user"]
    /\ buf' = [buf EXCEPT ![now] = [k \in BufIndex |-> NUL]]   \* the caller's from here
    /\ i' = [i EXCEPT ![now] = 0]
    /\ nbytes' = [nbytes EXCEPT ![now] = 0]
    /\ unread' = [unread EXCEPT ![now] = << >>]
    /\ intact' = [t \in Term |-> FALSE]
    /\ UNCHANGED <<terminal_idx, line_buf, char_cnt, echo>>

Key ==
    \/ \E c \in Char : KeyChar(c)
    \/ KeyBackspace \/ KeyEnter \/ KeyClear
    \/ \E t \in Term : KeySwitch(t)

Read ==
    \/ \E n \in NBYTES : ReadStart(n)
    \/ ReadPoll \/ ReadCopy \/ ReadCopied \/ ReadCheck \/ ReadReturn

Next == Key \/ Read

Spec == Init /\ [][Next]_vars

\* The processor runs the displayed terminal's process whenever no key is handled.
FairSpec == Spec /\ WF_vars(ReadPoll \/ ReadCopy \/ ReadCopied \/ ReadCheck \/ ReadReturn)

-----------------------------------------------------------------------------
(* Properties *)

\* Every variable stays in its range: no count passes the row it counts in.
TypeOK ==
    /\ terminal_idx \in Term
    /\ line_buf \in [Cells -> Byte]
    /\ char_cnt \in [Term -> 0..SIZE]
    /\ terminal_buf \in [Cells -> Byte]
    /\ t_char_cnt \in 0..(SIZE + 1)
    /\ rpc \in [Term -> Reading \cup {"user"}]
    /\ i \in [Term -> 0..(SIZE + 1)]
    /\ buf \in [Term -> [BufIndex -> Byte]]

\* What is on the screen is what is in the line buffer: the characters echoed
\* since the last Enter or Ctrl+L and not erased are the first ones of the row,
\* and only the one that fills the row is stored unseen.
EchoIsLine ==
    TypeOK /\ \A t \in Term :
        LET shown == IF char_cnt[t] = SIZE THEN SIZE - 1 ELSE char_cnt[t] IN
        Row(line_buf, t, shown) = echo[t]

\* A read returns the line its own user entered last, whole and with its length,
\* whatever was typed ahead and wherever in it Alt+Fn was pressed, to terminals
\* whose readers spin on the same count: unless, between line 318 and the return,
\* Enter was pressed or another read returned, or the count was another line's.
ReadsWholeLine ==
    [][\A t \in Term : rpc[t] = "accept" /\ rpc'[t] = "user" /\ intact[t] =>
        /\ unread[t] # << >> /\ t_char_cnt = Len(unread[t])
        /\ \A k \in 1..t_char_cnt : buf[t][k - 1] = unread[t][k]]_vars

\* A line of n characters entered on terminal t, which stays on display, is not
\* read, nor replaced by one of another length.
Waits(t, n) == terminal_idx = t /\ rpc[t] \in Reading /\ Len(unread[t]) = n

\* A read does not wait for ever on such a line if the count is that line's: not
\* even if Enter or Alt+Fn has disturbed it, and whatever it had copied before.
CountedLineIsRead ==
    \A t \in Term, n \in 1..SIZE : ~<>[](Waits(t, n) /\ t_char_cnt = n)

\* "another terminal_buffer which will be set whenever we press enter", so that
\* the shell does not "always wait for input even after we press enter"
\* (buglog.txt:28-29): a read on a displayed terminal whose user has entered a
\* line does not wait for ever.
EnteredLineIsRead == \A t \in Term, n \in 1..SIZE : ~<>[]Waits(t, n)

=============================================================================

-------------------------------- MODULE Screen --------------------------------
(***************************************************************************)
(* The text screen: terminal_write, the echo of keys, scrolling, and the   *)
(* page and cursor that Alt+Fn saves and restores.                         *)
(*                                                                         *)
(* The keyboard handler is one step.  terminal_write runs with interrupts  *)
(* on (line 361): it is one step per statement, two for an increment, and  *)
(* a key may arrive before each of them.  Within the two loops of          *)
(* vert_scroll_down keys are taken to arrive before or after a loop.       *)
(*                                                                         *)
(* Left out: colours, the cursor registers of the VGA, which show          *)
(* terminal_x and terminal_y and are never read; NUL bytes, which          *)
(* terminal_write skips; and the saves that the handler makes at keys      *)
(* other than Alt+Fn, which the next Alt+Fn overwrites before they are     *)
(* read.                                                                   *)
(***************************************************************************)
EXTENDS Integers, Sequences

CONSTANTS
    TM_MAX,     \* terminals
    ROWS, COLS, \* 25 and 80
    PAGE,       \* cells of a 4 KB page (VIDEO_4KB / 2), a few more than the screen has
    LINE,       \* LINE_BUF_SIZE = LINE_BUF_MAX
    Char,       \* the visible characters that keys and programs write
    Split,      \* may a key arrive inside an iteration of terminal_write's loop?
    Tidy        \* is nothing but a character, backspace or Ctrl+L added below the last row?

ASSUME ScreenBounds ==
    /\ TM_MAX \in Nat \ {0}
    /\ ROWS \in Nat /\ ROWS > 1
    /\ COLS \in Nat /\ COLS > 1
    /\ PAGE \in Nat /\ PAGE > ROWS * COLS
    /\ LINE \in 1..(COLS * (ROWS - 1))
    /\ Split \in BOOLEAN /\ Tidy \in BOOLEAN

Term == 0..(TM_MAX - 1)
BLANK == "blank"                    \* a space or NUL
NL == "nl"
END == "end"                        \* no byte is left
Cells == 0..(PAGE - 1)
Text == Char \cup {BLANK}
Page == [Cells -> Text]
BlankPage == [c \in Cells |-> BLANK]
Unsaved == [page |-> BlankPage, x |-> 0, y |-> 0]
KEEP == COLS                        \* bound on the history of a line

VARIABLES
    terminal_idx,
    screen,     \* the page at 0xB8000 with terminal_x and terminal_y
    saved,      \* of each terminal: the page at vidmem_addr and the saved cursor
    char_cnt,   \* term_t.char_cnt
    wpc,        \* where the terminal_write of each terminal's program is
    byte,       \* its buf[i]
    reg,        \* the register of its increment
    container,  \* scroll_down_container of its call of vert_scroll_down
    shown       \* history: the last characters since the line began

writeVars == <<wpc, byte, reg, container>>
vars == <<terminal_idx, screen, saved, char_cnt, writeVars, shown>>

now == terminal_idx
Rest == {"user", "byte"}
Lines == {"put", "load_x", "store_x", "wrap", "load_y", "store_y", "bottom", "restore", "home"}

\* The pages that init_all_video_buf fills and the cursors in zeroed memory.
Init ==
    /\ terminal_idx = 0
    /\ screen = Unsaved
    /\ saved = [t \in Term |-> Unsaved]
    /\ char_cnt = [t \in Term |-> 0]
    /\ wpc = [t \in Term |-> "user"]
    /\ byte = [t \in Term |-> NL]
    /\ reg = [t \in Term |-> 0]
    /\ container = [t \in Term |-> BlankPage]
    /\ shown = [t \in Term |-> << >>]

-----------------------------------------------------------------------------
(* The routines of terminal.c on a screen s *)

Pos(s) == COLS * s.y + s.x

\* A store outside the page is not seen on any screen.
Put(page, cell, c) == IF cell \in Cells THEN [page EXCEPT ![cell] = c] ELSE page

\* The last row keeps its characters.
RowsUpUncleared(from, to) ==
    [c \in Cells |-> IF c < COLS * (ROWS - 1) THEN from[c + COLS] ELSE to[c]]

\* The rows of page from, one row up, in page to.
RowsUp(from, to) ==
    [c \in Cells |->
        IF c < COLS * (ROWS - 1) THEN from[c + COLS]
        ELSE IF c < COLS * ROWS THEN BLANK ELSE to[c]]

vert_scroll_down(s) == [page |-> RowsUp(s.page, s.page), x |-> 0, y |-> ROWS - 2]

\* A new row only when the end of the row has been passed.
AdvanceLate(s) ==
    IF s.x = COLS THEN [s EXCEPT !.x = 0, !.y = @ + 1] ELSE [s EXCEPT !.x = @ + 1]

Advance(s) ==
    IF s.x + 1 = COLS THEN [s EXCEPT !.x = 0, !.y = @ + 1] ELSE [s EXCEPT !.x = @ + 1]

update_cursor(s, c) ==
    LET r == IF s.y = ROWS THEN [vert_scroll_down(s) EXCEPT !.y = ROWS - 1] ELSE s IN
    IF s.y > ROWS \/ s.x > COLS THEN s
    ELSE Advance([r EXCEPT !.page = Put(@, Pos(r), c)])

newline_cursor(s) ==
    LET r == IF s.y = ROWS - 1 THEN vert_scroll_down(s) ELSE s IN
    [r EXCEPT !.x = -1, !.y = @ + 1]

\* The call of update_cursor that follows with line_buf[terminal_idx][-1]: the
\* last byte of the row of the terminal before, blank unless that row is full.
Stray == IF now > 0 /\ char_cnt[now - 1] = LINE THEN Text ELSE {BLANK}

backspace_cursor(s) ==
    LET r == [s EXCEPT !.page = Put(@, Pos(s) - 1, BLANK)] IN
    IF s.x = 0 THEN [r EXCEPT !.x = COLS - 1, !.y = @ - 1] ELSE [r EXCEPT !.x = @ - 1]

\* clear of lib.c
clear(s) == [s EXCEPT !.page = [c \in Cells |-> IF c < COLS * ROWS THEN BLANK ELSE @[c]]]

init_cursor(s) == [s EXCEPT !.x = 0, !.y = 0]

-----------------------------------------------------------------------------
(* keyboard_handler *)

\* The history of a line, and what backspace leaves of it.
Longer(line, c) ==
    LET all == Append(line, c) IN
    IF Len(all) > KEEP THEN Tail(all) ELSE all
Shorter(line) == IF line = << >> THEN line ELSE SubSeq(line, 1, Len(line) - 1)

KeyArrives == Split \/ wpc[now] \in Rest
Below == screen.y >= ROWS

KeyChar(c) ==
    /\ KeyArrives
    /\ char_cnt[now] < LINE
    /\ char_cnt' = [char_cnt EXCEPT ![now] = @ + 1]
    /\ IF char_cnt'[now] < LINE
       THEN /\ screen' = update_cursor(screen, c)
            /\ shown' = [shown EXCEPT ![now] = Longer(@, c)]
       ELSE UNCHANGED <<screen, shown>>
    /\ UNCHANGED <<terminal_idx, saved, writeVars>>

KeyEnter ==
    /\ KeyArrives
    /\ Tidy => ~Below
    /\ screen.y <= ROWS                 \* bound: no new row is reached from below it
    /\ \E c \in Stray : screen' = update_cursor(newline_cursor(screen), c)
    /\ char_cnt' = [char_cnt EXCEPT ![now] = 0]
    /\ shown' = [shown EXCEPT ![now] = << >>]
    /\ UNCHANGED <<terminal_idx, saved, writeVars>>

KeyBackspace ==
    LET n == IF char_cnt[now] = LINE THEN LINE - 1 ELSE char_cnt[now]
        erases == n > 0 /\ ~(screen.x = 0 /\ screen.y = 0) IN
    /\ KeyArrives
    /\ char_cnt' = [char_cnt EXCEPT ![now] = IF erases THEN n - 1 ELSE n]
    /\ IF erases
       THEN /\ screen' = backspace_cursor(screen)
            /\ shown' = [shown EXCEPT ![now] = Shorter(@)]
       ELSE UNCHANGED <<screen, shown>>
    /\ UNCHANGED <<terminal_idx, saved, writeVars>>

\* Ctrl+L, whose own character is cleared with the rest.
KeyClear ==
    /\ KeyArrives
    /\ screen' = init_cursor(clear(screen))
    /\ char_cnt' = [char_cnt EXCEPT ![now] = 0]
    /\ shown' = [shown EXCEPT ![now] = << >>]
    /\ UNCHANGED <<terminal_idx, saved, writeVars>>

\* Without save_current_cursor.
LeftWithoutCursor == [saved EXCEPT ![now].page = screen.page]

\* save_current_terminal and save_current_cursor
Left == [saved EXCEPT ![now] = screen]

\* terminal_switch: Alt+Fn of any terminal, the displayed one as well.
KeySwitch(t) ==
    /\ KeyArrives
    /\ screen' = Left[t]
    /\ saved' = [Left EXCEPT ![t] = Unsaved]   \* not read before it is saved again
    /\ terminal_idx' = t
    /\ UNCHANGED <<char_cnt, writeVars, shown>>

-----------------------------------------------------------------------------
(* terminal_write, by the program of the displayed terminal *)

At(line) == wpc[now] = line
GoTo(line) == wpc' = [wpc EXCEPT ![now] = line]

\* Where the call goes once its byte is on the screen, or after the last one.
Onward ==
    /\ GoTo(IF byte[now] = END THEN "user" ELSE "byte")
    /\ byte' = [byte EXCEPT ![now] = NL]

\* Lines 359-361
WriteStart ==
    /\ At("user")
    /\ GoTo("byte")
    /\ UNCHANGED <<terminal_idx, screen, saved, char_cnt, byte, reg, container, shown>>

\* Lines 362-377: the next byte, and the branch it takes.
WriteByte(b) ==
    /\ At("byte")
    /\ Tidy => ~Below
    /\ byte' = [byte EXCEPT ![now] = b]
    /\ IF b = NL
       THEN GoTo("load_y") /\ shown' = [shown EXCEPT ![now] = << >>]
       ELSE GoTo("put") /\ UNCHANGED shown
    /\ UNCHANGED <<terminal_idx, screen, saved, char_cnt, reg, container>>

\* Lines 398-407: the loop has ended.
WriteEnd ==
    /\ At("byte")
    /\ byte' = [byte EXCEPT ![now] = END]
    /\ GoTo("bottom")
    /\ UNCHANGED <<terminal_idx, screen, saved, char_cnt, reg, container, shown>>

\* Lines 379-380
WritePut ==
    /\ At("put")
    /\ screen' = [screen EXCEPT !.page = Put(@, Pos(screen), byte[now])]
    /\ shown' = [shown EXCEPT ![now] = Longer(@, byte[now])]
    /\ GoTo("load_x")
    /\ UNCHANGED <<terminal_idx, saved, char_cnt, byte, reg, container>>

\* Line 381, terminal_x++
WriteLoadX ==
    /\ At("load_x")
    /\ reg' = [reg EXCEPT ![now] = screen.x + 1]
    /\ GoTo("store_x")
    /\ UNCHANGED <<terminal_idx, screen, saved, char_cnt, byte, container, shown>>

WriteStoreX ==
    /\ At("store_x")
    /\ screen' = [screen EXCEPT !.x = reg[now]]
    /\ reg' = [reg EXCEPT ![now] = 0]
    /\ GoTo("wrap")
    /\ UNCHANGED <<terminal_idx, saved, char_cnt, byte, container, shown>>

\* Line 383
Full(s) == s.x = COLS

\* Lines 383-386
WriteWrap ==
    /\ At("wrap")
    /\ IF Full(screen)
       THEN screen' = [screen EXCEPT !.x = 0] /\ GoTo("load_y")
       ELSE UNCHANGED screen /\ GoTo("bottom")
    /\ UNCHANGED <<terminal_idx, saved, char_cnt, byte, reg, container, shown>>

\* Lines 368 and 386, terminal_y++
WriteLoadY ==
    /\ At("load_y")
    /\ reg' = [reg EXCEPT ![now] = screen.y + 1]
    /\ GoTo("store_y")
    /\ UNCHANGED <<terminal_idx, screen, saved, char_cnt, byte, container, shown>>

\* With line 369 after it for a newline.
WriteStoreY ==
    /\ At("store_y")
    /\ screen' = [screen EXCEPT !.y = reg[now], !.x = IF byte[now] = NL THEN 0 ELSE @]
    /\ reg' = [reg EXCEPT ![now] = 0]
    /\ GoTo("bottom")
    /\ UNCHANGED <<terminal_idx, saved, char_cnt, byte, container, shown>>

\* Lines 371, 389 and 407, and the first loop of vert_scroll_down
WriteBottom ==
    /\ At("bottom")
    /\ IF screen.y = ROWS
       THEN /\ container' = [container EXCEPT ![now] = screen.page]
            /\ GoTo("restore")
            /\ UNCHANGED byte
       ELSE Onward /\ UNCHANGED container
    /\ UNCHANGED <<terminal_idx, screen, saved, char_cnt, reg, shown>>

\* The rest of vert_scroll_down
WriteRestore ==
    /\ At("restore")
    /\ screen' = [page |-> RowsUp(container[now], screen.page), x |-> 0, y |-> ROWS - 2]
    /\ container' = [container EXCEPT ![now] = BlankPage]
    /\ GoTo("home")
    /\ UNCHANGED <<terminal_idx, saved, char_cnt, byte, reg, shown>>

\* Lines 374-375, 392-393 and 410-411
WriteHome ==
    /\ At("home")
    /\ screen' = [screen EXCEPT !.x = 0, !.y = ROWS - 1]
    /\ Onward
    /\ UNCHANGED <<terminal_idx, saved, char_cnt, reg, container, shown>>

Key ==
    \/ \E c \in Text : KeyChar(c)
    \/ KeyEnter \/ KeyBackspace \/ KeyClear
    \/ \E t \in Term : KeySwitch(t)

Write ==
    \/ WriteStart \/ WriteEnd
    \/ \E b \in Text \cup {NL} : WriteByte(b)
    \/ WritePut \/ WriteLoadX \/ WriteStoreX \/ WriteWrap
    \/ WriteLoadY \/ WriteStoreY
    \/ WriteBottom \/ WriteRestore \/ WriteHome

Next == Key \/ Write

Spec == Init /\ [][Next]_vars

-----------------------------------------------------------------------------
(* Properties *)

\* What each terminal shows, or will show when it is displayed again.
ScreenOf(t) == IF t = now THEN screen ELSE saved[t]

\* Every variable stays in its range; no store leaves the page.
TypeOK ==
    /\ terminal_idx \in Term
    /\ \A t \in Term :
        /\ ScreenOf(t).page \in Page
        /\ ScreenOf(t).x \in 0..COLS
        /\ ScreenOf(t).y \in 0..ROWS
        /\ Pos(ScreenOf(t)) \in Cells
    /\ char_cnt \in [Term -> 0..LINE]
    /\ wpc \in [Term -> Rest \cup Lines]
    /\ byte \in [Term -> Text \cup {NL, END}]
    /\ reg \in [Term -> 0..(COLS + ROWS)]

\* "Cursor did not at correct position" (buglog.txt:14): between the bytes of
\* a program's output and between keys the cursor is on a cell of the screen,
\* or below its end when the last cell has just been filled.
CursorOnScreen ==
    TypeOK /\ \A t \in Term : wpc[t] \in Rest =>
        LET s == ScreenOf(t) IN
        /\ s.x \in 0..(COLS - 1)
        /\ s.y \in 0..(ROWS - 1) \/ (s.y = ROWS /\ s.x = 0)

\* The characters since the line began, typed or written, stand before the
\* cursor in the order they came, through wraps, scrolls, backspaces and
\* Alt+Fn to other terminals and back.
LineBeforeCursor ==
    \A t \in Term : wpc[t] \in Rest =>
        LET s == ScreenOf(t) IN
        \A k \in 1..Len(shown[t]) :
            /\ Pos(s) >= k
            /\ s.page[Pos(s) - k] = shown[t][Len(shown[t]) + 1 - k]

\* Nothing stands behind the cursor: no text is written over, no backspace or
\* scroll leaves a character, and the stray character that update_cursor is
\* given after Enter does not appear in the new line.
BlankBehindCursor ==
    \A t \in Term : wpc[t] \in Rest =>
        \A c \in Cells :
            Pos(ScreenOf(t)) <= c /\ c < COLS * ROWS => ScreenOf(t).page[c] = BLANK

=============================================================================

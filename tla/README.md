# A verification project for UnixKernel

UnixKernel is a small x86 kernel: six processes, three text terminals switched
with Alt+F1..F3, a read-only file system image, a real-time clock, and a system
call interface through `int 0x80`. There is no scheduler and no preemption
between processes: one process runs, the current process of the terminal on
display. What is concurrent are the keyboard and clock handlers, which interrupt
any code that runs with interrupts enabled, and the contexts that Alt+Fn leaves
suspended on kernel stacks.

The models are of the code in `src/` as its Makefile builds it (GCC, no
optimisation: every access to a global variable is a memory access, an increment
is a load and a store).

Contents: 1 inventory, 2 modules and how they correspond to the code, 3 runs,
4 bounds and assumptions, 5 fairness, 6 proofs, 7 where the code and its
documents disagree, 8 not modelled, 9 plan.

## 1. Inventory

| Component | Source | State | Operations |
|---|---|---|---|
| Process table | syscall.c | `pid_used[6]`, `pid_num`, a PCB per slot (`prev_pcb`, `esp`, `ebp`, descriptors, arguments) | `execute`, `halt` |
| Terminals | terminal.c, keyboard.c | `term[3]` (`running`, `cur_pid`, `term_pid`, `process_num`, saved `esp`/`ebp`, saved page and cursor), `terminal_idx` | `switch_terminal`, the Alt+Fn branch of the handler |
| Kernel stacks | syscall.c, keyboard.c | one 8 KB stack per slot, the boot stack, `tss.esp0` | the frames stored by `execute` and by Alt+Fn, and what returns to them |
| Keyboard and line input | keyboard.c, terminal.c | `line_buf`, `char_cnt`, `terminal_buf`, `t_char_cnt`, modifier flags | `keyboard_handler`, `terminal_read` |
| Screen | terminal.c, lib.c | video page, `terminal_x`, `terminal_y` | `terminal_write`, echo, backspace, scrolling, Ctrl+L, save and restore |
| File system | file_helper.c | boot block, inodes, data blocks (read only) | `read_dentry_by_*`, `read_data`, `read_data_by_ptr` |
| File descriptors | syscall.c, file_helper.c | `fd_array[8]` in each PCB, `dir_index`, `dir_itself_read` | `open`, `close`, `read`, `write`, `dir_read` |
| Clock | rtc.c | `RTC_IR`, rate registers | `rtc_handler`, `rtc_read`, `rtc_write`; nobody calls `rtc_open` |
| Interrupt controllers and entry | i8259.c, idt.c, `*_linkage.S` | masks, in-service lines, the interrupt flag | `enable_irq`, `send_eoi`, the linkages |
| Paging | paging.c, kernel.c | page directory and tables, the processor's kept translations | `init_paging`, `page_map`, `vidmap`, the end of `entry` |
| System call entry | system_call_linkage.S | none | dispatch and range check |
| Console | lib.c | `screen_x`, `screen_y`, video memory | `printf`, `itoa`, `strrev`, `puts`, `putc`, `clear` |
| Boot and exceptions | kernel.c, exception.c, boot.S | processor tables | run once, or never return |

**How they interact.** A program reaches `execute`, `halt`, `read`, ... through
an interrupt gate, with interrupts off. `terminal_read`, `terminal_write`,
`rtc_read` and `rtc_write` turn them on again. The keyboard handler edits the
line and the screen of the terminal on display; on Alt+Fn it calls
`switch_terminal`, which changes `terminal_idx`, `pid_num`, the user page and
`tss.esp0`, and then either returns through the stack of the terminal shown, or
executes that terminal's first shell *inside the handler*, after `send_eoi` and
`sti`, on the kernel stack of the process that was interrupted. `halt` returns
into the call of `execute` that started the process; a base shell that exits is
executed again, recursively.

**The interrupt flag.** A program inherits the flag that `execute` pushed: the
first shell of each terminal runs with interrupts on (`kernel.c:244`,
`keyboard.c:202`); its children, and every base shell executed again from
`halt`, run with interrupts off outside of the four calls above.

**What is hard.** Alt+Fn suspends any code that has interrupts on, in the middle
of a handler or a system call, and other programs then run on shared variables
(`t_char_cnt`, `RTC_IR`, `dir_index`, `terminal_x`); saved stack addresses must
outlive other stacks' use; slots are reused while parents on hidden terminals
point at them; a missed acknowledgement silences a device for ever; full
buffers, rows, screens and blocks. Nothing is persisted, so there is no crash
recovery. `PROJECT.json` lists each hazard at its line.

**What makes each part correct.**
* Process table: `pid_num`, the user page, `tss.esp0` and `cur_pid` name one
  live process; each terminal holds an unbroken line of processes; hidden
  terminals are untouched; a base shell can always be executed again.
* Kernel stacks: every stored frame that may be returned to is live.
* Input: a read returns exactly the line its user entered, and does return.
* Screen: the cursor stays on the screen and text stays in order before it.
* Files: a descriptor is a stream, a program starts with stdin and stdout
  alone, a listing gives each name once.
* Interrupts: nothing is held back for ever, `rtc_read` waits for a tick.
* Keyboard: a code handled late means what its key meant when it was used.
* Paging: a program sees its own image; the kernel touches only pages that are
  there.
* Console: each number stands on the page in its reader's notation, each line
  in its row.

## 2. Modules and the code

| Module | Models | State and actions |
|---|---|---|
| `Processes` | `execute`, `halt`, the Alt+Fn switch | variables named as in the code; `eax`, `owner`, `level` are what a caller sees and history. One action per outcome of `execute` (`Execute`, `ExecuteNoProgram`, `ExecuteNoSlot`) and per caller with other context (`BootShell`, `StartShell`, `RespawnShell`, `StartFails`); `HaltChild`, `HaltShell`; `SwitchToRunning`, `SwitchToNew` |
| `Sessions` | the promise: a stack of programs per terminal | abstract specification of `Processes` (property `ImplementsSessions`) |
| `MCProcesses` | the refinement mapping: the stack of a terminal is its processes ordered by `level` | |
| `ProcessesProofs` | theorems on `Processes`, and that it implements `Sessions` | section 6 |
| `KernelStacks` | `Processes` with the frames of each stack, and with the first shell's `execute` in steps (`TakeSlot`, `MarkRunning`, `EnterShell`) where Alt+Fn may come | an address is a frame number on a stack; popping a stack makes addresses above it `DEAD`; implements `Processes` (`ImplementsProcesses`) |
| `MCKernelStacks` | the mapping from `KernelStacks` to `Processes` | a shell being loaded has not taken its slot yet |
| `Paging` | the page directory, `vidmap`, and `entry` from `sti` to the first shell, over `KernelStacks` | `tlb` holds any translation the tables gave since CR3 was loaded (`Keep`); `Kernel` joins each step of `KernelStacks` to what it does to CR3; `DefineVidmem`, `ResetTables`, `init_all_video_buf` are the statements of `entry`; keys other than Alt+Fn may come at any point after `sti`; a fault stops everything |
| `MCPaging` | the same mapping to `Processes`, from the larger module | |
| `StacksProofs` | theorems on `KernelStacks` and `Paging` | section 6 |
| `Keyboard` | codes, modifier flags, the four tables, the handler's choice of a branch | the keyboard (`Press`, `Repeat`, `Release`) runs ahead of `keyboard_handler` by a queue; each waiting code carries, as history, what the typist saw |
| `KeyboardProofs` | theorems on `Keyboard` | section 6 |
| `TerminalInput` | the handler's line editing, `terminal_read` test by test | the two-dimensional buffers are flat memory, so that a row's overflow lands in the next row as it does in the build; `unread` and `intact` are history: the line a read owes, and whether anything has come between since line 318 |
| `TerminalInputProofs` | theorems on `TerminalInput` | section 6 |
| `Files` | `open`, `close`, `read`, `dir_read` on descriptors, with what `execute` and `halt` do to them | extends `Processes`, so slots are reused and terminals switched |
| `FilesProofs` | theorems on `Files` | section 6 |
| `FileStream`, `FileReading` | a file is a stream of bytes; the copy loops of `read_data_by_ptr` and `read_data` byte by byte | `FileReading` implements `FileStream` (`ImplementsStream`) |
| `Interrupts` | interrupt flag, 8259s, both handlers, nesting, `rtc_read` | a stack of contexts per terminal with the flag each one has |
| `InterruptsProofs` | theorems on `Interrupts` | section 6 |
| `CommandLine`, `MCCommandLine` | the parsing loop of `execute`, the look-up of names by `execute` and `open`, `strncmp`, the arguments in the PCB, `getargs` | the buffers of `execute` are one piece of memory, `frame`, laid out as in the build: `argument_buffer`, `exe_cmd` behind it, `dentry_struct` behind that; it begins with what the stack held, and no store is checked; programs as a stack, the n-th in slot n |
| `FileSystemProofs` | theorems on `FileReading` and `CommandLine` | section 6 |
| `Screen` | `terminal_write` statement by statement, echo, backspace, scrolling, Enter with its stray `update_cursor`, Ctrl+L, Alt+Fn's save and restore | the page is an array of cells |
| `ScreenProofs` | theorems on `Screen` | section 6 |
| `Console` | `printf` and what it calls, loop iteration by loop iteration | a format is a list of pieces; `itoa_at` and `puts_at` are the locals of the loops; `asked` is history: the lines callers asked for, by a definition of digits that has no loop |
| `Boot`, `MCBoot` | what `entry` prints, with its loops and early returns; exceptions | `at` is the statement of `entry`; `Boots` are the boot loaders' records |

The modules are separate where the code shares only the fact that "one terminal
is on display": each keeps `terminal_idx` and suspends what is not shown.

Beside some definitions stands a second one with a longer name and the same
parameters (`FirstFree` and `FirstSlot`, `Ended` and `EndedOnSlave`). The second
one is deliberately wrong: it is the definition as a plausible slip in that code
would have it (a dropped guard, a missing reset). Put in the first one's place,
it makes a named property fail. No specification uses it.

## 3. Runs

Passing runs:

| Run | Configuration | Distinct states | What it shows |
|---|---|---|---|
| process_table | 6 slots, 3 terminals, 4 per terminal: the kernel's own numbers | 323,828 | table, terminals and context agree in every order of execute, halt and Alt+Fn; the table implements `Sessions` |
| paging_quiet | 4 slots, 3 terminals, 2 per terminal, no Alt+Fn while a shell is loaded, other keys at any time | 161,433 | the frames that a child's halt and Alt+Fn return to are live and the right ones; a program sees its own image whatever translations were kept; a key faults only until `entry` has defined the pages of the screens; implements `Processes` |
| input_shared | 2 terminals that share the count, rows of 2, reads of 1 byte; typing ahead, Enter and Alt+Fn at any time | 790,112 | a read that nothing has disturbed since line 318 returns its own terminal's line, whole; a disturbed one does not wait for ever on a line whose count is there |
| files_one_listing | 3 slots, 2 terminals, 4 descriptors | 1,063,569 | programs start with stdin and stdout alone, suspended ones keep their descriptors, a lone listing is complete |
| read_short_files | blocks of 2 bytes, up to 3 blocks | 9,630 | every file of up to 5 bytes is delivered in order and to its end, and loaded whole |
| interrupts_polite | 2 terminals, 2 programs each | 13,185 | no interrupt stays unfinished, `rtc_read` returns after a tick, keys are handled |
| commands | buffers of 3 bytes, names of up to 2, three programs deep, commands that overrun the buffers among them | 150,144 | name and arguments that fit stay apart and in their buffers; the program named runs or none does; each program gets its own arguments |
| keyboard | 2 terminals, 2 waiting codes, 3 keys down | 124,228 | each code, handled late or not, does what its key meant; the flags end in agreement with the keys; control ends |
| boot | 13 rows of 18, words of 4 bits in radix 2 and 4, 64 boot loaders, those that ask for longer rows and more of them included | 23,192 | the page shows every line asked for, every number in every format, as long as rows and page suffice; `printf` always returns |
| screen_tidy | 2 terminals, 2 x 2 cells | 605,324 | cursor, text and the cells behind the cursor stay right through wraps, scrolls, backspace and Alt+Fn |

Runs that end in a counterexample (section 7): `stacks_halt` (`HaltFrameLive`),
`input_switch` (`EnteredLineIsRead`).

Deadlock is checked everywhere but in `read_short_files`, where a reader stops
at the end of its file.

## 4. Bounds and assumptions

* **Process table.** The run uses the code's own limits; nothing is scaled.
* **KernelStacks.** Four slots of two per terminal let all three terminals run,
  a child exist, and slots run out. `DEPTH` = 4 frames: a stack holds the frame
  of `execute` or of the handler, and each shell loaded on it adds one; the only
  unbounded growth is the boot stack (section 7).
* **Paging.** Of the processor it is assumed that it keeps any translation that
  the tables give, as soon as they give it, and drops all when CR3 is loaded: the
  least that its manual promises. Both pages whose entries change are there.
* **Keyboard.** One key of each kind that the handler tells apart: a letter, a
  digit row key, one that caps lock must leave alone, two shifts, control, alt,
  caps lock, Tab, Enter, backspace and an Fn key per terminal. Two waiting codes
  let a key go up and another one down before the first code is handled; three
  keys down are a modifier, another and a letter. The typist looks at the
  terminal that the waiting codes will have brought up: text typed after Alt+Fn
  is for the terminal that it names.
* **Console and Boot.** Words of 4 bits with 4 places in radix 2 and 2 in radix 4
  stand for 32 bits with 8 places in radix 16 and 10 in radix 10: numbers of one
  place, of all places, of odd and even length, zero and the most negative one
  all occur, and every value is printed in every format. Each literal of a text
  is one letter, so that a row of 18 holds the longest line. Loaders fill the 13
  rows exactly or but for one, so that an exception after them begins in the last
  row, or behind it; others ask for too long a row or too many. `FitsPage` in
  `LinesShown` says which text the page can hold: what leaves it is a case of
  section 7, and in the run. No caller prints a negative number with `%d`.
* **TerminalInput.** In a row of two a line is empty or, with one character, as
  long as Enter may find it; with their newlines the two have different lengths,
  so a count that is another terminal's can be told from one's own. A read asks
  for less than a row, as line 319 takes no notice of unless it is more. Two
  terminals make one shared variable and one neighbouring row. The theorem
  `ReadsLine` holds for every length of rows and every request. `Caller` is what
  lies in the reader's memory.
* **Files.** Three slots on two terminals let a slot pass from one terminal to
  another while a third process is suspended. Memory of a PCB never used is
  taken to be zero: `execute` sets only descriptors 0 and 1.
* **FileReading.** Every assignment of block numbers to a file of up to three
  blocks, so also files whose blocks repeat or run backwards; reads of two and
  three bytes begin and end inside blocks, at boundaries and across several.
  The image is laid out as its build tool does: valid numbers for used blocks,
  0 for the others, the next inode's length behind the array.
* **Interrupts.** `NEST` = 1: while a device's handler is on the displayed stack
  the device does not ask again, and only the other one's handler interrupts it.
  With `NEST` = 2 a device asks again while its own handler is interrupted: TLC
  finds `NothingHeldBack` and `ReturnsAfterInterrupt` to hold (209,957 states), and
  their theorems are for every `NEST`. The two liveness properties need 1, which
  is where the handlers' speed enters them (section 5).
* **CommandLine.** Every command of up to two characters out of two letters and
  the space, and longer ones: several words, several spaces, a space first or
  last, names and arguments that fill their buffers, overrun them by one byte and
  by more. `execute` checks no length, so a command may be anything that ends
  before the end of `dentry_struct` (`InFrame`); what lies behind it depends on
  the caller. The properties speak of those whose two parts fit (`Fits`); what the
  others do is in section 7. The directory has a shell, a program, a file whose
  name the shell's begins and the blank entry. Three programs deep, so that one
  with arguments asks for them after it has executed another. The stack holds a
  letter or NUL throughout. Files of one name are alike: a directory names each
  of its files once. Names in the image are shorter than 32.
* **Screen.** With 2 x 2 cells every branch occurs: wrap, scroll by output and by
  echo, the last cell, backspace across a row. 3 rows with one terminal and lines
  of 4 pass too. The two loops of `vert_scroll_down` are a step each. Only the
  save made by Alt+Fn is modelled: those made at other keys are overwritten by it before they are
  read, and the saved page of the terminal on display is cleared as dead.
  Backspace at the top left corner does nothing, as its guard says.

Constants that exclude a behaviour, so that what holds without it can be told:

| Constant | Excluded when | The excluded behaviour |
|---|---|---|
| `SwitchInWindow` (KernelStacks, Paging) | FALSE | Alt+Fn while a shell is being loaded, or before the first one is |
| `BothShifts` (Keyboard) | FALSE | both shift keys held together |
| `CapsHeld` (Keyboard) | FALSE | caps lock held until the keyboard repeats its code |
| `CapsPunctuation` (Keyboard) | FALSE | `;` with shift while caps lock is on |
| `Lossy` (Keyboard) | FALSE | a key used while the keyboard's buffer is full |
| `EnterFull` (TerminalInput) | FALSE | Enter on a line that fills its row |
| `Length` (FileReading) | 0..5 | the last read of a file that fills all its blocks (6 bytes; 1023 blocks in the code) |
| `OneListing` (Files) | TRUE | opening the directory while another listing is under way |
| `Split` (Screen) | FALSE | a key between the statements of one iteration |
| `Tidy` (Screen) | TRUE | Enter or output once the last cell of the screen has been filled by a key |

Each of them hides a disagreement of section 7, and is there so that the passing
run says that nothing else goes wrong. Elsewhere the model has the behaviour and
the property names what it does not promise: `intact` in `ReadsWholeLine`, `Fits`
in the properties of `CommandLine`, `FitsPage` in `LinesShown`, `boot_step` in
`NoLateFault`.

## 5. Fairness

* `TerminalInput.FairSpec`: weak fairness of the steps of the reader of the
  terminal on display. It is the only program running, its loop has interrupts
  on, and handlers are short. Keys, reads and Alt+Fn have none.
* `Keyboard.FairSpec`: weak fairness of `keyboard_handler`: a waiting code is
  handled. That it is, as long as programs make calls that turn interrupts on,
  is `Interrupts.KeyHandled`.
* `Boot.BSpec`: weak fairness of the steps of `printf`, which nothing suspends:
  it runs with interrupts off.
* `Interrupts.HardwareFairness`: the clock ticks (weak fairness); an interrupt
  that can be taken again and again is taken, and what it interrupts gets on
  (strong fairness of `Take`, `Leave` and `rtc_read_returns`): a handler lasts
  much less than its device's period (at most 1024 Hz), so the interrupted code
  executes between two of them. Strong fairness is needed because a nested handler
  disables the step of the one below it. That a handler is over before its device
  asks again is `NEST` = 1: with 2, TLC finds a clock that interrupts its own
  handler's last instructions at every tick, and the reader never gets on.
* `Interrupts.PoliteSpec` adds that programs go on making calls that turn
  interrupts on. The code does not force a program to: a child that computes
  for ever runs with interrupts off. `KeyHandled` rests on it;
  `ReaderReturns` needs only `HardwareFairness`.

## 6. Proofs

Eight modules hold theorems. Each theorem is for every value of the constants
that satisfies the named assumption of its module; what else it supposes is in
the column "Under": constants of section 4, each of which leaves out a behaviour
that section 7 shows to break a property of that module. No theorem supposes anything
about the state.

**The process table.** `ProcessesProofs`, about `Processes!Spec` (assumption
`ProcessBounds`: `MAX_PROCESS`, `TM_MAX` and `PER_TERM` are positive):

| Theorem | Statement |
|---|---|
| `TypeCorrect` | `[]TypeOK`: `process_num` neither wraps below zero nor passes the limit |
| `ContextSafe` | `[]ContextAgrees` |
| `ResumableSafe` | `[]HiddenTerminalsResumable` |
| `LineageSafe` | `[]Lineage` |
| `RespawnSafe` | `[]RespawnSucceeds` |
| `CountsSafe` | `[]CountsAgree` |
| `EndsSafe` | `OnlyCurrentEnds`, an action property |
| `HiddenSafe` | `HiddenUntouched`, an action property |
| `ProcessesImplementSessions` | `ImplementsSessions`, the refinement |

The argument. None of these is inductive alone. `halt` gives the processor back
to `prev_pcb`: that this is a live process of the same terminal is `Lineage`;
that it is the right one to continue needs `ContextAgrees` (the process that
halts is the deepest of the displayed terminal); after Alt+Fn `ContextAgrees`
comes from `HiddenTerminalsResumable`; and that the restart of a base shell
finds a slot needs all of them with `Idle` (a terminal not yet shown has no
process, and between a base shell's halt and its restart its terminal has
none). Their conjunction `IInv` is inductive. `Invariance` has a step per action, the
longer ones as lemmas (`HaltChildInv`, `HaltShellInv`, `SwitchInv`, ...), each
with a step per conjunct. `CountsAgree` adds cardinalities: `LiveFinite` and the
library's facts on adding and removing an element, on top of `IInv`. The run
`process_table` checks every part of `IInv` but `Idle`.

The refinement needs that the stack of a terminal is well defined: at each depth
up to `process_num` there is a process (`Filled`) and, by `Lineage`, only one.
An `execute` then appends to that sequence and a `halt` removes its last
element, and every other step leaves it as it is.

**Stacks and pages.** `StacksProofs`, about `KSpec` of `KernelStacks` and `PSpec`
of `Paging`:

| Theorem | Statement | Under |
|---|---|---|
| `ParentFrameSafe`, `HiddenFrameSafe` | `[]ParentFrameLive`, `[]HiddenFrameLive`, of `KSpec` | `~SwitchInWindow` |
| `StacksImplementProcesses`, `PagingImplementsProcesses` | `ImplementsProcesses`, of `KSpec` and of `PSpec` | `~SwitchInWindow` |
| `PagingTypeCorrect`, `OwnImageSafe` | `[]PagingTypeOK`, `[]OwnImage`, of `PSpec` | `~SwitchInWindow` |
| `NoLateFaultSafe` | `[]NoLateFault`, of `PSpec` | |

The argument goes round in a circle that is closed by induction. A step of the
kernel is a step of `Processes` seen through the mapping because the stacks are
where `halt` and Alt+Fn expect them (`TableStep`); they stay there
(`StacksStep`) because `ProcessesProofs`, instantiated under the mapping, says
which process is whose parent and which one each terminal resumes: the frame of
a parent is at the bottom of its own stack, and popping that stack is reserved
to the parent itself. Paging adds that user page, kept translations and table
agree after each load of CR3 (`Coherent`), and that a shell is loaded only once
`entry` is over (`Entered`). `NoLateFault` has an invariant of its own
(`PagesBehind`): the pages of the terminals below `boot_step` are defined, and are
present. Alt+Fn may be pressed in that proof at any point, and while it waits for
the pages a key does fault: the invariant holds from the first instruction after
`sti`.

**Descriptors.** `FilesProofs`, about `FSpec` of `Files`:

| Theorem | Statement | Under |
|---|---|---|
| `DescriptorsFresh` | `[]FreshDescriptors` | |
| `StreamsOpen` | `[]StandardStreams` | |
| `DescriptorsKept` | `SuspendedKeepDescriptors`, an action property | |
| `ListingWhole` | `ListingComplete`, an action property | `OneListing` |

A slot is given to a program with whatever descriptors it has, and `execute`
sets two: that the others are closed depends on every `halt` before it. `Files`
extends `Processes`, so `IInv` is there to say that the slot taken was nobody's.
For the listing, `DirInv` says that at most one descriptor reads the directory
and that what it was given is the part of the directory before the cursor.

**Interrupts.** `InterruptsProofs`:

| Theorem | Statement | Under |
|---|---|---|
| `InterruptsFlow` | `[]NothingHeldBack` | |
| `ReadersWait` | `ReturnsAfterInterrupt`, an action property | |

Handlers nest to any depth and are left behind on hidden terminals by Alt+Fn. The
invariant is that at most one context of all stacks has not acknowledged its
interrupt: the one on top of the displayed terminal, which runs with interrupts
off, and whose lines are the only ones in service (`OneUnserved`). It needs the
shape of the stacks (`Shapes`: programs, at most one call, handlers above).
A reader returns when `RTC_IR` is 0, and then the clock has ticked for everyone
who waits (`Released`). TLC checked the invariant with three terminals and with
two nested handlers first.

**Input.** `TerminalInputProofs`:

| Theorem | Statement | Under |
|---|---|---|
| `ScreenShowsLine` | `[]EchoIsLine` | `~EnterFull` |
| `ReadsLine` | `ReadsWholeLine`, an action property | `~EnterFull` |

The rows lie one behind the other in memory: `RowEnd` shows that a store of one
terminal is not in another one's row, for rows of any length, and the rest of
`EchoInv` is that the line on the screen and the row agree cell by cell. For the
second theorem `RowsHold` says that the row of each terminal in `terminal_buf`
holds the line that its user entered and has not read, whatever is typed, entered
and read on the others and however long it is hidden; and that a read which is
`intact` has, in its own buffer, as much of that line as it has passed. Keys,
Alt+Fn and the other terminals' readers may come between any two of its steps.
Those that spoil it are the ones that `intact` names: each writes the row or the
shared counter.
**Screen.** `ScreenProofs`, under `~Split` and `Tidy`, for screens of at least
two rows and columns on a page with room for one more cell (assumption
`ScreenBounds`; the code has 2000 cells and a page of 2048):

| Theorem | Statement |
|---|---|
| `CursorStaysOnScreen` | `[]CursorOnScreen`, with `TypeOK`: no store leaves the page |
| `LineStaysBeforeCursor` | `[]LineBeforeCursor` |
| `BlankStaysBehindCursor` | `[]BlankBehindCursor` |

Between the statements of `terminal_write` the cursor is off: the character is on
the page and `terminal_x` is not yet moved, or the row is done and `terminal_y`
is not. `NextCell` names the cell that the next character belongs to at each
statement, and the invariant is that the line stands before that cell and
nothing stands from it on (`Sound`). Every statement either moves the cursor so
that `NextCell` stays, or draws the character at `NextCell` (`PutSound`), or
moves the rows up with the line on them (`ScrollSound`). The keys arrive at
statements where `NextCell` is the cursor itself, and one lemma per routine
shows what it does there (`UpdateResting`, `NewlineResting`, `BackResting`,
`ClearResting`). What a hidden terminal shows is not touched (`OneScreen`).
TLC checked `ScreenInv` as an invariant of `screen_tidy` before it was proved.

**Keyboard.** `KeyboardProofs` proves about `Keyboard!Spec`, for every number of waiting codes
and of keys that are down (assumption `KeyboardBounds`):

| Theorem | Statement | Under |
|---|---|---|
| `TypeCorrect` | `[]TypeOK` | |
| `KeysAreMeant` | `[]MeansAsPressed` | `Plain` |
| `FlagsAreKeys` | `[]FlagsFollowKeys` | `Plain` |

`Plain` is `~BothShifts /\ ~CapsHeld /\ ~CapsPunctuation /\ ~Lossy`, the
four cases of section 7 left out; each is needed, since TLC finds
`MeansAsPressed` violated with any of the four constants `TRUE`. The argument. What the handler
knows is the flags and the code at the head of the queue, while what was meant
depends on the keyboard at an earlier moment and any number of codes may lie
between. The inductive invariant `IInv` is a chain: the flags agree with the view
of the first waiting code (`Agree(ViewAt(1))`), each code leads from its view to
that of the next (`ViewAfter(queue[n]) = ViewAt(n + 1)`), and the last one to what
the typist sees now. `DoesAsMeant` shows that the handler does what was meant
when the flags agree, `AgreeAfter` that it then moves the flags along the chain,
`HandlerPreserves` and `SendPreserves` that taking a code off one end and adding
one at the other keep the chain whole. `Proper` says which codes can come about:
at most one shift key, a key that goes up was down, no shifted `;` under caps
lock.

**Files and commands.** `FileSystemProofs`, about `ReadingSpec` of `FileReading`
(assumption `ReadingBounds`) and `Spec` of `CommandLine` (`CommandBounds`):

| Theorem | Statement | Under |
|---|---|---|
| `ReadsToTheEnd` | `[]EndsOnlyAtEnd`, with `ReadingTypeOK`: no index leaves the file's blocks | no file of `MAX_BLOCKS` full blocks |
| `OnlyFullFileRefused` | a read gives 0 only at the end, and -1 only for such a file | |
| `ReadingIsStream` | `ImplementsStream`, the refinement | |
| `PartsStay` | `[]PartsStayApart`: name and arguments that fit stay in their buffers and apart | |
| `NamesFound` | `FoundByName`, an action property | |
| `ArgumentsReachPrograms` | `ArgumentsDelivered`, an action property | |

Reading. The loops count the block and the index in it apart, by one at a time;
`Standing` says that they are always the quotient and the remainder of the
offset of the next byte (`DivStep`), and that what is in `buf` is the file from
`offset` on. A used block has a valid number and the entry behind the last used
one is 0 (`BlockValid`), so that the only test that can fail is the one of
`block_num[MAX_BLOCKS]`, at the end of a full file (`FailedAtEnd`, the case of
section 7). The invariant, `ReadingInv`, ties the reads together: `fpos` is the
number of bytes delivered. The condition of `ReadsToTheEnd` is on the constant
`Length`, not on the state; the other two theorems do without.

Commands. Any command may be given that ends before the end of the frame
(`InFrame`): `Reach` shows where its stores land, in their buffer if the part that
they store fits and otherwise somewhere in the frame, so that the types hold for
all of them. Of a command that `Fits`, `Cut` says what the parsing loop has made
of the characters it has seen: the name is in `exe_cmd` up to its NUL and has no
space in it, what followed the space is in `argument_buffer`, from its start, and
`dentry_struct` is as it was; `CutDone` that both are ended.
What the stack held before does not matter, because a text is what comes before
the first NUL (`TextIs`, and `TextType` for a command without arguments, whose
argument text is junk of bounded length). `SameNameIs` shows that a comparison
of 32 bytes with `strncmp` tells a name from every other one, its beginnings
included. `Fetched` is the invariant behind `getargs`: slot n has the arguments of
the program that is the n-th now, whoever had the slot before. `Based` says that
the base shell is always found. That a set of naturals has a least element
(`MinIn`: the first space, the first NUL, the first entry) comes from the library's
well-foundedness of `<`. TLC checked both invariants on the two runs first.

**Only model-checked.** Every liveness property (`CountedLineIsRead`, `KeyHandled`,
`ReaderReturns`, `CallsReturn`, `ControlEnds` and the others under fairness):
fairness and `ENABLED` are beyond the prover used here. `Console` and `Boot`: what
`itoa` and `printf` leave on the page is an induction over digits and formats.

## 7. Where the code and its documents disagree

With a run:

1. **stacks_halt.** The first shell of a terminal is executed on the stack of the
   interrupted process. Once Alt+Fn has returned to that process the frame is
   gone; when the shell exits, `halt` loads an `esp` and `ebp` into a reused
   stack (`keyboard.c:203`; `buglog.txt:26`).
2. **input_switch.** `t_char_cnt` is one counter for three terminals: a line
   entered before Alt+Fn may never be returned (`keyboard.c:84`;
   `buglog.txt:28-29`).

Without a run, and how to see them:

* A second Alt+Fn during the first one's `execute` stores the nested frame for
  the terminal being started; a later switch resumes it after it was popped
  (`keyboard.c:191`; `terminal.c:468-469` "first check whether the current
  terminal is running", "if it is running, restore the pid"). Run
  `MCKernelStacks` with the constants of `PagingQuiet.cfg`, `KSpec` and
  `SwitchInWindow = TRUE`: `SwitchResumes` of `KernelStacks` fails, and so does
  `HiddenFrameLive`.
* A key between `sti` (`kernel.c:244`) and line 291 saves the screen through
  `vidmem_addr` while it is 0: the page is not present, and the page fault's
  handler never returns. `paging_quiet` has these keys: its `NoLateFault` says
  that there are no others, and `~faulted` in its place fails.
* Enter pressed on a terminal whose reader stands between line 318 and its return
  changes `t_char_cnt` and `terminal_buf` under it: the read gives the length of
  one line and characters of the other (`terminal.c:318-336`). So does a read on
  another terminal, by Alt+Fn, which resets the count. `input_shared` has both:
  drop `intact[t]` from `ReadsWholeLine` and it fails, on one terminal too.
* A key between `terminal_x++` and its comparison makes the output run past the
  end of its row (`terminal.c:381`; line 382 "changing the line if it meets the
  COLS number"). Set `Split = TRUE`: `CursorOnScreen` fails.
* The two shift keys share one flag, which the release of either clears
  (`keyboard.c:138-146`). Set `BothShifts = TRUE`: `FlagsFollowKeys` fails.
* Caps lock is toggled by each code the held key repeats, though
  `keyboard.c:223` says "if capslock botton has been pressed and released
  toggle cap_flag". Set `CapsHeld = TRUE`: `FlagsFollowKeys` fails.
* With caps lock on, shift with `;` and with the backquote gives the unshifted
  character (`keyboard.c:77`, against line 57). Set `CapsPunctuation = TRUE`:
  `MeansAsPressed` fails.
* The keyboard drops codes when its buffer is full, a release among them, and a
  flag stays set until the key is used again. Set `Lossy = TRUE`:
  `FlagsFollowKeys` fails.
* `putc` takes the remainder of `screen_x` before it tests for the end of the row
  (`lib.c:197-198`), so that a longer line is written over its own beginning. A
  byte above 127 is sign-extended by `kernel.c:78` and printed with eight
  places. Drop `FitsPage` from `LinesShown`, with `Boots <- WideBoots`: it fails.
* A newline does not wrap `screen_y` (`lib.c:191`): after the last row one
  character is drawn outside of the page and the text goes on in the first row,
  over what is there. The same with `Boots <- TallBoots`.
* `clear` does not reset `screen_x` and `screen_y` (`lib.c:23`, called at
  `kernel.c:179`): when what `entry` prints fills the page, the message of an
  exception that comes later begins behind it. The same with
  `Boots <- FullBoots`.
* `boot.S:54` says of the instruction after `call entry` "We'll never get back
  here"; `entry` returns there on a wrong magic number or contradicting flags
  (`kernel.c:47`, `89`), and the `hlt` is what runs. `Magic` and `BothBits`.
* `dir_index` and `dir_itself_read` are global: a second listing, or one after a
  listing that was not read to its end, starts where the other stands and
  misses names (`file_helper.c:312`; lines 271-272 promise "starting from
  position offset in the file"). Set `OneListing = FALSE`: `ListingComplete`
  fails.
* `execute` returns 256 when there is no slot or the terminal is full; its header
  (`syscall.c:98`) says -1. `ExecuteNoSlot`.
* With all slots taken, Alt+Fn to a new terminal gets no shell: the handler
  ignores the result (`keyboard.c:203`) and loads a stack pointer that was
  never stored. `StartFails` and `Crashed` in `Processes`.
* Enter on a full line: a reader that asks for exactly the buffer's size waits
  for ever, since the newline is beyond what it copies (`terminal.c:324`). Set
  `EnterFull = TRUE`, `TM_MAX = 1`, `SIZE = 3`, `NBYTES = {3}`:
  `EnteredLineIsRead` fails.
* Filling the last cell of the screen by typing and pressing Enter moves the
  cursor to row `ROWS + 1` (`terminal.c:94`, `150`): echo is ignored and output
  goes off the screen until Ctrl+L. Set `Tidy = FALSE`: `TypeOK` and `CursorOnScreen` fail.
* A child computes with interrupts off, so no key is handled until it makes a
  call that turns them on (`syscall.c:247`). Use `FairSpec`: `KeyHandled` fails.
* Each exit of a base shell leaves a frame of 416 bytes on the stack it was
  executed from, because `halt` never returns through it (`syscall.c:259-261`).
  On the boot stack 19 exits, (8192 - 280) / 416, reach the PCB of process 1.
* The last read of a file that fills all 1023 blocks returns -1 instead of the
  bytes it copied (`file_helper.c:228`; `file_helper.h:16`). Set `Length = {6}`,
  `NextLength = {5}`: `EndsOnlyAtEnd` fails.
* A command without arguments leaves the argument buffer unset up to its length
  (`syscall.c:134`), and `getargs` then returns what the stack held. Drop the
  condition on spaces from `ArgumentsDelivered`, with no arguments as the
  promise: it fails.
* `execute` copies a command into buffers of 128 bytes without a test of its
  length (`syscall.c:117-139`; `cmd_length` is the size of both). A name of 128
  characters has its NUL behind `exe_cmd`; and where there are no arguments the NUL
  meant for `argument_buffer` is stored at the index of the command's end (line
  134), which for a longer command is in `exe_cmd`: the name is cut. Arguments of
  128 characters and more are stored over the name. `commands` has all three: drop
  `Fits` from `PartsStayApart` or `FoundByName` and it fails.
* `getargs` accepts arguments as long as the buffer and writes their NUL behind
  it (`syscall.c:419`; line 417: "do not fit in the buffer, is a error").
* The dispatcher rejects call 10 (`system_call_linkage.S:40-41`), for which its
  table has `sigreturn`.
* `buglog.txt:20-21` says that the control flag is set back to 0 whenever the
  screen was cleared; the handler (`keyboard.c:278`) clears the screen and leaves
  the flag to the release of the key. What the entry is about, control staying
  in force, does not happen: `ControlEnds` holds.

## 8. Not modelled

Descriptor tables (straight-line code with interrupts off), the test and debug
code behind `#if` (not built), build files. `rtc_open`, which stands in a table
of operations whose open entries nobody calls: `open` stores the table and
returns. `memset`, `memcpy` and `memmove`, assembler that no property here tells
from an assignment. `disable_irq` and the file system's `write` calls are never
used or only return -1. The text of messages: a literal is a letter. Colours and
the VGA's cursor registers, which are written and never read. The clock's rate:
`rtc_write` sets it with interrupts off, and no other code reads it. Calls with
arguments that they refuse without a change. The table of
`system_call_linkage.S` keeps no state.

## 9. Plan

Done, in this order: `Processes`, `Sessions`, `ProcessesProofs`; `KernelStacks`;
`TerminalInput`; `Files`; `FileStream`, `FileReading`; `Interrupts`; `Screen`;
`CommandLine`; `Keyboard`; `Paging`; `Console`, `Boot`; `KeyboardProofs`;
the proof of `ImplementsSessions`; `FilesProofs`; `StacksProofs`; `InterruptsProofs`;
`TerminalInputProofs`; `ScreenProofs`; `FileSystemProofs`.

To be modelled: the clock's rate in `Interrupts` (`rtc_write` against that of
another process), and `write` to a terminal in `Files`.

To be proved: nothing that the prover used here reaches is left among the
properties of the runs. `LinesShown` would need facts on the folds and powers
that `Console` uses, by induction over formats and digits.

The set is kept to a dozen runs, one per question. A module that is added takes
the place of a run whose behaviour stays reproducible by the constant that
admits it.

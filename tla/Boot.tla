---------------------------------- MODULE Boot ----------------------------------
(***************************************************************************)
(* What entry prints of the multiboot information before it enables        *)
(* interrupts, with its early returns, and the message of an exception,    *)
(* after which nothing runs.  The boot loader's information is external:   *)
(* Boots has the ones a run looks at.                                      *)
(***************************************************************************)
EXTENDS Console

CONSTANTS
    Boots       \* what boot loaders may leave, as records of the fields read here

VARIABLES
    info,       \* the boot loader's magic number and multiboot_info_t
    at,         \* the statement of entry, or "running" or "loop"
    done        \* how many modules or memory ranges were printed

bvars == <<consoleVars, info, at, done>>

L == Literal(LETTER)
SPACE == Literal(BLANK)
NL == Literal(NEWLINE)
Hex(v) == Number("x", v)
Unsigned(v) == Number("u", v)
Signed(v) == Number("d", v)

BInit ==
    /\ ConsoleInit
    /\ info \in Boots
    /\ at = "magic"
    /\ done = 0

-----------------------------------------------------------------------------
(* The texts, each literal shortened to a letter *)

Bytes == FlattenSeq([i \in 1..Len(info.bytes) |-> <<L, Hex(info.bytes[i]), SPACE>>])

Message(step) ==
    LET w == info.word IN
    CASE step = "flags" -> <<L>> \o Padded(w) \o <<NL>>
      [] step = "mem" -> <<L, Unsigned(w), L, Unsigned(w), L, NL>>
      [] step = "boot_device" -> <<L>> \o Padded(w) \o <<NL>>
      [] step = "cmdline" -> <<L, String(<<LETTER, BLANK, LETTER>>), NL>>
      [] step = "module" -> <<L, Signed(done), L>> \o Padded(w) \o <<NL>>
      [] step = "module_end" -> <<L, Signed(done), L>> \o Padded(w) \o <<NL>>
      [] step = "first_bytes" -> <<L, NL>>
      [] step = "bytes" -> Bytes \o <<NL>>
      [] step = "elf" -> <<L, Unsigned(w), L>> \o Padded(w) \o <<L>> \o Padded(w)
                         \o <<L>> \o Padded(w) \o <<NL>>
      [] step = "mmap" -> <<L>> \o Padded(w) \o <<L, Hex(w), NL>>
      [] step = "range" -> <<L, Hex(w), L>> \o Padded(0) \o Padded(w) \o <<NL, L, Hex(1), L>>
                           \o Padded(0) \o Padded(w) \o <<NL>>
      [] step = "i8259" -> <<L, NL>>

\* The bits of flags that the statements test.
Bit == [mem |-> 0, boot_device |-> 1, cmdline |-> 2, mods |-> 3, elf |-> 5, mmap |-> 6]

\* The statement that follows a message, when its turn is over.
After == [flags |-> "mem", mem |-> "boot_device", boot_device |-> "cmdline",
          cmdline |-> "mods", module |-> "module_end", module_end |-> "first_bytes",
          first_bytes |-> "bytes", bytes |-> "mods", elf |-> "mmap", mmap |-> "ranges",
          range |-> "ranges", i8259 |-> "clear"]

\* A message is printed when its bit, if it has one, is set.
Asked(step) == step \in DOMAIN Bit => Bit[step] \in info.flags

Say(step) ==
    /\ at = step
    /\ Asked(step)
    /\ Call(Message(step))
    /\ at' = After[step]
    /\ done' = IF step \in {"bytes", "range"} THEN done + 1 ELSE done
    /\ UNCHANGED <<screen_x, screen_y, video, alternate, itoa_at, puts_at, info>>

Go(from, to) ==
    /\ pc = "caller"
    /\ at = from
    /\ at' = to
    /\ UNCHANGED <<consoleVars, info>>

Skip(step) ==
    /\ step \in DOMAIN Bit /\ ~Asked(step)
    /\ Go(step, IF step = "mmap" THEN "i8259" ELSE After[step])
    /\ UNCHANGED done

\* Line 44: entry returns to boot.S, which halts.
Magic ==
    \/ info.valid /\ Go("magic", "flags") /\ UNCHANGED done
    \/ /\ ~info.valid /\ at = "magic"
       /\ Call(<<L>> \o Padded(info.word) \o <<NL>>)
       /\ at' = "halted"
       /\ UNCHANGED <<screen_x, screen_y, video, alternate, itoa_at, puts_at, info, done>>

\* Lines 69-83
Modules ==
    IF Bit.mods \in info.flags /\ done < info.mods
    THEN Go("mods", "module") /\ UNCHANGED done
    ELSE Go("mods", "both") /\ done' = 0

\* Lines 86-90
BothBits ==
    \/ {4, 5} \cap info.flags # {4, 5} /\ Go("both", "elf") /\ UNCHANGED done
    \/ /\ {4, 5} \subseteq info.flags /\ at = "both"
       /\ Call(<<L, NL>>)
       /\ at' = "halted"
       /\ UNCHANGED <<screen_x, screen_y, video, alternate, itoa_at, puts_at, info, done>>

\* Lines 111-121
Ranges ==
    IF done < info.mmaps
    THEN Go("ranges", "range") /\ UNCHANGED done
    ELSE Go("ranges", "i8259") /\ UNCHANGED done

\* Line 179; the rest of entry, up to sti, draws nothing.
Clear ==
    /\ pc = "caller" /\ at = "clear"
    /\ clear
    /\ asked' = [r \in 1..Len(asked) |-> << >>]
    /\ at' = "running"
    /\ UNCHANGED <<screen_x, screen_y, pc, format, alternate, conv_buf, itoa_at, puts_at,
                   info, done>>

\* The handler of each exception prints its name, where the boot's last line
\* left the cursor, and loops for ever.
Exception ==
    /\ at = "running"
    /\ Call(<<L, L, NL>>)
    /\ at' = "loop"
    /\ UNCHANGED <<screen_x, screen_y, video, alternate, itoa_at, puts_at, info, done>>

\* Nothing more is drawn here, or the terminals draw.
Quiet == pc = "caller" /\ at \in {"halted", "loop", "running"} /\ UNCHANGED bvars

BNext ==
    \/ Printing /\ UNCHANGED <<info, at, done>>
    \/ Magic \/ Modules \/ BothBits \/ Ranges \/ Clear
    \/ \E step \in DOMAIN After : Say(step) \/ Skip(step)
    \/ Exception
    \/ Quiet

BSpec == BInit /\ [][BNext]_bvars /\ WF_bvars(Printing /\ UNCHANGED <<info, at, done>>)

=============================================================================

---- MODULE MCCommandLine ----
EXTENDS CommandLine
ShellOfRun == <<"s">>
\* The shell, a program, a text file whose name it begins, and the blank entry.
DirOfRun ==
    << [name |-> <<"s", "a">>, program |-> FALSE],
       [name |-> <<"s">>, program |-> TRUE],
       [name |-> <<"a">>, program |-> TRUE],
       [name |-> << >>, program |-> FALSE] >>

Texts(n) == [1..n -> {"s", "a", SP}]
Words ==
    { <<"s", SP, "a">>, <<"a", SP, "s">>, <<"s", "a", SP>>, <<SP, "s", "a">>,
      <<"s", SP, SP>>, <<"s", SP, "a", "s">>, <<"s", "a", SP, "s", "a">> }
\* Names and arguments that overrun their buffers by one byte and by more.
LongCommands ==
    { <<"s", "a", "s">>, <<"a", "s", "a", "a">>, <<"s", "s", "a", "a", "s">>,
      <<"s", SP, "a", "s", "a">>, <<"s", SP, "s", SP, "s", "a">> }
CommandOfRun == UNION {Texts(n) : n \in 0..2} \cup Words \cup LongCommands
====

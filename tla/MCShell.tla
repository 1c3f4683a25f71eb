------------------------------ MODULE MCShell ------------------------------
(* A screen of two lines, which a line of the shell fills, and the command *)
(* kinds behind one-letter names.                                          *)
EXTENDS Shell

MCCommands ==
    <<[name |-> <<"-t">>, kind |-> "print"], [name |-> <<"-t", "s">>, kind |-> "clear"],
      [name |-> <<"s", "-t">>, kind |-> "chess"], [name |-> <<"-t", "-t">>, kind |-> "poweroff"],
      [name |-> <<"s">>, kind |-> "sleep"], [name |-> <<"s", "s">>, kind |-> "kernel"],
      [name |-> <<"s", "s", "s">>, kind |-> "nothing"], [name |-> <<"-t", "-t", "s">>, kind |-> "list"]>>
MCChars == {" ", "s", "-t", "\t"}
=============================================================================

---------------------------- MODULE MCKeyQueue ----------------------------
(* A keyboard of three keys, one of them behind the 0xE0 prefix, and a     *)
(* ring of three slots: two keys fit, so that it fills and wraps.          *)
EXTENDS KeyQueue

MCKeys == {[ext |-> FALSE, sc |-> 30],     \* KEY_A
           [ext |-> FALSE, sc |-> 72],     \* KEY_KP_8
           [ext |-> TRUE, sc |-> 72]}      \* KEY_UP
=============================================================================

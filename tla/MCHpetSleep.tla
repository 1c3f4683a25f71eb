----------------------------- MODULE MCHpetSleep -----------------------------
(* An HPET of two timers and four vectors: 0 is the tick's, 1 another      *)
(* device's, 2 a timer's alone, and 3 is one that Install_handler refuses. *)
(* The first timer has each of them in turn, or none, and the second       *)
(* competes for it.  The pins are those of the interrupts' numbers; or     *)
(* interrupt 0 has pin 2, as on most computers; or 2 has pin 3.            *)
EXTENDS HpetSleep

MCChoices == {<<{0}, {0, 2}>>, <<{1}, {1}>>, <<{2}, {0, 2}>>, <<{3}, {2, 3}>>, <<{}, {2}>>, <<{}, {}>>}
MCTimerCapabilities == {[t \in Timers |-> c[t + 1]] : c \in MCChoices}

MCWirings == {[v \in Vectors |-> v], [v \in Vectors |-> IF v = 0 THEN 2 ELSE v],
              [v \in Vectors |-> IF v = 2 THEN 3 ELSE v]}
=============================================================================

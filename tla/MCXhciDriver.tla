---------------------------- MODULE MCXhciDriver ----------------------------
(* Two ports, the second with USB 3, and as many slots.  The context sizes *)
(* and the scratchpad count are those of a real controller.                *)
EXTENDS XhciDriver

MCHcs == [maxSlots |-> 2, maxPorts |-> 2, scratchHi |-> 0, scratchLo |-> 31, csz |-> 1]
MCExtCaps ==
    <<[id |-> 1, major |-> 0, offset |-> 0, count |-> 0],
      [id |-> 2, major |-> 2, offset |-> 1, count |-> 1],
      [id |-> 2, major |-> 3, offset |-> 2, count |-> 1]>>
=============================================================================

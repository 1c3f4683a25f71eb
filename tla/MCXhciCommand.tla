--------------------------- MODULE MCXhciCommand ---------------------------
(* Two rings short enough to turn over several times.                      *)
EXTENDS XhciCommand
=============================================================================

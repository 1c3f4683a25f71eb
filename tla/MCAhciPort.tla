----------------------------- MODULE MCAhciPort -----------------------------
(* The port as it is; the configuration gives it three command slots, so   *)
(* that a recovery can have two commands to issue again, one of them given *)
(* up, the other waited for, beside the one that failed; all can be taken. *)
EXTENDS AhciPort
=============================================================================

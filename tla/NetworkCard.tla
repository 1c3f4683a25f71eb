---------------------------- MODULE NetworkCard ----------------------------
(***************************************************************************)
(* The network card with the protocols above it: the frames of the ring    *)
(* are packets, and what send is called with is the protocols' answer.     *)
(***************************************************************************)
EXTENDS Rtl8139, Network

CONSTANT Packets   \* name -> the packet of that name

(* A frame in the ring: its answer goes by the packet's name. *)
Answer == [p \in DOMAIN Packets |-> receive_ethernet(Packets[p])]
FrameOf(p, ok) ==
    [length |-> Packets[p].len, ok |-> ok,
     reply |-> IF ok /\ Answer[p] # NoAnswer THEN p ELSE NoReply]

(* The sender's packets: bytes, of a length their header states, with a    *)
(* header of five words at least before what the protocol needs.           *)
Octets == {b \in Nat : b < 256}
WellFormed(f) ==
    f.type = IPv4_Ether_Type =>
        /\ f.body \in Seq(Octets) /\ Len(f.body) >= IPv4Header
        /\ IpHeaderLen(f) >= IPv4Header
        /\ IpHeaderLen(f) + ICMPHeader <= TotalLength(f) /\ TotalLength(f) <= Len(f.body)

ASSUME PacketsAssumption ==
    /\ NoReply \notin DOMAIN Packets /\ \A p \in DOMAIN Packets : WellFormed(Packets[p])
    /\ Frames \subseteq {FrameOf(p, ok) : p \in DOMAIN Packets, ok \in BOOLEAN}

(* Whatever the handler has handed to the card answers the request it was  *)
(* made for: the other side gets its own bytes back and finds both check   *)
(* sums right, although they are summed in the processor's byte order, an  *)
(* odd byte and padding behind the packet included.                        *)
AnswersVerify == \A i \in DOMAIN owed : Answers(Packets[owed[i]], Answer[owed[i]])
=============================================================================

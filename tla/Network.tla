------------------------------ MODULE Network ------------------------------
(***************************************************************************)
(* What the protocols above the card make of a frame (Drivers/Network):    *)
(* Ethernet, ARP, IPv4, ICMP and UDP, called by the card's handler one     *)
(* frame at a time.  They keep no state: a frame has an answer or none.    *)
(*                                                                         *)
(* A packet has the headers' fields that decide what happens, and the      *)
(* bytes a checksum is made of.  The code reads words in the processor's   *)
(* order and swaps them; so does the model.                                *)
(***************************************************************************)
EXTENDS Integers, Sequences

CONSTANTS MyMac, MyIp,  \* get_mac, and the bytes of get_ipv4
          MaxPayload    \* bytes send_ethernet and send accept (1500)

EthernetHeader == 14
ARPHeader == 28
IPv4Header == 20
ICMPHeader == 8

ARP_Ether_Type == 2054
IPv4_Ether_Type == 2048
IPv4_Protocol_ICMP == 1
IPv4_Protocol_UDP == 17
ARP_REPLY == 2

NoAnswer == [type |-> 0]

(* The i-th byte of a header, and the word there as the processor reads it.*)
Byte(bytes, i) == bytes[i + 1]
Word16(bytes, i) == Byte(bytes, i) + 256 * Byte(bytes, i + 1)
Bswap_16(x) == 256 * (x % 256) + (x \div 256)
Field(bytes, i) == Bswap_16(Word16(bytes, i))
Address(bytes, i) == SubSeq(bytes, i + 1, i + 4)

(* Bytes written over others, a word in the processor's order.             *)
Put(bytes, i, new) ==
    [j \in DOMAIN bytes |-> IF j - i \in DOMAIN new THEN new[j - i] ELSE bytes[j]]
Put16(bytes, i, word) == Put(bytes, i, <<word % 256, word \div 256>>)

----------------------------------------------------------------------------
(* checksum: the complement of the folded sum of the words.  An odd byte   *)
(* is added as it is, as a word whose high byte is zero.                   *)
Pairs(bytes) == (Len(bytes) + 1) \div 2
Total(n, words) ==
    LET sum[i \in 0..n] == IF i = 0 THEN 0 ELSE sum[i - 1] + words[i] IN sum[n]

HighByte(bytes, i) == IF 2 * i <= Len(bytes) THEN bytes[2 * i] ELSE 0
LoadedWords(bytes) == [i \in 1..Pairs(bytes) |-> bytes[2 * i - 1] + 256 * HighByte(bytes, i)]
WordSum(bytes) == Total(Pairs(bytes), LoadedWords(bytes))

(* MUTANT: what is carried out of the word is dropped. *)
FoldedOnce(sum) == sum % 65536

Folded(sum) ==
    LET fold[s \in Nat] == IF s < 65536 THEN s ELSE fold[(s % 65536) + (s \div 65536)]
    IN fold[sum]

checksum(bytes) == 65535 - Folded(WordSum(bytes))

----------------------------------------------------------------------------
(* send_ethernet and the card's own limit, which counts the header too.    *)
send_ethernet(dst, type, body) ==
    IF Len(body) > MaxPayload \/ Len(body) + EthernetHeader > MaxPayload THEN NoAnswer
    ELSE [dst |-> dst, src |-> MyMac, type |-> type, body |-> body]

(* Whoever asks for our address is told it, whatever the operation is if   *)
(* it is not a reply.                                                      *)
receive_ARP(f) ==
    IF \/ f.len < ARPHeader
       \/ f.target_ip # MyIp
       \/ f.opcode = ARP_REPLY
    THEN NoAnswer
    ELSE send_ethernet(f.src, ARP_Ether_Type,
           <<ARP_REPLY, MyMac, MyIp, f.src, f.sender_ip>>)

IpHeaderLen(f) == 4 * (Byte(f.body, 0) % 16)
TotalLength(f) == Field(f.body, 2)

(* An echo request is turned into its reply where it lies: the addresses  *)
(* are exchanged, type and code are 0, and each header's check sum is made *)
(* over a field of zeros.                                                  *)
Exchanged(body) ==
    Put16(Put(Put(body, 12, Address(body, 16)), 16, Address(body, 12)), 10, 0)
Retyped(body, ihl) == Put16(Put(body, ihl, <<0, 0>>), ihl + 2, 0)
Summed(body, first, last, at) == Put16(body, at, checksum(SubSeq(body, first, last)))

EchoReply(f) ==
    LET ihl == IpHeaderLen(f)
        ip == Summed(Exchanged(f.body), 1, ihl, 10)
    IN Summed(Retyped(ip, ihl), ihl + 1, TotalLength(f), ihl + 2)

receive_ICMP(f) ==
    IF \/ f.len < EthernetHeader + IPv4Header + ICMPHeader
       \/ Byte(f.body, IpHeaderLen(f)) # 8
    THEN NoAnswer
    ELSE send_ethernet(f.src, IPv4_Ether_Type, SubSeq(EchoReply(f), 1, TotalLength(f)))

(* A datagram is printed, from a copy on the heap, and has no answer.      *)
receive_udp(f) == NoAnswer

receive_IPv4(f) ==
    IF f.len < IPv4Header + EthernetHeader \/ Address(f.body, 16) # MyIp THEN NoAnswer
    ELSE CASE Byte(f.body, 9) = IPv4_Protocol_ICMP -> receive_ICMP(f)
           [] Byte(f.body, 9) = IPv4_Protocol_UDP -> receive_udp(f)
           [] OTHER -> NoAnswer

(* The card counts the four bytes of the frame's check sum in its length.  *)
receive_ethernet(f) ==
    IF f.len < EthernetHeader THEN NoAnswer
    ELSE CASE f.type = ARP_Ether_Type -> receive_ARP(f)
           [] f.type = IPv4_Ether_Type -> receive_IPv4(f)
           [] OTHER -> NoAnswer

----------------------------------------------------------------------------
(* What the other side checks, in the network's own byte order.            *)

NetWords(bytes) == [i \in 1..Pairs(bytes) |-> 256 * bytes[2 * i - 1] + HighByte(bytes, i)]
NetSum(bytes) == Total(Pairs(bytes), NetWords(bytes))
(* A sum of words whose complement is zero: it is a multiple of 2^16 - 1.  *)
SumIsRight(bytes) == NetSum(bytes) > 0 /\ NetSum(bytes) % 65535 = 0

(* Does a packet answer a request?  It goes back to the sender; a ping     *)
(* comes back with the addresses exchanged, its identifier, number and     *)
(* payload unchanged, and both check sums right.                           *)
Answers(request, answer) ==
    /\ answer.dst = request.src /\ answer.src = MyMac /\ answer.type = request.type
    /\ IF request.type = ARP_Ether_Type
       THEN answer.body = <<ARP_REPLY, MyMac, MyIp, request.src, request.sender_ip>>
       ELSE LET ihl == IpHeaderLen(request)
                old == SubSeq(request.body, 1, TotalLength(request))
            IN /\ Address(answer.body, 12) = MyIp
               /\ Address(answer.body, 16) = Address(old, 12)
               /\ SubSeq(answer.body, ihl + 5, Len(answer.body)) = SubSeq(old, ihl + 5, Len(old))
               /\ SumIsRight(SubSeq(answer.body, 1, ihl))
               /\ SumIsRight(SubSeq(answer.body, ihl + 1, Len(answer.body)))
=============================================================================

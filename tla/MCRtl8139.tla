----------------------------- MODULE MCRtl8139 -----------------------------
(* A ring of four short frames.  Frames of 68 and 136 bytes in the ring: a *)
(* request for our address, frames without an answer (a request for some-  *)
(* body else's, a reply, a datagram), a ping with an odd number of bytes   *)
(* and with padding, whose frame is rounded up, and a ping without ROK.    *)
EXTENDS NetworkCard

MCMyMac == <<82, 84, 0, 18, 52, 86>>
MCMyIp == <<10, 0, 0, 2>>
Peer == <<10, 0, 0, 9>>
PeerMac == <<82, 85, 10, 0, 2, 2>>

Arp(ip, op) ==
    [len |-> 64, src |-> PeerMac, type |-> ARP_Ether_Type, opcode |-> op,
     sender_ip |-> Peer, target_ip |-> ip]

(* Type 8, code 0, a check sum nobody looks at, and bytes that carry. *)
Echo(n) == <<8, 0, 17, 18, 255, 254, 1, 2>> \o [i \in 1..n |-> (i * 37 + 200) % 256]
Ip(n, protocol) ==
    <<69, 0, 0, 28 + n, 171, 205, 0, 0, 64, protocol, 0, 0>> \o Peer \o MCMyIp
Ping(n, padding) ==
    [len |-> EthernetHeader + 28 + n + padding + 4, src |-> PeerMac, type |-> IPv4_Ether_Type,
     body |-> Ip(n, IPv4_Protocol_ICMP) \o Echo(n) \o [i \in 1..padding |-> 255]]

Datagram ==
    [len |-> 64, src |-> PeerMac, type |-> IPv4_Ether_Type,
     body |-> Ip(18, IPv4_Protocol_UDP) \o <<4, 0, 8, 0, 0, 26, 0, 0>> \o [i \in 1..18 |-> 65]]

MCPackets ==
    [p \in {"arp", "other", "reply", "udp", "ping"} |->
        CASE p = "arp" -> Arp(MCMyIp, 1) [] p = "other" -> Arp(Peer, 1)
          [] p = "reply" -> Arp(MCMyIp, ARP_REPLY) [] p = "udp" -> Datagram
          [] p = "ping" -> Ping(79, 4)]
MCFrames == {FrameOf(p, TRUE) : p \in DOMAIN MCPackets} \cup {FrameOf("ping", FALSE)}
=============================================================================

------------------------------ MODULE Rtl8139 ------------------------------
(***************************************************************************)
(* The network card (Drivers/Network/Drivers/RTL8139.cpp): the boot code   *)
(* that starts it and installs its handler, the handler, which drains the  *)
(* receive ring and answers ARP requests and pings through the transmit    *)
(* slots, and the card at the other end of both.                           *)
(*                                                                         *)
(* The handler runs with interrupts off, between any two steps of the boot *)
(* code or of the thread that follows it; the card acts at any time.  The  *)
(* interrupt is the card's pin: level or edge triggered, as ACPI says.     *)
(***************************************************************************)
EXTENDS Integers, Sequences

CONSTANTS RingSize,    \* bytes of the receive ring (8192)
          Pad,         \* what CAPR lies behind the read pointer (16)
          Word,        \* values of a 16-bit register (65536)
          NumSlots,    \* transmit slots (4)
          Frames,      \* what the card may receive
          Replies,     \* answers of at most 1500 bytes
          ResetTries   \* polls of the reset bit, less one (5)

NoReply == "none"   \* no answer, or one of more than 1500 bytes, which send refuses
Triggers == {"level", "edge"}
Slots == 0..NumSlots - 1
Causes == {"ROK", "TOK"}

ASSUME RingAssumption ==
    /\ RingSize \in Nat \ {0} /\ RingSize % 4 = 0
    /\ Word \in Nat /\ Word % RingSize = 0 /\ Pad \in 0..Word - 1
ASSUME SlotsAssumption == NumSlots \in Nat \ {0} /\ ResetTries \in Nat
ASSUME FramesAssumption ==
    Frames \subseteq [length : Nat, ok : BOOLEAN, reply : Replies \cup {NoReply}]

VARIABLES
    boot, tries,   \* RTL8139::Init, and timeout of Reset_Device
    trigger,       \* of the interrupt, from the MADT
    shared,        \* another device uses the vector
    routed, count, \* the I/O APIC's entry, and is RX_handler installed?
    latched,       \* an edge the I/O APIC has seen and the CPU has not taken
    isr, imr,      \* the card's interrupt status and mask
    pc, status,    \* the handler, and the status it has read
    rxOn, capr,    \* the card's receiver, and the register CAPR
    cardNext,      \* where the card writes its next frame
    rxOffset,      \* rx_offset
    held,          \* frames written to the ring, not yet left by the handler
    txSlot,        \* tx_slot
    txBuffer, own, \* the transmit slots, and which of them the card owns
    cardSlot,      \* the slot the card sends next
    owed,          \* answers started and not yet sent
    overrun        \* a slot has been written to while the card owned it

bootVars == <<boot, tries>>
irqVars == <<trigger, shared, routed, count, latched>>
rxCard == <<rxOn, capr, cardNext>>
txVars == <<txSlot, txBuffer, own, cardSlot, owed, overrun>>
vars == <<bootVars, irqVars, isr, imr, pc, status, rxCard, rxOffset, held, txVars>>

Init ==
    /\ boot = "reset" /\ tries = ResetTries
    /\ trigger \in Triggers /\ shared \in BOOLEAN
    /\ routed = shared /\ count = 0 /\ latched = FALSE
    /\ isr = {} /\ imr = {} /\ pc = "idle" /\ status = {}
    /\ rxOn = FALSE /\ capr = Word - Pad /\ cardNext = 0
    /\ rxOffset = 0 /\ held = <<>>
    /\ txSlot = 0 /\ txBuffer = [s \in Slots |-> NoReply]
    /\ own = [s \in Slots |-> FALSE] /\ cardSlot = 0
    /\ owed = <<>> /\ overrun = FALSE

----------------------------------------------------------------------------
(* The pin.  An edge is seen only while the I/O APIC's entry is unmasked.  *)

Line == isr \cap imr # {}
Raise(cause) ==
    /\ isr' = isr \cup {cause}
    /\ latched' = (latched \/ (trigger = "edge" /\ routed /\ ~Line /\ cause \in imr))

----------------------------------------------------------------------------
(* The card. *)

(* Where the frame after one of this length begins: a header of 4 bytes,   *)
(* and frames begin at multiples of 4.                                     *)
CardStep(length) == 4 * ((length + 7) \div 4)
ReadPointer == ((capr + Pad) % Word) % RingSize
Used == (cardNext - ReadPointer) % RingSize

(* Do the bytes of two frames meet?  A frame at the end of the ring is     *)
(* written past it, into the overhead of the buffer.                       *)
Bytes(off, length) == off..(off + 3 + length)
Meet(f, off, length) == Bytes(f.off, f.frame.length) \cap Bytes(off, length) # {}

CardReceive(f) ==
    /\ rxOn
    /\ Used + CardStep(f.length) < RingSize
    /\ held' = Append(
         [i \in DOMAIN held |->
            [held[i] EXCEPT !.whole = @ /\ ~Meet(held[i], cardNext, f.length)]],
         [off |-> cardNext, frame |-> f, whole |-> TRUE])
    /\ cardNext' = (cardNext + CardStep(f.length)) % RingSize
    /\ Raise("ROK")
    /\ UNCHANGED <<bootVars, trigger, shared, routed, count, imr, pc, status, rxOn, capr,
                   rxOffset, txVars>>

(* The card sends the slots in turn.  What it leaves in a slot nobody      *)
(* reads, so it is forgotten, unless send has just filled the slot again.  *)
CardTransmit ==
    /\ own[cardSlot]
    /\ own' = [own EXCEPT ![cardSlot] = FALSE]
    /\ txBuffer' = [txBuffer EXCEPT ![cardSlot] =
                    IF pc = "start" /\ txSlot = cardSlot THEN @ ELSE NoReply]
    /\ cardSlot' = (cardSlot + 1) % NumSlots
    /\ owed' = IF overrun THEN <<>> ELSE Tail(owed)
    /\ Raise("TOK")
    /\ UNCHANGED <<bootVars, trigger, shared, routed, count, imr, pc, status, rxCard,
                   rxOffset, held, txSlot, overrun>>

----------------------------------------------------------------------------
(* RTL8139::Init, and Install_handler for the card's legacy interrupt.     *)

BootStep(from, to) == boot = from /\ pc = "idle" /\ boot' = to

ResetDone ==
    /\ BootStep("reset", "irq")
    /\ UNCHANGED <<tries, irqVars, isr, imr, pc, status, rxCard, rxOffset, held, txVars>>

ResetPoll ==
    /\ BootStep("reset", IF tries = 0 THEN "failed" ELSE "reset")
    /\ tries' = IF tries = 0 THEN 0 ELSE tries - 1
    /\ UNCHANGED <<irqVars, isr, imr, pc, status, rxCard, rxOffset, held, txVars>>

(* The interrupts are enabled and the pending ones cleared. *)
EnableInterrupts ==
    /\ BootStep("irq", "rx")
    /\ imr' = {"ROK", "TOK"} /\ isr' = {}
    /\ UNCHANGED <<tries, irqVars, pc, status, rxCard, rxOffset, held, txVars>>

EnableReceiver ==
    /\ BootStep("rx", "capr")
    /\ rxOn' = TRUE
    /\ UNCHANGED <<tries, irqVars, isr, imr, pc, status, capr, cardNext, rxOffset, held, txVars>>

ResetCapr ==
    /\ BootStep("capr", "route")
    /\ rxOffset' = 0 /\ capr' = Word - Pad
    /\ UNCHANGED <<tries, irqVars, isr, imr, pc, status, rxOn, cardNext, held, txVars>>

(* Install_handler: the first handler of a vector routes it, unmasked.     *)
Route ==
    /\ BootStep("route", "handler")
    /\ routed' = TRUE
    /\ UNCHANGED <<tries, trigger, shared, count, latched, isr, imr, pc, status, rxCard,
                   rxOffset, held, txVars>>

StoreHandler ==
    /\ BootStep("handler", "done")
    /\ count' = 1
    /\ UNCHANGED <<tries, trigger, shared, routed, latched, isr, imr, pc, status, rxCard,
                   rxOffset, held, txVars>>

----------------------------------------------------------------------------
(* isr_common. *)

Requested == routed /\ IF trigger = "level" THEN Line ELSE latched

(* The card's interrupt or that of a device with the same vector.          *)
Enter ==
    /\ pc = "idle" /\ (Requested \/ shared)
    /\ pc' = IF count > 0 THEN "read" ELSE "eoi"
    /\ latched' = FALSE
    /\ UNCHANGED <<bootVars, trigger, shared, routed, count, isr, imr, status, rxCard,
                   rxOffset, held, txVars>>

(* MUTANT: the handler acknowledges the frames when it has seen them all.  *)
EoiAcknowledges ==
    /\ pc = "eoi"
    /\ pc' = "idle" /\ isr' = isr \ {"ROK"}
    /\ UNCHANGED <<bootVars, irqVars, imr, status, rxCard, rxOffset, held, txVars>>

Eoi ==
    /\ pc = "eoi"
    /\ pc' = "idle"
    /\ UNCHANGED <<bootVars, irqVars, isr, imr, status, rxCard, rxOffset, held, txVars>>

----------------------------------------------------------------------------
(* RX_handler. *)

ReadIsr ==
    /\ pc = "read"
    /\ status' = isr /\ pc' = "ack"
    /\ UNCHANGED <<bootVars, irqVars, isr, imr, rxCard, rxOffset, held, txVars>>

AckIsr ==
    /\ pc = "ack"
    /\ isr' = isr \ status /\ status' = {} /\ pc' = "check"
    /\ UNCHANGED <<bootVars, irqVars, imr, rxCard, rxOffset, held, txVars>>

(* The BUFE bit of the command register. *)
BufferEmpty == cardNext = ReadPointer

CheckBuffer ==
    /\ pc = "check"
    /\ pc' = IF BufferEmpty THEN "eoi" ELSE "header"
    /\ UNCHANGED <<bootVars, irqVars, isr, imr, status, rxCard, rxOffset, held, txVars>>

(* What may stand at rx_offset: the oldest frame held if it begins there   *)
(* and is whole, anything otherwise.                                       *)
Found ==
    IF held # <<>> /\ Head(held).off = rxOffset /\ Head(held).whole
    THEN {Head(held).frame} ELSE Frames

(* Without ROK the loop is left and rx_offset stays where it is.           *)
NoRok ==
    /\ pc = "header"
    /\ \E f \in Found : ~f.ok
    /\ pc' = "eoi"
    /\ UNCHANGED <<bootVars, irqVars, isr, imr, status, rxCard, rxOffset, held, txVars>>

ReceiveEthernet ==
    /\ pc = "header"
    /\ \E f \in Found : f.ok /\ pc' = IF f.reply = NoReply THEN "advance" ELSE "copy"
    /\ UNCHANGED <<bootVars, irqVars, isr, imr, status, rxCard, rxOffset, held, txVars>>

(* send: the slot is filled without a look at who owns it.  Once that has  *)
(* gone wrong the contents of the slots are forgotten, like owed.          *)
SendCopy ==
    /\ pc = "copy"
    /\ overrun' = (overrun \/ own[txSlot])
    /\ \E f \in Found :
         txBuffer' = IF overrun' THEN [s \in Slots |-> NoReply]
                     ELSE [txBuffer EXCEPT ![txSlot] = f.reply]
    /\ pc' = "start"
    /\ UNCHANGED <<bootVars, irqVars, isr, imr, status, rxCard, rxOffset, held,
                   txSlot, own, cardSlot, owed>>

(* MUTANT: the slot is not moved on. *)
NextSlotSame == txSlot

NextSlot == (txSlot + 1) % NumSlots

SendStart ==
    /\ pc = "start"
    /\ own' = [own EXCEPT ![txSlot] = TRUE]
    /\ txSlot' = NextSlot
    /\ owed' = IF overrun THEN <<>> ELSE Append(owed, txBuffer[txSlot])
    /\ pc' = "advance"
    /\ UNCHANGED <<bootVars, irqVars, isr, imr, status, rxCard, rxOffset, held,
                   txBuffer, cardSlot, overrun>>

(* MUTANT: the frame's last bytes are not rounded up. *)
AdvancedUnaligned(off, length) == (4 * ((off + length + 4) \div 4)) % RingSize

Advanced(off, length) == (4 * ((off + length + 4 + 3) \div 4)) % RingSize

Advance ==
    /\ pc = "advance"
    /\ \E f \in Found : rxOffset' = Advanced(rxOffset, f.length)
    /\ held' = IF held = <<>> THEN <<>> ELSE Tail(held)
    /\ pc' = "capr"
    /\ UNCHANGED <<bootVars, irqVars, isr, imr, status, rxCard, txVars>>

Capr == (rxOffset - Pad) % Word

WriteCapr ==
    /\ pc = "capr"
    /\ capr' = Capr /\ pc' = "check"
    /\ UNCHANGED <<bootVars, irqVars, isr, imr, status, rxOn, cardNext, rxOffset, held, txVars>>

----------------------------------------------------------------------------
Boot ==
    \/ ResetDone \/ ResetPoll \/ EnableInterrupts \/ EnableReceiver \/ ResetCapr
    \/ Route \/ StoreHandler

Handler ==
    \/ Eoi \/ ReadIsr \/ AckIsr \/ CheckBuffer \/ NoRok \/ ReceiveEthernet
    \/ SendCopy \/ SendStart \/ Advance \/ WriteCapr

Card == CardTransmit \/ \E f \in Frames : CardReceive(f)

Next == Boot \/ Enter \/ Handler \/ Card

Spec == Init /\ [][Next]_vars

(* The boot code comes first and is preempted by interrupts only, the      *)
(* handler runs to its end, and an interrupt that stays requested is taken *)
(* once what runs with interrupts off is over.                             *)
Fairness ==
    /\ SF_vars(Boot) /\ WF_vars(Handler) /\ WF_vars(CardTransmit)
    /\ WF_vars(Enter)

FairSpec == Spec /\ Fairness

----------------------------------------------------------------------------

(* The handler finds the card's frames one after the other: where it reads *)
(* a header there is one, that of the oldest frame it has not left, and    *)
(* the buffer is empty only when no frame is left.  The card, which goes   *)
(* by CAPR, never writes over a frame the handler has not left.            *)
RxInOrder ==
    /\ pc \in {"header", "copy", "start", "advance"} =>
         held # <<>> /\ Head(held).off = rxOffset
    /\ pc = "check" => (BufferEmpty <=> held = <<>>)
    /\ \A i \in DOMAIN held : held[i].whole

(* While no slot has been written to under the card, the card sends every  *)
(* answer once and in the order of the requests, whatever it is sending    *)
(* when the next one is made.                                              *)
RepliesInOrder ==
    ~overrun =>
        /\ \A i \in 1..Len(owed) :
             LET s == (cardSlot + i - 1) % NumSlots IN own[s] /\ txBuffer[s] = owed[i]
        /\ txSlot = (cardSlot + Len(owed)) % NumSlots

(* A frame without ROK, which the card is not set to accept, is the last   *)
(* one the handler looks at.                                               *)
Blocked == held # <<>> /\ ~Head(held).frame.ok

(* With a level triggered interrupt the handler gets to every frame, also  *)
(* to those that come while the handler is being installed.                *)
FramesServed ==
    (trigger = "level" /\ held # <<>> /\ boot # "failed") ~> (pc = "advance" \/ Blocked)
=============================================================================

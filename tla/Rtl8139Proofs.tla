--------------------------- MODULE Rtl8139Proofs ---------------------------
(***************************************************************************)
(* The receive ring and the transmit slots of the network card, for every  *)
(* size of the ring, number of slots and set of frames, and what leaves    *)
(* through them: the protocols' answers, for every well-formed packet.     *)
(*                                                                         *)
(* RxInv measures all places from the card's read pointer: the frames held *)
(* lie one behind the other from the handler's offset to where the card    *)
(* writes next, and nothing lies further than the ring is long.  TxInv     *)
(* says which slots the card owns: those of the answers not yet sent, in   *)
(* their order, from the one it sends next to the one send fills next.     *)
(* AnswerInv follows an answer from its request to the slot; that it is    *)
(* right rests on the arithmetic of check sums, where words summed in the  *)
(* other byte order differ by a factor modulo 2^16 - 1.                    *)
(***************************************************************************)
EXTENDS NetworkCard, WellFoundedInduction, TLAPS

Places == 0..RingSize - 1
HeldFrame == [off : Places, frame : Frames, whole : BOOLEAN]
Aligned4(x) == x % 4 = 0

(* How far a place of the ring lies behind the card's read pointer. *)
Behind(x) == IF ReadPointer <= x THEN x - ReadPointer ELSE x - ReadPointer + RingSize
Step(i) == CardStep(held[i].frame.length)

RxTypes ==
    /\ held \in Seq(HeldFrame)
    /\ rxOffset \in Places /\ cardNext \in Places /\ ReadPointer \in Places
    /\ pc \in {"idle", "read", "ack", "check", "header", "copy", "start", "advance", "capr", "eoi"}
    /\ boot \in {"reset", "irq", "rx", "capr", "route", "handler", "done", "failed"}

(* The handler rounds the place behind a frame up, the card the length.    *)
RxAligned ==
    /\ Aligned4(cardNext) /\ Aligned4(rxOffset)
    /\ \A i \in DOMAIN held : Aligned4(held[i].off) /\ held[i].whole

Chain ==
    /\ rxOffset = IF held = <<>> THEN cardNext ELSE held[1].off
    /\ \A i \in DOMAIN held :
          /\ Behind(held[i].off) + Step(i) <= Behind(cardNext)
          /\ i = Len(held) => Behind(held[i].off) + Step(i) = Behind(cardNext)
          /\ i + 1 \in DOMAIN held => Behind(held[i].off) + Step(i) = Behind(held[i + 1].off)
    /\ \A i, j \in DOMAIN held : i < j => Behind(held[i].off) + Step(i) <= Behind(held[j].off)

(* Only between the advance and the write to CAPR are the card and the     *)
(* handler of different minds.                                             *)
ReadsThere ==
    /\ pc # "capr" => ReadPointer = rxOffset
    /\ pc \in {"header", "copy", "start", "advance"} => held # <<>>

(* Until the handler is installed nothing has moved, though frames come.   *)
NotYet ==
    /\ boot \in {"reset", "irq", "rx", "capr", "route", "handler"} => count = 0
    /\ count = 0 => pc \in {"idle", "eoi"} /\ rxOffset = 0 /\ capr = Word - Pad

RxInv == RxTypes /\ RxAligned /\ Chain /\ ReadsThere /\ NotYet

SlotOf(i) == (cardSlot + i - 1) % NumSlots

TxTypes ==
    /\ owed \in Seq(Replies \cup {NoReply}) /\ overrun \in BOOLEAN
    /\ own \in [Slots -> BOOLEAN] /\ txBuffer \in [Slots -> Replies \cup {NoReply}]
    /\ cardSlot \in Slots /\ txSlot \in Slots

Queue ==
    /\ Len(owed) <= NumSlots
    /\ txSlot = (cardSlot + Len(owed)) % NumSlots
    /\ \A i \in 1..Len(owed) : own[SlotOf(i)] /\ txBuffer[SlotOf(i)] = owed[i]
    /\ \A s \in Slots : own[s] => \E i \in 1..Len(owed) : s = SlotOf(i)
    /\ pc = "start" => ~own[txSlot]

TxInv == TxTypes /\ (~overrun => Queue)

----------------------------------------------------------------------------
(* Remainders. *)

(* A remainder is the only number below m that differs by a multiple.      *)
LEMMA ModUnique ==
    ASSUME NEW m \in Nat \ {0}, NEW a \in Int, NEW q \in Int, NEW r \in 0..m - 1, a = m * q + r
    PROVE  a % m = r
  OBVIOUS

(* One turn of a ring. *)
LEMMA ModTurn ==
    ASSUME NEW m \in Nat \ {0}, NEW a \in -m..2 * m - 1
    PROVE  a % m = IF a < 0 THEN a + m ELSE IF a < m THEN a ELSE a - m
<1>1. CASE a < 0
  <2>1. a = m * (-1) + (a + m) OBVIOUS
  <2> QED BY <1>1, <2>1, ModUnique
<1>2. CASE a \in 0..m - 1
  <2>1. a = m * 0 + a OBVIOUS
  <2> QED BY <1>2, <2>1, ModUnique
<1>3. CASE a >= m
  <2>1. a = m * 1 + (a - m) OBVIOUS
  <2> QED BY <1>3, <2>1, ModUnique
<1> QED BY <1>1, <1>2, <1>3

LEMMA Sizes ==
    /\ RingSize \in Nat \ {0} /\ Word \in Nat \ {0} /\ Pad \in 0..Word - 1
    /\ RingSize <= Word /\ RingSize % 4 = 0
<1>1. RingSize \in Nat \ {0} /\ Word \in Nat \ {0} /\ Pad \in 0..Word - 1 /\ RingSize % 4 = 0
      /\ Word % RingSize = 0
  BY RingAssumption
<1>2. RingSize <= Word
  <2> SUFFICES ASSUME Word < RingSize PROVE FALSE
    BY <1>1
  <2>1. Word \in -RingSize..2 * RingSize - 1 BY <1>1
  <2>2. Word % RingSize = Word BY <1>1, <2>1, ModTurn
  <2> QED BY <1>1, <2>2
<1> QED BY <1>1, <1>2

(* What the handler writes to CAPR is the place the card reads from it,    *)
(* through the wrap of the register at 2^16.                               *)
LEMMA CaprRoundTrip ==
    ASSUME NEW x \in Places
    PROVE  ((((x - Pad) % Word) + Pad) % Word) % RingSize = x
<1>1. /\ RingSize \in Nat \ {0} /\ Word \in Nat \ {0} /\ Pad \in 0..Word - 1 /\ RingSize <= Word
      /\ x \in 0..RingSize - 1
  BY Sizes DEF Places
<1>2. (x - Pad) % Word = IF x < Pad THEN x - Pad + Word ELSE x - Pad
  <2> PICK a \in -Word..2 * Word - 1 : a = x - Pad BY <1>1
  <2>1. a % Word = IF a < 0 THEN a + Word ELSE IF a < Word THEN a ELSE a - Word
    BY <1>1, ModTurn
  <2> QED BY <1>1, <2>1
<1>3. (((x - Pad) % Word) + Pad) % Word = x
  <2>1. ((x - Pad) % Word) + Pad = IF x < Pad THEN x + Word ELSE x
    BY <1>1, <1>2
  <2>2. x + Word \in -Word..2 * Word - 1 /\ x \in -Word..2 * Word - 1 BY <1>1
  <2>3. (x + Word) % Word = x /\ x % Word = x BY <1>1, <2>2, ModTurn
  <2> QED BY <2>1, <2>3
<1>4. x % RingSize = x
  <2>1. x \in -RingSize..2 * RingSize - 1 BY <1>1
  <2> QED BY <1>1, <2>1, ModTurn
<1> QED BY <1>3, <1>4

(* The next place of the ring, and that the card and the handler agree on  *)
(* it: the card rounds the length up, the handler the place behind it.     *)
LEMMA StepForm ==
    ASSUME NEW n \in Nat
    PROVE  CardStep(n) \in Nat /\ Aligned4(CardStep(n)) /\ CardStep(n) >= n + 4
  BY DEF CardStep, Aligned4

LEMMA Ahead ==
    ASSUME NEW x \in Places, Aligned4(x), NEW n \in Nat, CardStep(n) < RingSize
    PROVE  /\ (x + CardStep(n)) % RingSize =
                IF x + CardStep(n) < RingSize THEN x + CardStep(n) ELSE x + CardStep(n) - RingSize
           /\ (x + CardStep(n)) % RingSize \in Places
           /\ Aligned4((x + CardStep(n)) % RingSize)
           /\ Advanced(x, n) = (x + CardStep(n)) % RingSize
<1>1. /\ RingSize \in Nat \ {0} /\ RingSize % 4 = 0 /\ x \in 0..RingSize - 1
      /\ CardStep(n) \in Nat /\ CardStep(n) % 4 = 0 /\ x % 4 = 0
  BY Sizes, StepForm DEF Places, Aligned4
<1>2. (x + CardStep(n)) % RingSize =
        IF x + CardStep(n) < RingSize THEN x + CardStep(n) ELSE x + CardStep(n) - RingSize
  <2> PICK a \in -RingSize..2 * RingSize - 1 : a = x + CardStep(n) BY <1>1
  <2>1. a % RingSize = IF a < 0 THEN a + RingSize ELSE IF a < RingSize THEN a ELSE a - RingSize
    BY <1>1, ModTurn
  <2> QED BY <1>1, <2>1
<1>3. (x + CardStep(n)) % RingSize \in Places
  BY <1>1, <1>2 DEF Places
<1>4. ((x + CardStep(n)) % RingSize) % 4 = 0
  <2>1. (x + CardStep(n)) % 4 = 0 /\ (x + CardStep(n) - RingSize) % 4 = 0 BY <1>1
  <2> QED BY <1>2, <2>1
<1>5. 4 * ((x + n + 4 + 3) \div 4) = x + CardStep(n)
  BY <1>1 DEF CardStep
<1> QED BY <1>2, <1>3, <1>4, <1>5 DEF Advanced, Aligned4

----------------------------------------------------------------------------
(* The receive ring. *)

LEMMA InitRxInv == Init => RxInv
<1> SUFFICES ASSUME Init PROVE RxInv
  OBVIOUS
<1>1. RingSize \in Nat \ {0} /\ 0 \in Places BY Sizes DEF Places
<1>2. ReadPointer = 0
  <2>1. (capr + Pad) % Word = 0
    <3>1. capr + Pad = Word * 1 + 0 /\ 0 \in 0..Word - 1 BY Sizes DEF Init
    <3> QED BY <3>1, Sizes, ModUnique
  <2>2. 0 % RingSize = 0
    <3>1. 0 = RingSize * 0 + 0 /\ 0 \in 0..RingSize - 1 BY Sizes
    <3> QED BY <3>1, Sizes, ModUnique
  <2> QED BY <2>1, <2>2 DEF ReadPointer
<1>3. RxTypes BY <1>1, <1>2 DEF Init, RxTypes
<1>4. RxAligned /\ Chain BY DEF Init, RxAligned, Chain, Aligned4
<1>5. ReadsThere /\ NotYet BY <1>2 DEF Init, ReadsThere, NotYet
<1> QED BY <1>3, <1>4, <1>5 DEF RxInv

LEMMA HeldTypes ==
    ASSUME RxTypes
    PROVE  /\ \A i \in DOMAIN held :
                 /\ held[i] \in HeldFrame
                 /\ held[i].off \in Places /\ held[i].frame \in Frames /\ held[i].whole \in BOOLEAN
                 /\ held[i].frame.length \in Nat /\ Step(i) \in Nat /\ Step(i) >= held[i].frame.length + 4
           /\ \A f \in Frames : f.length \in Nat
           /\ Len(held) \in Nat /\ DOMAIN held = 1..Len(held)
           /\ held # <<>> <=> 1 \in DOMAIN held
           /\ \A x \in Places : Behind(x) \in 0..RingSize - 1
<1>1. \A f \in Frames : f.length \in Nat BY FramesAssumption
<1>2. \A i \in DOMAIN held : held[i] \in HeldFrame
  BY DEF RxTypes
<1>3. \A i \in DOMAIN held : held[i].off \in Places /\ held[i].frame \in Frames /\ held[i].whole \in BOOLEAN
  BY <1>2 DEF HeldFrame
<1>4. \A i \in DOMAIN held : Step(i) \in Nat /\ Step(i) >= held[i].frame.length + 4
  BY <1>1, <1>3, StepForm DEF Step
<1>5. /\ Len(held) \in Nat /\ DOMAIN held = 1..Len(held)
      /\ held # <<>> <=> 1 \in DOMAIN held
  BY DEF RxTypes
<1>6. \A x \in Places : Behind(x) \in 0..RingSize - 1
  BY Sizes DEF RxTypes, Places, Behind
<1> QED BY <1>1, <1>2, <1>3, <1>4, <1>5, <1>6

LEMMA SeqOf ==
    ASSUME NEW S, NEW n \in Nat, NEW g \in [1..n -> S]
    PROVE  g \in Seq(S)
  OBVIOUS

LEMMA UsedIsBehind ==
    ASSUME RxTypes
    PROVE  Used = Behind(cardNext)
<1>1. RingSize \in Nat \ {0} /\ cardNext \in 0..RingSize - 1 /\ ReadPointer \in 0..RingSize - 1
  BY Sizes DEF RxTypes, Places
<1> PICK a \in -RingSize..2 * RingSize - 1 : a = cardNext - ReadPointer BY <1>1
<1>2. a % RingSize = IF a < 0 THEN a + RingSize ELSE IF a < RingSize THEN a ELSE a - RingSize
  BY <1>1, ModTurn
<1> QED BY <1>1, <1>2 DEF Used, Behind

(* The bytes of a frame the card has room for meet those of no frame held, *)
(* although a frame at the end of the ring is written past it.             *)
LEMMA NoMeeting ==
    ASSUME RxInv, NEW f \in Frames, Used + CardStep(f.length) < RingSize, NEW i \in DOMAIN held
    PROVE  ~Meet(held[i], cardNext, f.length)
<1>1. /\ held[i].off \in Places /\ held[i].frame.length \in Nat /\ f.length \in Nat
      /\ Step(i) \in Nat /\ Step(i) >= held[i].frame.length + 4
  BY HeldTypes DEF RxInv
<1>2. CardStep(f.length) \in Nat /\ CardStep(f.length) >= f.length + 4
  BY <1>1, StepForm
<1>3. Behind(held[i].off) + Step(i) <= Behind(cardNext)
  BY DEF RxInv, Chain
<1>4. Behind(cardNext) + CardStep(f.length) < RingSize
  BY UsedIsBehind DEF RxInv
<1>5. RingSize \in Nat \ {0} /\ cardNext \in 0..RingSize - 1 /\ ReadPointer \in 0..RingSize - 1
  BY Sizes DEF RxInv, RxTypes, Places
<1> PICK o \in 0..RingSize - 1 : o = held[i].off BY <1>1 DEF Places
<1>6. \/ o + 3 + held[i].frame.length < cardNext
      \/ cardNext + 3 + f.length < o
  BY <1>1, <1>2, <1>3, <1>4, <1>5 DEF Behind
<1>7. \A x \in Int : ~(x \in Bytes(o, held[i].frame.length) /\ x \in Bytes(cardNext, f.length))
  BY <1>1, <1>5, <1>6 DEF Bytes
<1>8. Bytes(o, held[i].frame.length) \subseteq Int BY DEF Bytes
<1> QED BY <1>7, <1>8 DEF Meet

LEMMA ReceiveRx == ASSUME RxInv, NEW f \in Frames, CardReceive(f) PROVE RxInv'
<1> USE DEF RxInv
<1>1. /\ Used + CardStep(f.length) < RingSize
      /\ held' = Append([i \in DOMAIN held |->
                           [held[i] EXCEPT !.whole = @ /\ ~Meet(held[i], cardNext, f.length)]],
                        [off |-> cardNext, frame |-> f, whole |-> TRUE])
      /\ cardNext' = (cardNext + CardStep(f.length)) % RingSize
      /\ UNCHANGED <<capr, rxOffset, pc, boot, count>>
  BY DEF CardReceive, bootVars
<1> PICK n \in Nat : n = Len(held) BY HeldTypes
<1>2. /\ RingSize \in Nat \ {0} /\ ReadPointer \in Places /\ cardNext \in Places /\ Aligned4(cardNext)
      /\ Places = 0..RingSize - 1 /\ f.length \in Nat /\ CardStep(f.length) \in Nat
      /\ CardStep(f.length) > 0
  <2>1. f.length \in Nat BY HeldTypes
  <2>2. CardStep(f.length) \in Nat /\ CardStep(f.length) > 0
    <3>1. CardStep(f.length) \in Nat /\ CardStep(f.length) >= f.length + 4 BY <2>1, StepForm
    <3> QED BY <2>1, <3>1
  <2>3. RingSize \in Nat \ {0} BY Sizes
  <2> QED BY <2>1, <2>2, <2>3 DEF RxTypes, RxAligned, Places
<1>3. DOMAIN held = 1..n /\ DOMAIN held' = 1..n + 1
  BY <1>1, HeldTypes
<1>4. \A i \in 1..n : held'[i] = [held[i] EXCEPT !.whole = @ /\ ~Meet(held[i], cardNext, f.length)]
  BY <1>1, <1>3
<1>5. held'[n + 1] = [off |-> cardNext, frame |-> f, whole |-> TRUE]
  BY <1>1, <1>3
<1>6. \A i \in 1..n : held'[i].off = held[i].off /\ held'[i].frame = held[i].frame /\ held'[i].whole
  <2> SUFFICES ASSUME NEW i \in 1..n
               PROVE  held'[i].off = held[i].off /\ held'[i].frame = held[i].frame /\ held'[i].whole
    OBVIOUS
  <2>1. held[i] \in HeldFrame /\ held[i].whole
    BY <1>3, HeldTypes DEF RxAligned
  <2>2. ~Meet(held[i], cardNext, f.length) BY <1>1, <1>3, NoMeeting
  <2> QED BY <1>4, <2>1, <2>2 DEF HeldFrame
<1>7. Used = Behind(cardNext) /\ CardStep(f.length) < RingSize
      /\ Behind(cardNext) + CardStep(f.length) < RingSize
  <2>1. Used = Behind(cardNext) BY UsedIsBehind
  <2>2. Behind(cardNext) \in Nat BY <1>2, HeldTypes
  <2> QED BY <1>1, <1>2, <2>1, <2>2
<1>8. cardNext' \in Places /\ Aligned4(cardNext')
      /\ cardNext' = IF cardNext + CardStep(f.length) < RingSize
                     THEN cardNext + CardStep(f.length) ELSE cardNext + CardStep(f.length) - RingSize
  BY <1>1, <1>2, <1>7, Ahead
<1>9. ReadPointer' = ReadPointer /\ \A x : Behind(x)' = Behind(x)
  BY <1>1 DEF ReadPointer, Behind
<1>10. Behind(cardNext') = Behind(cardNext) + CardStep(f.length)
  BY <1>2, <1>7, <1>8 DEF Behind
<1>11. RxTypes'
  <2>1. \A i \in 1..n : held'[i] \in HeldFrame
    <3> SUFFICES ASSUME NEW i \in 1..n PROVE held'[i] \in HeldFrame
      OBVIOUS
    <3>1. held[i] \in HeldFrame BY <1>3, HeldTypes
    <3> QED BY <1>4, <1>6, <3>1 DEF HeldFrame
  <2>2. held'[n + 1] \in HeldFrame BY <1>2, <1>5 DEF HeldFrame
  <2>3. \A i \in 1..n + 1 : i = n + 1 \/ i \in 1..n OBVIOUS
  <2>4. held' \in Seq(HeldFrame)
    <3>1. held' \in [1..n + 1 -> HeldFrame]
      <4>1. held' = [i \in 1..n + 1 |-> held'[i]] BY <1>1, <1>3
      <4> QED BY <2>1, <2>2, <2>3, <4>1
    <3> QED BY <3>1, SeqOf
  <2> QED BY <1>1, <1>8, <1>9, <2>4 DEF RxTypes, Places, HeldFrame
<1>12. RxAligned'
  <2>1. \A i \in 1..n + 1 : i = n + 1 \/ i \in 1..n OBVIOUS
  <2>2. ASSUME NEW i \in 1..n + 1 PROVE Aligned4(held'[i].off) /\ held'[i].whole
    <3>1. CASE i = n + 1 BY <1>2, <1>5, <3>1
    <3>2. CASE i # n + 1 BY <1>3, <1>6, <2>1, <3>2 DEF RxAligned
    <3> QED BY <3>1, <3>2
  <2>3. Aligned4(rxOffset) BY DEF RxAligned
  <2> QED BY <1>1, <1>3, <1>8, <2>2, <2>3 DEF RxAligned, Aligned4
<1>13. Chain'
  <2>1. \A i \in 1..n : Step(i)' = Step(i) /\ Behind(held[i].off)' = Behind(held[i].off)
    BY <1>6, <1>9 DEF Step, Behind
  <2>2. Step(n + 1)' = CardStep(f.length) /\ Behind(held[n + 1].off)' = Behind(cardNext)
    BY <1>5, <1>9 DEF Step, Behind
  <2>3. Behind(cardNext)' = Behind(cardNext) + CardStep(f.length)
    BY <1>9, <1>10 DEF Behind
  <2>4. /\ \A i \in 1..n : Step(i) \in Nat /\ Behind(held[i].off) \in Nat
        /\ Behind(cardNext) \in Nat
    <3>1. \A x \in Places : Behind(x) \in Nat
      <4>1. \A x \in Places : Behind(x) \in 0..RingSize - 1 BY HeldTypes
      <4> QED BY <1>2, <4>1
    <3>2. \A i \in 1..n : Step(i) \in Nat /\ held[i].off \in Places BY <1>3, HeldTypes
    <3> QED BY <1>2, <3>1, <3>2
  <2>5. /\ \A i \in 1..n :
              /\ Behind(held[i].off) + Step(i) <= Behind(cardNext)
              /\ i = n => Behind(held[i].off) + Step(i) = Behind(cardNext)
              /\ i + 1 \in 1..n => Behind(held[i].off) + Step(i) = Behind(held[i + 1].off)
        /\ \A i, j \in 1..n : i < j => Behind(held[i].off) + Step(i) <= Behind(held[j].off)
    BY <1>3 DEF Chain
  <2>6. rxOffset' = IF held' = <<>> THEN cardNext' ELSE held'[1].off
    <3>1. held' # <<>> /\ rxOffset' = rxOffset BY <1>1
    <3>2. CASE n = 0
      <4>1. held = <<>> BY <3>2, HeldTypes
      <4> QED BY <1>5, <3>1, <3>2, <4>1 DEF Chain
    <3>3. CASE n # 0
      <4>1. held # <<>> /\ 1 \in 1..n BY <1>3, <3>3, HeldTypes
      <4> QED BY <1>6, <3>1, <4>1 DEF Chain
    <3> QED BY <3>2, <3>3
  <2>7. ASSUME NEW i \in 1..n + 1
        PROVE  /\ Behind(held[i].off)' + Step(i)' <= Behind(cardNext)'
               /\ i = n + 1 => Behind(held[i].off)' + Step(i)' = Behind(cardNext)'
               /\ i + 1 \in 1..n + 1 => Behind(held[i].off)' + Step(i)' = Behind(held[i + 1].off)'
    <3>1. CASE i = n + 1 BY <1>2, <2>2, <2>3, <2>4, <3>1
    <3>2. CASE i # n + 1
      <4>1. i \in 1..n BY <3>2
      <4>2. Behind(held[i].off)' = Behind(held[i].off) /\ Step(i)' = Step(i)
        BY <2>1, <4>1
      <4>3. Behind(held[i].off) + Step(i) <= Behind(cardNext)
        BY <2>5, <4>1
      <4>4. Behind(held[i].off)' + Step(i)' <= Behind(cardNext)'
        <5> PICK here \in Nat, step \in Nat, next \in Nat, more \in Nat :
              here = Behind(held[i].off) /\ step = Step(i) /\ next = Behind(cardNext)
              /\ more = CardStep(f.length)
          BY <1>2, <2>4, <4>1
        <5>1. here + step <= next + more BY <4>3
        <5> QED BY <2>3, <4>2, <5>1
      <4>5. Behind(held[i].off)' + Step(i)' = Behind(held[i + 1].off)'
        <5>1. CASE i = n
          <6>1. Behind(held[i].off) + Step(i) = Behind(cardNext) BY <2>5, <4>1, <5>1
          <6> QED BY <2>2, <4>2, <5>1, <6>1
        <5>2. CASE i # n
          <6>1. i + 1 \in 1..n BY <4>1, <5>2
          <6>2. Behind(held[i].off) + Step(i) = Behind(held[i + 1].off) BY <2>5, <4>1, <6>1
          <6>3. Behind(held[i + 1].off)' = Behind(held[i + 1].off) BY <2>1, <6>1
          <6> QED BY <4>2, <6>2, <6>3
        <5> QED BY <5>1, <5>2
      <4> QED BY <3>2, <4>4, <4>5
    <3> QED BY <3>1, <3>2
  <2>8. ASSUME NEW i \in 1..n + 1, NEW j \in 1..n + 1, i < j
        PROVE  Behind(held[i].off)' + Step(i)' <= Behind(held[j].off)'
    <3>1. i \in 1..n BY <2>8
    <3>2. CASE j = n + 1
      <4>1. Behind(held[j].off)' = Behind(cardNext) BY <2>2, <3>2
      <4> QED BY <2>1, <2>5, <3>1, <4>1
    <3>3. CASE j # n + 1
      <4>1. j \in 1..n BY <3>3
      <4> QED BY <2>1, <2>5, <2>8, <3>1, <4>1
    <3> QED BY <3>2, <3>3
  <2>9. Len(held') = n + 1 BY <1>1, <1>3
  <2> QED BY <1>3, <2>6, <2>7, <2>8, <2>9 DEF Chain
<1>14. ReadsThere'
  <2>1. held' # <<>> BY <1>1
  <2> QED BY <1>1, <1>9, <2>1 DEF ReadsThere
<1>15. NotYet' BY <1>1 DEF NotYet
<1> QED BY <1>11, <1>12, <1>13, <1>14, <1>15

(* The oldest frame is the only one that can stand where the handler reads.*)
LEMMA FoundIsHead ==
    ASSUME RxInv, pc \in {"header", "copy", "start", "advance"}
    PROVE  held # <<>> /\ 1 \in DOMAIN held /\ Head(held) = held[1] /\ Found = {held[1].frame}
<1>1. held # <<>> BY DEF RxInv, ReadsThere
<1>2. 1 \in DOMAIN held /\ Head(held) = held[1]
  BY <1>1, HeldTypes DEF RxInv, RxTypes
<1>3. held[1].off = rxOffset /\ held[1].whole
  BY <1>1, <1>2 DEF RxInv, Chain, RxAligned
<1> QED BY <1>1, <1>2, <1>3 DEF Found

(* The handler leaves a frame: where it goes on, the next one begins.      *)
LEMMA AdvanceRx == RxInv /\ Advance => RxInv'
<1> SUFFICES ASSUME RxInv, Advance PROVE RxInv'
  OBVIOUS
<1> USE DEF RxInv
<1>1. /\ pc = "advance" /\ pc' = "capr"
      /\ UNCHANGED <<capr, cardNext, boot, count>>
      /\ held # <<>> /\ held' = Tail(held)
      /\ rxOffset' = Advanced(rxOffset, held[1].frame.length)
      /\ 1 \in DOMAIN held
  <2>1. pc = "advance" BY DEF Advance
  <2>2. held # <<>> /\ 1 \in DOMAIN held /\ Found = {held[1].frame}
    BY <2>1, FoundIsHead
  <2> QED BY <2>1, <2>2 DEF Advance, bootVars, irqVars, rxCard
<1> PICK n \in Nat \ {0} : n = Len(held)
  <2>1. Len(held) \in Nat /\ DOMAIN held = 1..Len(held) BY HeldTypes
  <2>2. Len(held) \in Nat \ {0} BY <1>1, <2>1
  <2> QED BY <2>2
<1>2. DOMAIN held = 1..n /\ DOMAIN held' = 1..n - 1 /\ Len(held') = n - 1
      /\ \A i \in 1..n - 1 : held'[i] = held[i + 1] /\ i + 1 \in 1..n
  BY <1>1 DEF RxTypes
<1>3. /\ RingSize \in Nat \ {0} /\ ReadPointer \in 0..RingSize - 1 /\ ReadPointer' = ReadPointer
      /\ \A x : Behind(x)' = Behind(x)
      /\ Places = 0..RingSize - 1 /\ rxOffset \in Places /\ cardNext \in Places
      /\ \A x \in Places : Behind(x) \in 0..RingSize - 1
  <2>1. RingSize \in Nat \ {0} BY Sizes
  <2>2. ReadPointer' = ReadPointer /\ \A x : Behind(x)' = Behind(x)
    BY <1>1 DEF ReadPointer, Behind
  <2>3. \A x \in Places : Behind(x) \in 0..RingSize - 1 BY HeldTypes
  <2> QED BY <2>1, <2>2, <2>3 DEF RxTypes, Places
<1>4. /\ held[1].off = rxOffset /\ ReadPointer = rxOffset /\ Behind(rxOffset) = 0
      /\ Step(1) = CardStep(held[1].frame.length) /\ Step(1) \in Nat /\ held[1].frame.length \in Nat
      /\ Aligned4(rxOffset)
  <2>1. held[1].off = rxOffset /\ ReadPointer = rxOffset
    BY <1>1 DEF Chain, ReadsThere
  <2>2. Behind(rxOffset) = 0 BY <1>3, <2>1 DEF Behind
  <2>3. Step(1) \in Nat /\ held[1].frame.length \in Nat BY <1>1, HeldTypes
  <2> QED BY <2>1, <2>2, <2>3 DEF Step, RxAligned
<1> DEFINE next == IF n = 1 THEN cardNext ELSE held[2].off
<1>5. next \in Places /\ Behind(next) = Step(1)
  <2>1. CASE n = 1
    <3>1. Behind(held[1].off) + Step(1) = Behind(cardNext)
      BY <1>1, <2>1 DEF Chain
    <3> QED BY <1>3, <1>4, <2>1, <3>1
  <2>2. CASE n # 1
    <3>1. 1 + 1 \in DOMAIN held /\ 2 \in DOMAIN held BY <1>2, <2>2
    <3>2. Behind(held[1].off) + Step(1) = Behind(held[2].off)
      BY <1>1, <3>1 DEF Chain
    <3>3. held[2].off \in Places BY <3>1, HeldTypes
    <3> QED BY <1>3, <1>4, <2>2, <3>2, <3>3
  <2> QED BY <2>1, <2>2
<1> HIDE DEF next
<1>6. rxOffset' = next
  <2>1. Step(1) < RingSize BY <1>3, <1>5
  <2>2. rxOffset' = IF rxOffset + Step(1) < RingSize
                    THEN rxOffset + Step(1) ELSE rxOffset + Step(1) - RingSize
    <3>1. Advanced(rxOffset, held[1].frame.length) = (rxOffset + Step(1)) % RingSize
          /\ (rxOffset + Step(1)) % RingSize =
               IF rxOffset + Step(1) < RingSize
               THEN rxOffset + Step(1) ELSE rxOffset + Step(1) - RingSize
      <4>1. CardStep(held[1].frame.length) < RingSize /\ rxOffset \in Places
            /\ held[1].frame.length \in Nat /\ Aligned4(rxOffset)
        BY <1>3, <1>4, <2>1
      <4>2. Step(1) = CardStep(held[1].frame.length) BY <1>4
      <4> QED BY <4>1, <4>2, Ahead
    <3> QED BY <1>1, <3>1
  <2>3. Behind(next) = IF rxOffset <= next THEN next - rxOffset ELSE next - rxOffset + RingSize
    BY <1>4 DEF Behind
  <2> PICK x \in 0..RingSize - 1, y \in 0..RingSize - 1, step \in Nat :
        x = rxOffset /\ y = next /\ step = Step(1)
    BY <1>3, <1>4, <1>5
  <2>4. step = IF x <= y THEN y - x ELSE y - x + RingSize BY <1>5, <2>3
  <2>5. rxOffset' = IF x + step < RingSize THEN x + step ELSE x + step - RingSize BY <2>2
  <2>6. RingSize \in Nat \ {0} BY <1>3
  <2>7. (IF x + step < RingSize THEN x + step ELSE x + step - RingSize) = y BY <2>4, <2>6
  <2> QED BY <2>5, <2>7
<1>7. Aligned4(next)
  <2>1. n # 1 => 2 \in DOMAIN held BY <1>2
  <2> QED BY <2>1 DEF RxAligned, next
<1>8. RxTypes'
  <2>1. held' \in Seq(HeldFrame) BY <1>1 DEF RxTypes
  <2> QED BY <1>1, <1>3, <1>5, <1>6, <2>1 DEF RxTypes, Places, HeldFrame
<1>9. RxAligned'
  <2>1. \A i \in 1..n - 1 : Aligned4(held'[i].off) /\ held'[i].whole
    BY <1>2 DEF RxAligned
  <2> QED BY <1>1, <1>2, <1>6, <1>7, <2>1 DEF RxAligned, Aligned4
<1>10. Chain'
  <2>1. \A i \in 1..n - 1 : Step(i)' = Step(i + 1) /\ Behind(held[i].off)' = Behind(held[i + 1].off)
    BY <1>2, <1>3 DEF Step, Behind
  <2>2. Behind(cardNext)' = Behind(cardNext) BY <1>1, <1>3 DEF Behind
  <2>3. rxOffset' = IF held' = <<>> THEN cardNext' ELSE held'[1].off
    <3>1. CASE n = 1
      <4>1. held' = <<>> BY <1>1, <1>2, <3>1, <1>8 DEF RxTypes
      <4> QED BY <1>1, <1>6, <3>1, <4>1 DEF next
    <3>2. CASE n # 1
      <4>1. 1 \in 1..n - 1 BY <3>2
      <4>2. held' # <<>> BY <1>2, <4>1
      <4>3. held'[1] = held[2] BY <1>2, <4>1
      <4> QED BY <1>6, <3>2, <4>2, <4>3 DEF next
    <3> QED BY <3>1, <3>2
  <2>4. ASSUME NEW i \in 1..n - 1
        PROVE  /\ Behind(held[i].off)' + Step(i)' <= Behind(cardNext)'
               /\ i = n - 1 => Behind(held[i].off)' + Step(i)' = Behind(cardNext)'
               /\ i + 1 \in 1..n - 1 => Behind(held[i].off)' + Step(i)' = Behind(held[i + 1].off)'
    <3> PICK j \in 1..n : j = i + 1 OBVIOUS
    <3>1. /\ Behind(held[j].off) + Step(j) <= Behind(cardNext)
          /\ j = n => Behind(held[j].off) + Step(j) = Behind(cardNext)
          /\ j + 1 \in 1..n => Behind(held[j].off) + Step(j) = Behind(held[j + 1].off)
      BY <1>2 DEF Chain
    <3>2. Step(i)' = Step(j) /\ Behind(held[i].off)' = Behind(held[j].off) BY <2>1
    <3>3. i + 1 \in 1..n - 1 => j + 1 \in 1..n /\ Behind(held[i + 1].off)' = Behind(held[j + 1].off)
      BY <2>1
    <3> QED BY <2>2, <3>1, <3>2, <3>3
  <2>5. ASSUME NEW i \in 1..n - 1, NEW j \in 1..n - 1, i < j
        PROVE  Behind(held[i].off)' + Step(i)' <= Behind(held[j].off)'
    <3>1. i + 1 \in DOMAIN held /\ j + 1 \in DOMAIN held /\ i + 1 < j + 1 BY <1>2, <2>5
    <3>2. Behind(held[i + 1].off) + Step(i + 1) <= Behind(held[j + 1].off)
      BY <3>1 DEF Chain
    <3> QED BY <2>1, <3>2
  <2> QED BY <1>2, <2>3, <2>4, <2>5 DEF Chain
<1>11. ReadsThere' BY <1>1 DEF ReadsThere
<1>12. NotYet' BY <1>1 DEF NotYet
<1> QED BY <1>8, <1>9, <1>10, <1>11, <1>12

(* CAPR is written: the card's read pointer comes up to the handler's, and *)
(* everything is as much nearer.                                           *)
LEMMA WriteCaprRx == RxInv /\ WriteCapr => RxInv'
<1> SUFFICES ASSUME RxInv, WriteCapr PROVE RxInv'
  OBVIOUS
<1> USE DEF RxInv
<1>1. /\ pc = "capr" /\ pc' = "check" /\ capr' = (rxOffset - Pad) % Word
      /\ UNCHANGED <<cardNext, rxOffset, held, boot, count>>
  BY DEF WriteCapr, Capr, bootVars, irqVars
<1>2. /\ RingSize \in Nat \ {0} /\ ReadPointer \in 0..RingSize - 1
      /\ Places = 0..RingSize - 1 /\ rxOffset \in Places /\ cardNext \in Places
      /\ \A i \in DOMAIN held : held[i].off \in Places /\ Step(i) \in Nat
      /\ \A x \in Places : Behind(x) \in 0..RingSize - 1
  <2>1. RingSize \in Nat \ {0} BY Sizes
  <2>2. \A i \in DOMAIN held : held[i].off \in Places /\ Step(i) \in Nat BY HeldTypes
  <2>3. \A x \in Places : Behind(x) \in 0..RingSize - 1 BY HeldTypes
  <2> QED BY <2>1, <2>2, <2>3 DEF RxTypes, Places
<1>3. ReadPointer' = rxOffset
  <2>1. (((((rxOffset - Pad) % Word) + Pad) % Word) % RingSize) = rxOffset
    BY <1>2, CaprRoundTrip
  <2> QED BY <1>1, <2>1 DEF ReadPointer
<1>4. ASSUME NEW x \in Places, Behind(x) >= Behind(rxOffset)
      PROVE  Behind(x)' = Behind(x) - Behind(rxOffset)
  <2>1. Behind(x)' = IF rxOffset <= x THEN x - rxOffset ELSE x - rxOffset + RingSize
    BY <1>3 DEF Behind
  <2> QED BY <1>2, <1>4, <2>1 DEF Behind
<1>5. /\ Behind(cardNext) >= Behind(rxOffset)
      /\ \A i \in DOMAIN held : Behind(held[i].off) >= Behind(rxOffset)
  <2>1. CASE held = <<>>
    BY <1>2, <2>1 DEF Chain
  <2>2. CASE held # <<>>
    <3>1. 1 \in DOMAIN held /\ held[1].off = rxOffset /\ DOMAIN held \subseteq Nat \ {0}
      BY <2>2, HeldTypes DEF Chain
    <3>2. Behind(rxOffset) + Step(1) <= Behind(cardNext)
      BY <3>1 DEF Chain
    <3>3. Behind(rxOffset) \in Nat /\ Behind(cardNext) \in Nat /\ Step(1) \in Nat
      BY <1>2, <3>1
    <3>4. ASSUME NEW i \in DOMAIN held PROVE Behind(held[i].off) >= Behind(rxOffset)
      <4>1. CASE i = 1 BY <3>1, <3>3, <4>1
      <4>2. CASE i # 1
        <5>1. 1 < i BY <3>1, <4>2
        <5>2. Behind(rxOffset) + Step(1) <= Behind(held[i].off)
          BY <3>1, <5>1 DEF Chain
        <5>3. Behind(held[i].off) \in Nat BY <1>2
        <5> QED BY <3>3, <5>2, <5>3
      <4> QED BY <4>1, <4>2
    <3> QED BY <3>2, <3>3, <3>4
  <2> QED BY <2>1, <2>2
<1>6. RxTypes' BY <1>1, <1>2, <1>3 DEF RxTypes, Places, HeldFrame
<1>7. RxAligned' BY <1>1 DEF RxAligned, Aligned4
<1>8. Chain'
  <2>1. \A i \in DOMAIN held : Step(i)' = Step(i) BY <1>1 DEF Step
  <2>2. \A i \in DOMAIN held : Behind(held[i].off)' = Behind(held[i].off) - Behind(rxOffset)
    <3> SUFFICES ASSUME NEW i \in DOMAIN held
                 PROVE  Behind(held[i].off)' = Behind(held[i].off) - Behind(rxOffset)
      OBVIOUS
    <3> PICK o \in Places : o = held[i].off BY <1>2
    <3>1. Behind(o)' = Behind(o) - Behind(rxOffset) BY <1>4, <1>5
    <3>2. Behind(held[i].off)' = Behind(o)' BY <1>1 DEF Behind
    <3> QED BY <3>1, <3>2
  <2>3. Behind(cardNext)' = Behind(cardNext) - Behind(rxOffset)
    <3> PICK o \in Places : o = cardNext BY <1>2
    <3>1. Behind(o)' = Behind(o) - Behind(rxOffset) BY <1>4, <1>5
    <3>2. Behind(cardNext)' = Behind(o)' BY <1>1 DEF Behind
    <3> QED BY <3>1, <3>2
  <2>4. /\ Behind(rxOffset) \in Nat /\ Behind(cardNext) \in Nat
        /\ \A i \in DOMAIN held : Behind(held[i].off) \in Nat /\ Step(i) \in Nat
    BY <1>2
  <2>5. DOMAIN held' = DOMAIN held /\ Len(held') = Len(held) BY <1>1
  <2>6. rxOffset' = IF held' = <<>> THEN cardNext' ELSE held'[1].off
    BY <1>1 DEF Chain
  <2>7. ASSUME NEW i \in DOMAIN held
        PROVE  /\ Behind(held[i].off)' + Step(i)' <= Behind(cardNext)'
               /\ i = Len(held) => Behind(held[i].off)' + Step(i)' = Behind(cardNext)'
               /\ i + 1 \in DOMAIN held => Behind(held[i].off)' + Step(i)' = Behind(held[i + 1].off)'
    BY <2>1, <2>2, <2>3, <2>4 DEF Chain
  <2>8. ASSUME NEW i \in DOMAIN held, NEW j \in DOMAIN held, i < j
        PROVE  Behind(held[i].off)' + Step(i)' <= Behind(held[j].off)'
    <3>1. Behind(held[i].off) + Step(i) <= Behind(held[j].off) BY <2>8 DEF Chain
    <3> QED BY <2>1, <2>2, <2>4, <3>1
  <2> QED BY <2>5, <2>6, <2>7, <2>8 DEF Chain
<1>9. ReadsThere' BY <1>1, <1>3 DEF ReadsThere
<1>10. NotYet' BY <1>1 DEF NotYet
<1> QED BY <1>6, <1>7, <1>8, <1>9, <1>10

(* The other steps leave the ring alone: they only move the boot and the   *)
(* handler, and the boot sets back what nothing has moved yet.             *)
LEMMA OtherRx ==
    ASSUME RxInv, UNCHANGED <<capr, cardNext, rxOffset, held>>,
           pc' \in {"idle", "read", "ack", "check", "header", "copy", "start", "advance", "eoi"},
           boot' \in {"reset", "irq", "rx", "capr", "route", "handler", "done", "failed"},
           pc' = pc \/ pc # "capr",
           pc' \in {"header", "copy", "start", "advance"} => held # <<>>, NotYet'
    PROVE  RxInv'
<1> USE DEF RxInv
<1>1. ReadPointer' = ReadPointer /\ \A x : Behind(x)' = Behind(x)
  BY DEF ReadPointer, Behind
<1>2. RxTypes' BY <1>1 DEF RxTypes, Places, HeldFrame
<1>3. RxAligned' BY DEF RxAligned, Aligned4
<1>4. Chain'
  <2>1. \A i : Step(i)' = Step(i) /\ Behind(held[i].off)' = Behind(held[i].off)
    BY <1>1 DEF Step, Behind
  <2>2. Behind(cardNext)' = Behind(cardNext) BY <1>1 DEF Behind
  <2> QED BY <2>1, <2>2 DEF Chain
<1>5. ReadsThere' BY <1>1 DEF ReadsThere
<1> QED BY <1>2, <1>3, <1>4, <1>5

LEMMA BootRx == RxInv /\ Boot => RxInv'
<1> SUFFICES ASSUME RxInv, Boot PROVE RxInv'
  OBVIOUS
<1>1. pc = "idle" /\ pc' = "idle"
  BY DEF Boot, BootStep, ResetDone, ResetPoll, EnableInterrupts, EnableReceiver, ResetCapr, Route, StoreHandler
<1>2. boot' \in {"reset", "irq", "rx", "capr", "route", "handler", "done", "failed"}
  BY DEF Boot, BootStep, ResetDone, ResetPoll, EnableInterrupts, EnableReceiver, ResetCapr, Route, StoreHandler
<1>3. UNCHANGED <<capr, cardNext, rxOffset, held>>
  <2>1. CASE ResetCapr
    <3>1. capr = Word - Pad /\ rxOffset = 0
      BY <2>1 DEF ResetCapr, BootStep, RxInv, NotYet
    <3> QED BY <2>1, <3>1 DEF ResetCapr
  <2>2. CASE ~ResetCapr
    BY <2>2 DEF Boot, ResetDone, ResetPoll, EnableInterrupts, EnableReceiver, Route, StoreHandler, rxCard
  <2> QED BY <2>1, <2>2
<1>4. NotYet'
  <2>1. CASE StoreHandler
    BY <2>1 DEF StoreHandler, BootStep, NotYet
  <2>2. CASE ~StoreHandler
    <3>1. count' = count
          /\ boot \in {"reset", "irq", "rx", "capr", "route", "handler"}
      BY <2>2 DEF Boot, BootStep, ResetDone, ResetPoll, EnableInterrupts, EnableReceiver, ResetCapr, Route, irqVars
    <3> QED BY <1>1, <1>3, <3>1 DEF RxInv, NotYet
  <2> QED BY <2>1, <2>2
<1> QED BY <1>1, <1>2, <1>3, <1>4, OtherRx

LEMMA HandlerRx ==
    ASSUME RxInv,
           Enter \/ Eoi \/ ReadIsr \/ AckIsr \/ CheckBuffer \/ NoRok \/ ReceiveEthernet
             \/ SendCopy \/ SendStart
    PROVE  RxInv'
<1>1. /\ UNCHANGED <<capr, cardNext, rxOffset, held, boot, count>>
      /\ pc' \in {"idle", "read", "ack", "check", "header", "copy", "start", "advance", "eoi"}
      /\ pc # "capr" /\ (pc = "idle" => pc' \in {"read", "eoi"} /\ (count = 0 => pc' = "eoi"))
      /\ pc = "eoi" => pc' = "idle"
  BY DEF Enter, Eoi, ReadIsr, AckIsr, CheckBuffer, NoRok, ReceiveEthernet, SendCopy, SendStart,
         bootVars, irqVars, rxCard
<1>2. pc' \in {"header", "copy", "start", "advance"} => held # <<>>
  <2>1. CASE CheckBuffer
    <3>1. held = <<>> => BufferEmpty
      BY <2>1 DEF CheckBuffer, RxInv, Chain, ReadsThere, BufferEmpty
    <3> QED BY <2>1, <3>1 DEF CheckBuffer
  <2>2. CASE ~CheckBuffer
    <3>1. pc' \in {"header", "copy", "start", "advance"} => pc \in {"header", "copy", "start", "advance"}
      BY <2>2 DEF Enter, Eoi, ReadIsr, AckIsr, NoRok, ReceiveEthernet, SendCopy, SendStart
    <3> QED BY <3>1 DEF RxInv, ReadsThere
  <2> QED BY <2>1, <2>2
<1>3. boot \in {"reset", "irq", "rx", "capr", "route", "handler", "done", "failed"}
  BY DEF RxInv, RxTypes
<1>4. NotYet' BY <1>1 DEF RxInv, NotYet
<1> QED BY <1>1, <1>2, <1>3, <1>4, OtherRx

LEMMA StutterRx == RxInv /\ (CardTransmit \/ UNCHANGED vars) => RxInv'
<1> SUFFICES ASSUME RxInv, CardTransmit \/ UNCHANGED vars PROVE RxInv'
  OBVIOUS
<1>1. UNCHANGED <<capr, cardNext, rxOffset, held, pc, boot, count>>
  BY DEF CardTransmit, vars, bootVars, irqVars, rxCard
<1> USE DEF RxInv
<1>2. ReadPointer' = ReadPointer /\ \A x : Behind(x)' = Behind(x)
  BY <1>1 DEF ReadPointer, Behind
<1>3. RxTypes' BY <1>1, <1>2 DEF RxTypes, Places, HeldFrame
<1>4. RxAligned' BY <1>1 DEF RxAligned, Aligned4
<1>5. Chain'
  <2>1. \A i : Step(i)' = Step(i) /\ Behind(held[i].off)' = Behind(held[i].off)
    BY <1>1, <1>2 DEF Step, Behind
  <2>2. Behind(cardNext)' = Behind(cardNext) BY <1>1, <1>2 DEF Behind
  <2> QED BY <1>1, <2>1, <2>2 DEF Chain
<1>6. ReadsThere' /\ NotYet' BY <1>1, <1>2 DEF ReadsThere, NotYet
<1> QED BY <1>3, <1>4, <1>5, <1>6

LEMMA InductiveRx == Spec => []RxInv
<1>1. RxInv /\ [Next]_vars => RxInv'
  BY BootRx, HandlerRx, AdvanceRx, WriteCaprRx, StutterRx, ReceiveRx DEF Next, Handler, Card
<1> QED BY <1>1, InitRxInv, PTL DEF Spec

(* The handler reads the card's frames one after the other and stops when  *)
(* none is left, and the card writes over none before that: for every size *)
(* of the ring, every frame and every fill level, across the wrap of the   *)
(* ring and of the 16-bit register.                                        *)
THEOREM RxInOrderTheorem == Spec => []RxInOrder
<1>1. RxInv => RxInOrder
  <2> SUFFICES ASSUME RxInv PROVE RxInOrder
    OBVIOUS
  <2>1. ASSUME pc \in {"header", "copy", "start", "advance"}
        PROVE  held # <<>> /\ Head(held).off = rxOffset
    <3>1. held # <<>> /\ Head(held) = held[1] BY <2>1, FoundIsHead
    <3> QED BY <3>1 DEF RxInv, Chain
  <2>2. ASSUME pc = "check"
        PROVE  BufferEmpty <=> held = <<>>
    <3>1. ReadPointer = rxOffset BY <2>2 DEF RxInv, ReadsThere
    <3>2. CASE held = <<>> BY <3>1, <3>2 DEF RxInv, Chain, BufferEmpty
    <3>3. CASE held # <<>>
      <4>1. 1 \in DOMAIN held BY <3>3, HeldTypes DEF RxInv
      <4>2. Step(1) \in Nat /\ held[1].frame.length \in Nat /\ Step(1) >= held[1].frame.length + 4
        BY <4>1, HeldTypes DEF RxInv
      <4>3. held[1].off = rxOffset /\ Behind(held[1].off) + Step(1) <= Behind(cardNext)
        BY <3>3, <4>1 DEF RxInv, Chain
      <4>4. RingSize \in Nat \ {0} /\ rxOffset \in 0..RingSize - 1
        BY Sizes DEF RxInv, RxTypes, Places
      <4>5. cardNext # ReadPointer
        <5> SUFFICES ASSUME cardNext = ReadPointer PROVE FALSE OBVIOUS
        <5>1. Behind(cardNext) = 0 /\ Behind(held[1].off) = 0
          BY <3>1, <4>3, <4>4 DEF Behind
        <5> QED BY <4>2, <4>3, <5>1
      <4> QED BY <3>3, <4>5 DEF BufferEmpty
    <3> QED BY <3>2, <3>3
  <2>3. \A i \in DOMAIN held : held[i].whole BY DEF RxInv, RxAligned
  <2> QED BY <2>1, <2>2, <2>3 DEF RxInOrder
<1> QED BY <1>1, InductiveRx, PTL

----------------------------------------------------------------------------
(* The transmit slots. *)

LEMMA Slot ==
    ASSUME NEW c \in Slots, NEW i \in 0..NumSlots
    PROVE  /\ (c + i) % NumSlots = IF c + i < NumSlots THEN c + i ELSE c + i - NumSlots
           /\ (c + i) % NumSlots \in Slots
<1>1. NumSlots \in Nat \ {0} /\ c \in 0..NumSlots - 1 BY SlotsAssumption DEF Slots
<1> PICK a \in -NumSlots..2 * NumSlots - 1 : a = c + i BY <1>1
<1>2. a % NumSlots = IF a < 0 THEN a + NumSlots ELSE IF a < NumSlots THEN a ELSE a - NumSlots
  BY <1>1, ModTurn
<1> QED BY <1>1, <1>2 DEF Slots

LEMMA SlotsOf ==
    ASSUME TxTypes
    PROVE  /\ \A i \in 1..NumSlots :
                 /\ SlotOf(i) = IF cardSlot + i - 1 < NumSlots THEN cardSlot + i - 1 ELSE cardSlot + i - 1 - NumSlots
                 /\ SlotOf(i) \in Slots
           /\ \A i, j \in 1..NumSlots : SlotOf(i) = SlotOf(j) => i = j
           /\ SlotOf(1) = cardSlot /\ NumSlots \in Nat \ {0} /\ cardSlot \in 0..NumSlots - 1
<1>1. NumSlots \in Nat \ {0} /\ cardSlot \in 0..NumSlots - 1 /\ cardSlot \in Slots
  BY SlotsAssumption DEF TxTypes, Slots
<1>2. ASSUME NEW i \in 1..NumSlots
      PROVE  /\ SlotOf(i) = IF cardSlot + i - 1 < NumSlots THEN cardSlot + i - 1 ELSE cardSlot + i - 1 - NumSlots
             /\ SlotOf(i) \in Slots
  <2> PICK j \in 0..NumSlots : j = i - 1 BY <1>1
  <2>1. /\ (cardSlot + j) % NumSlots =
              IF cardSlot + j < NumSlots THEN cardSlot + j ELSE cardSlot + j - NumSlots
        /\ (cardSlot + j) % NumSlots \in Slots
    BY <1>1, Slot
  <2>2. cardSlot + i - 1 = cardSlot + j BY <1>1
  <2> QED BY <1>1, <2>1, <2>2 DEF SlotOf
<1>3. \A i, j \in 1..NumSlots : SlotOf(i) = SlotOf(j) => i = j
  BY <1>1, <1>2
<1>4. SlotOf(1) = cardSlot
  <2>1. 1 \in 1..NumSlots BY <1>1
  <2> QED BY <1>1, <1>2, <2>1
<1> QED BY <1>1, <1>2, <1>3, <1>4

LEMMA InitTxInv == Init => TxInv
<1> SUFFICES ASSUME Init PROVE TxInv
  OBVIOUS
<1>1. NumSlots \in Nat \ {0} /\ 0 \in Slots BY SlotsAssumption DEF Slots
<1>2. TxTypes
  <2>1. owed \in Seq(Replies \cup {NoReply}) BY DEF Init
  <2> QED BY <1>1, <2>1 DEF Init, TxTypes
<1>3. Len(owed) = 0 BY DEF Init
<1>4. (cardSlot + Len(owed)) % NumSlots = 0
  <2>1. (0 + 0) % NumSlots = 0 BY <1>1, Slot
  <2> QED BY <1>3, <2>1 DEF Init
<1>5. Queue BY <1>1, <1>3, <1>4 DEF Init, Queue
<1> QED BY <1>2, <1>5 DEF TxInv

(* The card sends the slot of the oldest answer. *)
LEMMA TransmitTx == TxInv /\ CardTransmit => TxInv'
<1> SUFFICES ASSUME TxInv, CardTransmit PROVE TxInv'
  OBVIOUS
<1>1. /\ own[cardSlot] /\ own' = [own EXCEPT ![cardSlot] = FALSE]
      /\ txBuffer' = [txBuffer EXCEPT ![cardSlot] =
                        IF pc = "start" /\ txSlot = cardSlot THEN @ ELSE NoReply]
      /\ cardSlot' = (cardSlot + 1) % NumSlots
      /\ owed' = IF overrun THEN <<>> ELSE Tail(owed)
      /\ UNCHANGED <<txSlot, overrun, pc>>
  BY DEF CardTransmit
<1>2. TxTypes BY DEF TxInv
<1>3. cardSlot' \in Slots /\ cardSlot' = IF cardSlot + 1 < NumSlots THEN cardSlot + 1 ELSE cardSlot + 1 - NumSlots
  <2>1. 1 \in 0..NumSlots BY SlotsAssumption
  <2> QED BY <1>1, <1>2, <2>1, Slot DEF TxTypes
<1>4. ASSUME ~overrun PROVE Queue' /\ owed' \in Seq(Replies \cup {NoReply})
  <2>1. Queue BY <1>4 DEF TxInv
  <2> PICK n \in Nat : n = Len(owed) BY <1>2 DEF TxTypes
  <2>2. /\ n <= NumSlots /\ txSlot = (cardSlot + n) % NumSlots
        /\ \A i \in 1..n : own[SlotOf(i)] /\ txBuffer[SlotOf(i)] = owed[i]
        /\ \A s \in Slots : own[s] => \E i \in 1..n : s = SlotOf(i)
        /\ pc = "start" => ~own[txSlot]
    BY <2>1 DEF Queue
  <2>3. n > 0
    <3>1. \E i \in 1..n : cardSlot = SlotOf(i) BY <1>1, <1>2, <2>2 DEF TxTypes
    <3> QED BY <3>1
  <2>4. /\ owed' = Tail(owed) /\ Len(owed') = n - 1
        /\ \A i \in 1..n - 1 : owed'[i] = owed[i + 1]
        /\ owed' \in Seq(Replies \cup {NoReply})
    <3>1. owed \in Seq(Replies \cup {NoReply}) /\ owed # <<>> BY <1>2, <2>3 DEF TxTypes
    <3> QED BY <1>1, <1>4, <3>1
  <2>5. /\ NumSlots \in Nat \ {0} /\ cardSlot \in 0..NumSlots - 1 /\ SlotOf(1) = cardSlot
        /\ \A i \in 1..NumSlots :
              SlotOf(i) = IF cardSlot + i - 1 < NumSlots THEN cardSlot + i - 1 ELSE cardSlot + i - 1 - NumSlots
        /\ \A i \in 1..NumSlots : SlotOf(i) \in Slots
        /\ \A i, j \in 1..NumSlots : SlotOf(i) = SlotOf(j) => i = j
    BY <1>2, SlotsOf
  <2>6. TxTypes'
    <3>1. own' \in [Slots -> BOOLEAN] /\ txBuffer' \in [Slots -> Replies \cup {NoReply}]
      BY <1>1, <1>2 DEF TxTypes
    <3> QED BY <1>1, <1>2, <1>3, <2>4, <3>1 DEF TxTypes
  <2>7. ASSUME NEW i \in 1..n - 1
        PROVE  SlotOf(i)' = SlotOf(i + 1) /\ SlotOf(i + 1) # cardSlot /\ i + 1 \in 1..n
    <3>1. i \in 1..NumSlots /\ i + 1 \in 1..NumSlots /\ i + 1 \in 1..n /\ 1 \in 1..NumSlots
      BY <2>2, <2>5
    <3>2. SlotOf(i)' = IF cardSlot' + i - 1 < NumSlots THEN cardSlot' + i - 1 ELSE cardSlot' + i - 1 - NumSlots
      <4> PICK c \in Slots : c = cardSlot' BY <1>3
      <4> PICK j \in 0..NumSlots : j = i - 1 BY <2>5, <3>1
      <4>1. (c + j) % NumSlots = IF c + j < NumSlots THEN c + j ELSE c + j - NumSlots BY Slot
      <4>2. c \in Int /\ c + i - 1 = c + j BY <2>5 DEF Slots
      <4>3. SlotOf(i)' = (c + i - 1) % NumSlots BY DEF SlotOf
      <4> QED BY <4>1, <4>2, <4>3
    <3>3. SlotOf(i + 1) = IF cardSlot + (i + 1) - 1 < NumSlots THEN cardSlot + (i + 1) - 1 ELSE cardSlot + (i + 1) - 1 - NumSlots
      BY <2>5, <3>1
    <3>4. SlotOf(i)' = SlotOf(i + 1) BY <1>3, <2>2, <2>5, <3>2, <3>3
    <3>5. SlotOf(i + 1) # SlotOf(1)
      <4>1. i + 1 # 1 OBVIOUS
      <4> QED BY <2>5, <3>1, <4>1
    <3> QED BY <2>5, <3>1, <3>4, <3>5
  <2>8. txSlot' = (cardSlot' + (n - 1)) % NumSlots
    <3>1. n \in 0..NumSlots /\ n - 1 \in 0..NumSlots BY <2>2, <2>3, <2>5
    <3>2. (cardSlot + n) % NumSlots = IF cardSlot + n < NumSlots THEN cardSlot + n ELSE cardSlot + n - NumSlots
      BY <1>2, <3>1, Slot DEF TxTypes
    <3> PICK j \in 0..NumSlots : j = n - 1 BY <3>1
    <3>3. (cardSlot' + j) % NumSlots = IF cardSlot' + j < NumSlots THEN cardSlot' + j ELSE cardSlot' + j - NumSlots
      BY <1>3, Slot
    <3>4. (cardSlot' + j) % NumSlots = (cardSlot + n) % NumSlots
      <4> PICK c \in 0..NumSlots - 1, d \in 0..NumSlots - 1 : c = cardSlot /\ d = cardSlot'
        BY <1>3, <2>5 DEF Slots
      <4>1. d = IF c + 1 < NumSlots THEN c + 1 ELSE c + 1 - NumSlots BY <1>3
      <4>2. (IF d + j < NumSlots THEN d + j ELSE d + j - NumSlots)
              = (IF c + n < NumSlots THEN c + n ELSE c + n - NumSlots)
        BY <2>5, <3>1, <4>1
      <4> QED BY <3>2, <3>3, <4>2
    <3> QED BY <1>1, <2>2, <3>4
  <2>9. \A i \in 1..n - 1 : own'[SlotOf(i)'] /\ txBuffer'[SlotOf(i)'] = owed'[i]
    <3> SUFFICES ASSUME NEW i \in 1..n - 1
                 PROVE  own'[SlotOf(i)'] /\ txBuffer'[SlotOf(i)'] = owed'[i]
      OBVIOUS
    <3>1. SlotOf(i)' = SlotOf(i + 1) /\ SlotOf(i + 1) # cardSlot /\ i + 1 \in 1..n BY <2>7
    <3>2. SlotOf(i + 1) \in Slots BY <2>2, <2>5, <3>1
    <3>3. own[SlotOf(i + 1)] /\ txBuffer[SlotOf(i + 1)] = owed[i + 1] BY <2>2, <3>1
    <3> QED BY <1>1, <1>2, <2>4, <3>1, <3>2, <3>3 DEF TxTypes
  <2>10. ASSUME NEW s \in Slots, own'[s] PROVE \E i \in 1..n - 1 : s = SlotOf(i)'
    <3>1. s # cardSlot /\ own[s] BY <1>1, <1>2, <2>10 DEF TxTypes
    <3> PICK j \in 1..n : s = SlotOf(j) BY <2>2, <3>1
    <3>2. j # 1 BY <2>5, <3>1
    <3> PICK i \in 1..n - 1 : i + 1 = j
      <4>1. j - 1 \in 1..n - 1 /\ (j - 1) + 1 = j BY <3>2
      <4> QED BY <4>1
    <3> QED BY <2>7
  <2>11. pc' = "start" => ~own'[txSlot'] BY <1>1, <1>2, <2>2 DEF TxTypes
  <2>12. n - 1 <= NumSlots /\ 1..Len(owed') = 1..n - 1 BY <2>2, <2>4, <2>5
  <2> QED BY <2>4, <2>8, <2>9, <2>10, <2>11, <2>12 DEF Queue
<1>5. TxTypes'
  <2>1. own' \in [Slots -> BOOLEAN] /\ txBuffer' \in [Slots -> Replies \cup {NoReply}]
    BY <1>1, <1>2 DEF TxTypes
  <2>2. owed' \in Seq(Replies \cup {NoReply})
    <3>1. CASE overrun BY <1>1, <3>1
    <3>2. CASE ~overrun BY <1>4, <3>2
    <3> QED BY <3>1, <3>2
  <2> QED BY <1>1, <1>2, <1>3, <2>1, <2>2 DEF TxTypes
<1> QED BY <1>1, <1>4, <1>5 DEF TxInv

(* send fills the slot after the last answer; the card owning it means     *)
(* that all of them are taken.                                             *)
LEMMA CopyTx == RxInv /\ TxInv /\ SendCopy => TxInv'
<1> SUFFICES ASSUME RxInv, TxInv, SendCopy PROVE TxInv'
  OBVIOUS
<1>1. /\ pc = "copy" /\ overrun' = (overrun \/ own[txSlot])
      /\ UNCHANGED <<txSlot, own, cardSlot, owed>>
  BY DEF SendCopy
<1>2. TxTypes BY DEF TxInv
<1> PICK r \in Replies \cup {NoReply} :
      txBuffer' = IF overrun' THEN [s \in Slots |-> NoReply] ELSE [txBuffer EXCEPT ![txSlot] = r]
  <2>1. Found = {held[1].frame} /\ 1 \in DOMAIN held BY <1>1, FoundIsHead
  <2>2. held[1].frame \in Frames BY <2>1, HeldTypes DEF RxInv
  <2>3. held[1].frame.reply \in Replies \cup {NoReply} BY <2>2, FramesAssumption
  <2> QED BY <2>1, <2>3 DEF SendCopy
<1>3. TxTypes'
  <2>1. txBuffer' \in [Slots -> Replies \cup {NoReply}] BY <1>2 DEF TxTypes
  <2>2. overrun' \in BOOLEAN
    <3>1. own[txSlot] \in BOOLEAN /\ overrun \in BOOLEAN BY <1>2 DEF TxTypes
    <3> QED BY <1>1, <3>1
  <2> QED BY <1>1, <1>2, <2>1, <2>2 DEF TxTypes, Slots
<1>4. ASSUME ~overrun' PROVE Queue'
  <2>1. ~overrun /\ ~own[txSlot] /\ Queue BY <1>1, <1>4 DEF TxInv
  <2>2. \A i : SlotOf(i)' = SlotOf(i) BY <1>1 DEF SlotOf
  <2>3. \A i \in 1..Len(owed) : own[SlotOf(i)] /\ txBuffer[SlotOf(i)] = owed[i] /\ SlotOf(i) \in Slots
    <3>1. \A i \in 1..Len(owed) : i \in 1..NumSlots
      <4>1. Len(owed) \in Nat /\ Len(owed) <= NumSlots /\ NumSlots \in Nat
        BY <1>2, <2>1, SlotsAssumption DEF Queue, TxTypes
      <4> QED BY <4>1
    <3> QED BY <1>2, <2>1, <3>1, SlotsOf DEF Queue
  <2>4. \A i \in 1..Len(owed) : txBuffer'[SlotOf(i)] = owed[i]
    BY <1>2, <1>4, <2>1, <2>3 DEF TxTypes
  <2> QED BY <1>1, <2>1, <2>2, <2>3, <2>4 DEF Queue, Slots
<1> QED BY <1>3, <1>4 DEF TxInv

LEMMA StartTx == TxInv /\ SendStart => TxInv'
<1> SUFFICES ASSUME TxInv, SendStart PROVE TxInv'
  OBVIOUS
<1>1. /\ pc = "start" /\ pc' = "advance"
      /\ own' = [own EXCEPT ![txSlot] = TRUE] /\ txSlot' = (txSlot + 1) % NumSlots
      /\ owed' = IF overrun THEN <<>> ELSE Append(owed, txBuffer[txSlot])
      /\ UNCHANGED <<txBuffer, cardSlot, overrun>>
  BY DEF SendStart, NextSlot
<1>2. TxTypes BY DEF TxInv
<1>3. /\ NumSlots \in Nat \ {0} /\ txSlot \in 0..NumSlots - 1 /\ cardSlot \in 0..NumSlots - 1
      /\ txSlot \in Slots /\ cardSlot \in Slots
  BY <1>2, SlotsAssumption DEF TxTypes, Slots
<1>4. txSlot' \in Slots /\ txSlot' = IF txSlot + 1 < NumSlots THEN txSlot + 1 ELSE txSlot + 1 - NumSlots
  <2>1. 1 \in 0..NumSlots BY <1>3
  <2> QED BY <1>1, <1>3, <2>1, Slot
<1>5. owed' \in Seq(Replies \cup {NoReply})
  <2>1. txBuffer[txSlot] \in Replies \cup {NoReply} BY <1>2, <1>3 DEF TxTypes
  <2>2. owed \in Seq(Replies \cup {NoReply}) BY <1>2 DEF TxTypes
  <2>3. Append(owed, txBuffer[txSlot]) \in Seq(Replies \cup {NoReply}) BY <2>1, <2>2
  <2> QED BY <1>1, <2>3
<1>6. TxTypes'
  <2>1. own' \in [Slots -> BOOLEAN] BY <1>1, <1>2 DEF TxTypes
  <2> QED BY <1>1, <1>2, <1>4, <1>5, <2>1 DEF TxTypes, Slots
<1>7. ASSUME ~overrun PROVE Queue'
  <2>1. Queue BY <1>7 DEF TxInv
  <2> PICK n \in Nat : n = Len(owed) BY <1>2 DEF TxTypes
  <2>2. /\ n <= NumSlots /\ txSlot = (cardSlot + n) % NumSlots
        /\ \A i \in 1..n : own[SlotOf(i)] /\ txBuffer[SlotOf(i)] = owed[i]
        /\ \A s \in Slots : own[s] => \E i \in 1..n : s = SlotOf(i)
        /\ ~own[txSlot]
    BY <1>1, <2>1 DEF Queue
  <2>3. txSlot = IF cardSlot + n < NumSlots THEN cardSlot + n ELSE cardSlot + n - NumSlots
    <3>1. n \in 0..NumSlots BY <1>3, <2>2
    <3> QED BY <1>3, <2>2, <3>1, Slot
  <2>4. n < NumSlots
    <3> SUFFICES ASSUME n = NumSlots PROVE FALSE BY <1>3, <2>2
    <3>1. txSlot = cardSlot /\ 1 \in 1..n BY <1>3, <2>3
    <3>2. SlotOf(1) = cardSlot BY <1>2, SlotsOf
    <3> QED BY <2>2, <3>1, <3>2
  <2>5. /\ Len(owed') = n + 1 /\ owed'[n + 1] = txBuffer[txSlot]
        /\ \A i \in 1..n : owed'[i] = owed[i]
    <3>1. owed \in Seq(Replies \cup {NoReply}) BY <1>2 DEF TxTypes
    <3> QED BY <1>1, <1>7, <3>1
  <2>6. \A i : SlotOf(i)' = SlotOf(i) BY <1>1 DEF SlotOf
  <2>7. SlotOf(n + 1) = txSlot
    <3>1. cardSlot + (n + 1) - 1 = cardSlot + n BY <1>3
    <3> QED BY <2>2, <3>1 DEF SlotOf
  <2>8. \A i \in 1..n : i \in 1..NumSlots BY <1>3, <2>2
  <2>9. \A i \in 1..n : SlotOf(i) \in Slots BY <1>2, <2>8, SlotsOf
  <2>10. ASSUME NEW i \in 1..n + 1 PROVE own'[SlotOf(i)] /\ txBuffer'[SlotOf(i)] = owed'[i]
    <3>1. CASE i = n + 1 BY <1>1, <1>2, <1>3, <2>5, <2>7, <3>1 DEF TxTypes
    <3>2. CASE i # n + 1
      <4>1. i \in 1..n BY <3>2
      <4>2. own[SlotOf(i)] /\ txBuffer[SlotOf(i)] = owed[i] /\ SlotOf(i) \in Slots
        BY <2>2, <2>9, <4>1
      <4> QED BY <1>1, <1>2, <1>3, <2>5, <4>1, <4>2 DEF TxTypes
    <3> QED BY <3>1, <3>2
  <2>11. ASSUME NEW s \in Slots, own'[s] PROVE \E i \in 1..n + 1 : s = SlotOf(i)
    <3>1. CASE s = txSlot
      <4>1. n + 1 \in 1..n + 1 OBVIOUS
      <4> QED BY <2>7, <3>1, <4>1
    <3>2. CASE s # txSlot
      <4>1. own[s] BY <1>1, <1>2, <1>3, <2>11, <3>2 DEF TxTypes
      <4> PICK i \in 1..n : s = SlotOf(i) BY <2>2, <4>1
      <4>2. i \in 1..n + 1 OBVIOUS
      <4> QED BY <4>2
    <3> QED BY <3>1, <3>2
  <2>12. txSlot' = (cardSlot' + (n + 1)) % NumSlots
    <3> PICK j \in 0..NumSlots : j = n + 1 BY <1>3, <2>4
    <3>1. (cardSlot + j) % NumSlots = IF cardSlot + j < NumSlots THEN cardSlot + j ELSE cardSlot + j - NumSlots
      BY <1>3, Slot
    <3> PICK c \in 0..NumSlots - 1, t \in 0..NumSlots - 1 : c = cardSlot /\ t = txSlot BY <1>3
    <3>2. t = IF c + n < NumSlots THEN c + n ELSE c + n - NumSlots BY <2>3
    <3>3. (IF c + j < NumSlots THEN c + j ELSE c + j - NumSlots)
            = (IF t + 1 < NumSlots THEN t + 1 ELSE t + 1 - NumSlots)
      BY <1>3, <2>4, <3>2
    <3>4. txSlot' = (cardSlot + j) % NumSlots BY <1>4, <3>1, <3>3
    <3> QED BY <1>1, <3>4
  <2>13. n + 1 <= NumSlots BY <1>3, <2>4
  <2> QED BY <1>1, <2>5, <2>6, <2>10, <2>11, <2>12, <2>13 DEF Queue, Slots
<1> QED BY <1>1, <1>6, <1>7 DEF TxInv

LEMMA OtherTx ==
    ASSUME TxInv, UNCHANGED txVars, pc' = pc \/ pc' # "start"
    PROVE  TxInv'
<1>1. UNCHANGED <<txSlot, txBuffer, own, cardSlot, owed, overrun>> BY DEF txVars
<1>2. \A i : SlotOf(i)' = SlotOf(i) BY <1>1 DEF SlotOf
<1>3. TxTypes' BY <1>1 DEF TxInv, TxTypes, Slots
<1>4. ASSUME ~overrun PROVE Queue'
  <2>1. Queue BY <1>4 DEF TxInv
  <2> QED BY <1>1, <1>2, <2>1 DEF Queue, Slots
<1> QED BY <1>1, <1>3, <1>4 DEF TxInv

LEMMA InductiveTx == Spec => []TxInv
<1>1. RxInv /\ TxInv /\ [Next]_vars => TxInv'
  <2> SUFFICES ASSUME RxInv, TxInv, [Next]_vars PROVE TxInv'
    OBVIOUS
  <2>1. CASE Boot \/ Enter
    <3>1. UNCHANGED txVars /\ (pc' = pc \/ pc' # "start")
      BY <2>1 DEF Boot, BootStep, ResetDone, ResetPoll, EnableInterrupts, EnableReceiver, ResetCapr,
             Route, StoreHandler, Enter
    <3> QED BY <3>1, OtherTx
  <2>2. CASE SendCopy BY <2>2, CopyTx
  <2>3. CASE SendStart BY <2>3, StartTx
  <2>4. CASE CardTransmit BY <2>4, TransmitTx
  <2>5. CASE Handler /\ ~SendCopy /\ ~SendStart
    <3>1. UNCHANGED txVars /\ (pc' = pc \/ pc' # "start")
      BY <2>5 DEF Handler, Eoi, ReadIsr, AckIsr, CheckBuffer, NoRok, ReceiveEthernet, Advance, WriteCapr
    <3> QED BY <3>1, OtherTx
  <2>6. CASE \E f \in Frames : CardReceive(f)
    <3>1. UNCHANGED <<pc, txVars>> BY <2>6 DEF CardReceive
    <3> QED BY <3>1, OtherTx
  <2>7. CASE UNCHANGED vars
    <3>1. UNCHANGED <<pc, txVars>> BY <2>7 DEF vars
    <3> QED BY <3>1, OtherTx
  <2> QED BY <2>1, <2>2, <2>3, <2>4, <2>5, <2>6, <2>7 DEF Next, Card
<1> QED BY <1>1, InitTxInv, InductiveRx, PTL DEF Spec

(* Every answer goes out once and in order, for every number of slots,     *)
(* until the handler writes to a slot the card still owns.                 *)
THEOREM RepliesInOrderTheorem == Spec => []RepliesInOrder
<1>1. TxInv => RepliesInOrder
  BY DEF TxInv, Queue, SlotOf, RepliesInOrder
<1> QED BY <1>1, InductiveTx, PTL

----------------------------------------------------------------------------
(* Sums of words. *)

Less == OpToRel(<, Nat)
LEMMA Least ==
    ASSUME NEW S, S \subseteq Nat, S # {}
    PROVE  \E m \in S : \A n \in S : m <= n
<1>1. PICK m \in S : \A n \in S : ~ <<n, m>> \in Less
  BY NatLessThanWellFounded, WFMin DEF Less
<1>2. \A n \in S : ~ (n < m)
  BY <1>1 DEF Less, OpToRel
<1> QED BY <1>1, <1>2

IsSum(sum, n, words) ==
    sum[0] = 0 /\ \A i \in 1..n : sum[i] = sum[i - 1] + words[i]
SumOf(sum, n, words) ==
    sum = [i \in 0..n |-> IF i = 0 THEN 0 ELSE sum[i - 1] + words[i]]

LEMMA SumExists ==
    ASSUME NEW n \in Nat, NEW words \in [1..n -> Nat], NEW l \in 0..n
    PROVE  \E sum \in [0..l -> Nat] : IsSum(sum, l, words)
<1> DEFINE Short == {k \in 0..n : ~\E sum \in [0..k -> Nat] : IsSum(sum, k, words)}
<1>1. SUFFICES ASSUME Short # {} PROVE FALSE
  OBVIOUS
<1>2. PICK m \in Short : \A k \in Short : m <= k
  <2>1. Short \subseteq Nat
    OBVIOUS
  <2> HIDE DEF Short
  <2> QED BY <1>1, <2>1, Least
<1> HIDE DEF Short
<1>3. m \in 0..n /\ ~\E sum \in [0..m -> Nat] : IsSum(sum, m, words)
  BY <1>2 DEF Short
<1>4. CASE m = 0
  <2> DEFINE g == [i \in 0..0 |-> 0]
  <2>1. g \in [0..0 -> Nat] /\ g[0] = 0
    OBVIOUS
  <2> HIDE DEF g
  <2>2. IsSum(g, 0, words)
    BY <2>1 DEF IsSum
  <2> QED BY <1>3, <1>4, <2>1, <2>2
<1>5. CASE m # 0
  <2>1. m - 1 \in 0..n /\ m - 1 \notin Short /\ m \in 1..n
    BY <1>2, <1>3, <1>5
  <2>2. PICK g \in [0..m - 1 -> Nat] : IsSum(g, m - 1, words)
    BY <2>1 DEF Short
  <2> DEFINE last == g[m - 1] + words[m]
             h == [i \in 0..m |-> IF i = m THEN last ELSE g[i]]
  <2>3. last \in Nat
    BY <2>1
  <2>4. h \in [0..m -> Nat] /\ h[m] = last /\ \A i \in 0..m - 1 : h[i] = g[i]
    <3> HIDE DEF last
    <3>1. \A i \in 0..m : i # m => i \in 0..m - 1
      BY <1>3
    <3>2. \A i \in 0..m - 1 : i \in 0..m /\ i # m
      BY <1>3
    <3> QED BY <1>3, <2>3, <3>1, <3>2
  <2> HIDE DEF h
  <2>5. h[0] = 0
    BY <2>1, <2>2, <2>4 DEF IsSum
  <2>6. ASSUME NEW i \in 1..m PROVE h[i] = h[i - 1] + words[i]
    <3>1. i - 1 \in 0..m - 1 /\ (i # m => i \in 1..m - 1)
      BY <1>3
    <3> QED BY <2>2, <2>4, <3>1 DEF IsSum
  <2>7. IsSum(h, m, words)
    BY <2>5, <2>6 DEF IsSum
  <2> QED BY <1>3, <2>4, <2>7
<1> QED BY <1>4, <1>5

(* Total is the sum its recursion says. *)
LEMMA TotalIs ==
    ASSUME NEW n \in Nat, NEW words \in [1..n -> Nat]
    PROVE  \E sum \in [0..n -> Nat] : IsSum(sum, n, words) /\ Total(n, words) = sum[n]
<1>1. PICK g \in [0..n -> Nat] : IsSum(g, n, words)
  <2>1. n \in 0..n
    OBVIOUS
  <2> QED BY <2>1, SumExists
<1>2. SumOf(g, n, words)
  <2> DEFINE h == [i \in 0..n |-> IF i = 0 THEN 0 ELSE g[i - 1] + words[i]]
  <2>1. ASSUME NEW i \in 0..n PROVE g[i] = h[i]
    BY <1>1 DEF IsSum
  <2>2. g = [i \in 0..n |-> g[i]]
    OBVIOUS
  <2> QED BY <2>1, <2>2 DEF SumOf
<1> DEFINE c == CHOOSE f : SumOf(f, n, words)
<1>3. Total(n, words) = c[n]
  BY DEF Total, SumOf
<1>4. SumOf(c, n, words)
  BY <1>2
<1> HIDE DEF c
<1>5. c = [i \in 0..n |-> c[i]] /\ IsSum(c, n, words)
  BY <1>4 DEF SumOf, IsSum
<1>6. c = g
  <2> DEFINE Differ == {i \in 0..n : c[i] # g[i]}
  <2>1. SUFFICES ASSUME Differ # {} PROVE FALSE
    <3>1. g = [i \in 0..n |-> g[i]]
      OBVIOUS
    <3> QED BY <1>5, <2>1, <3>1
  <2>2. PICK m \in Differ : \A k \in Differ : m <= k
    <3>1. Differ \subseteq Nat
      OBVIOUS
    <3> HIDE DEF Differ
    <3> QED BY <2>1, <3>1, Least
  <2>3. m \in 0..n /\ c[m] # g[m] /\ (m # 0 => m \in 1..n /\ m - 1 \in 0..n /\ m - 1 \notin Differ)
    BY <2>2
  <2>4. m # 0 => c[m - 1] = g[m - 1]
    BY <2>3
  <2> QED BY <1>1, <1>5, <2>3, <2>4 DEF IsSum
<1> QED BY <1>1, <1>3, <1>6

(* A word swapped is the word times 256, but for a multiple of 2^16 - 1.   *)
Apart(a, b, q) == a = b + 65535 * q
Swapped(little, big) ==
    little <= 256 * big /\ \E q \in Nat : Apart(256 * little, big, q)

LEMMA SwappedSum ==
    ASSUME NEW x \in Nat, NEW y \in Nat, NEW u \in Nat, NEW v \in Nat,
           Swapped(x, y), Swapped(u, v)
    PROVE  Swapped(x + u, y + v)
<1>1. PICK q \in Nat : Apart(256 * x, y, q)
  BY DEF Swapped
<1>2. PICK r \in Nat : Apart(256 * u, v, r)
  BY DEF Swapped
<1>3. PICK t \in Nat : t = q + r
  OBVIOUS
<1>4. Apart(256 * (x + u), y + v, t)
  BY <1>1, <1>2, <1>3 DEF Apart
<1>5. x + u <= 256 * (y + v)
  BY DEF Swapped
<1> QED BY <1>4, <1>5 DEF Swapped

(* What holds of the words holds of their sums. *)
LEMMA TotalsSwapped ==
    ASSUME NEW n \in Nat, NEW little \in [1..n -> Nat], NEW big \in [1..n -> Nat],
           \A i \in 1..n : Swapped(little[i], big[i])
    PROVE  Swapped(Total(n, little), Total(n, big))
<1>1. PICK a \in [0..n -> Nat] : IsSum(a, n, little) /\ Total(n, little) = a[n]
  BY TotalIs
<1>2. PICK b \in [0..n -> Nat] : IsSum(b, n, big) /\ Total(n, big) = b[n]
  BY TotalIs
<1> DEFINE Wrong == {i \in 0..n : ~Swapped(a[i], b[i])}
<1>3. SUFFICES ASSUME Wrong # {} PROVE FALSE
  <2>1. n \in 0..n
    OBVIOUS
  <2> QED BY <1>1, <1>2, <1>3, <2>1
<1>4. PICK m \in Wrong : \A k \in Wrong : m <= k
  <2>1. Wrong \subseteq Nat
    OBVIOUS
  <2> HIDE DEF Wrong
  <2> QED BY <1>3, <2>1, Least
<1>5. m \in 0..n /\ ~Swapped(a[m], b[m])
      /\ (m # 0 => m \in 1..n /\ m - 1 \in 0..n /\ m - 1 \notin Wrong)
  BY <1>4
<1>6. CASE m = 0
  <2>1. a[0] = 0 /\ b[0] = 0
    BY <1>1, <1>2 DEF IsSum
  <2>2. Apart(256 * 0, 0, 0)
    BY DEF Apart
  <2>3. Swapped(0, 0)
    BY <2>2 DEF Swapped
  <2> QED BY <1>5, <1>6, <2>1, <2>3
<1>7. CASE m # 0
  <2>1. Swapped(a[m - 1], b[m - 1]) /\ Swapped(little[m], big[m])
    BY <1>5, <1>7
  <2>2. a[m] = a[m - 1] + little[m] /\ b[m] = b[m - 1] + big[m]
    BY <1>1, <1>2, <1>5, <1>7 DEF IsSum
  <2>3. PICK x \in Nat, y \in Nat, u \in Nat, v \in Nat :
           x = a[m - 1] /\ y = b[m - 1] /\ u = little[m] /\ v = big[m]
    BY <1>5, <1>7
  <2>4. Swapped(x, y) /\ Swapped(u, v)
    BY <2>1, <2>3
  <2>8. Swapped(x + u, y + v)
    BY <2>4, SwappedSum
  <2>9. Swapped(a[m], b[m])
    BY <2>2, <2>3, <2>8
  <2> QED BY <1>5, <2>9
<1> QED BY <1>6, <1>7

(* One word more. *)
Plus(words, more, n, k, c) ==
    /\ k \in 1..n /\ more[k] = words[k] + c
    /\ \A i \in 1..n : i # k => more[i] = words[i]

Exceeds(n, words, more, c) ==
    \E t \in Nat : t = Total(n, words) /\ Total(n, more) = t + c

LEMMA TotalPlus ==
    ASSUME NEW n \in Nat, NEW words \in [1..n -> Nat], NEW more \in [1..n -> Nat],
           NEW k \in Nat, NEW c \in Nat, Plus(words, more, n, k, c)
    PROVE  Exceeds(n, words, more, c)
<1>14. k \in 1..n
  BY DEF Plus
<1> USE <1>14
<1>1. PICK a \in [0..n -> Nat] : IsSum(a, n, words) /\ Total(n, words) = a[n]
  BY TotalIs
<1>2. PICK b \in [0..n -> Nat] : IsSum(b, n, more) /\ Total(n, more) = b[n]
  BY TotalIs
<1> DEFINE Right(i) == b[i] = IF i < k THEN a[i] ELSE a[i] + c
           Wrong == {i \in 0..n : ~Right(i)}
<1>3. SUFFICES ASSUME Wrong # {} PROVE FALSE
  <2>1. n \in 0..n /\ ~(n < k)
    OBVIOUS
  <2>2. Right(n)
    BY <1>3, <2>1
  <2>3. PICK t \in Nat : t = a[n]
    BY <2>1
  <2>4. b[n] = t + c
    BY <2>1, <2>2, <2>3
  <2> QED BY <1>1, <1>2, <2>3, <2>4 DEF Exceeds
<1>4. PICK m \in Wrong : \A i \in Wrong : m <= i
  <2>1. Wrong \subseteq Nat
    OBVIOUS
  <2> HIDE DEF Wrong
  <2> QED BY <1>3, <2>1, Least
<1>5. m \in 0..n /\ ~Right(m)
      /\ (m # 0 => m \in 1..n /\ m - 1 \in 0..n /\ m - 1 \notin Wrong)
  BY <1>4
<1>6. m # 0
  BY <1>1, <1>2, <1>5 DEF IsSum
<1>7. Right(m - 1)
  BY <1>5, <1>6
<1>8. b[m] = b[m - 1] + more[m] /\ a[m] = a[m - 1] + words[m]
  BY <1>1, <1>2, <1>5, <1>6 DEF IsSum
<1>9. more[m] = IF m = k THEN words[m] + c ELSE words[m]
  BY <1>5, <1>6 DEF Plus
<1>10. PICK x \in Nat, w \in Nat : x = a[m - 1] /\ w = words[m]
  BY <1>5, <1>6
<1>11. m \in Nat /\ (m < k \/ m = k \/ (k < m /\ ~(m - 1 < k)))
  BY <1>5
<1>12. b[m - 1] = IF m - 1 < k THEN x ELSE x + c
  BY <1>7, <1>10
<1>13. Right(m)
  <2>1. CASE m < k
    BY <1>8, <1>9, <1>10, <1>11, <1>12, <2>1
  <2>2. CASE m = k
    BY <1>8, <1>9, <1>10, <1>11, <1>12, <2>2
  <2>3. CASE k < m /\ ~(m - 1 < k)
    BY <1>8, <1>9, <1>10, <1>11, <1>12, <2>3
  <2> QED BY <1>11, <2>1, <2>2, <2>3
<1> QED BY <1>5, <1>13

----------------------------------------------------------------------------
(* checksum. *)

FoldOf(fold) ==
    fold = [s \in Nat |-> IF s < 65536 THEN s ELSE fold[(s % 65536) + (s \div 65536)]]

LEMMA FoldStep ==
    ASSUME NEW s \in Nat, s >= 65536
    PROVE  \E q \in Nat : /\ s = (s % 65536) + (s \div 65536) + 65535 * q
                          /\ q > 0 /\ (s % 65536) + (s \div 65536) \in Nat \ {0}
<1>1. PICK h \in Nat, l \in Nat : s = 65536 * h + l /\ l < 65536 /\ h = s \div 65536 /\ l = s % 65536
  OBVIOUS
<1>2. h > 0
  BY <1>1
<1>3. s = l + h + 65535 * h
  BY <1>1
<1> QED BY <1>1, <1>2, <1>3

Folds(s, f) == f \in Nat /\ f <= 65535 /\ \E q \in Nat : Apart(s, f, q)

(* The sum folded to a word differs from it by a multiple of 2^16 - 1. *)
LEMMA FoldedIs ==
    ASSUME NEW s \in Nat
    PROVE  Folds(s, Folded(s))
<1> DEFINE g == [t \in Nat |-> IF t < 65536 THEN t ELSE IF t % 65535 = 0 THEN 65535 ELSE t % 65535]
<1>1. FoldOf(g)
  <2>1. ASSUME NEW t \in Nat, t >= 65536 PROVE g[t] = g[(t % 65536) + (t \div 65536)]
    <3>1. PICK q \in Nat, u \in Nat \ {0} :
             t = u + 65535 * q /\ q > 0 /\ u = (t % 65536) + (t \div 65536)
      BY <2>1, FoldStep
    <3>2. t % 65535 = u % 65535
      BY <3>1
    <3>3. u < 65536 => g[u] = IF u % 65535 = 0 THEN 65535 ELSE u % 65535
      BY <3>1
    <3> QED BY <2>1, <3>1, <3>2, <3>3
  <2> QED BY <2>1 DEF FoldOf
<1> DEFINE f == CHOOSE fold : FoldOf(fold)
<1>2. FoldOf(f)
  BY <1>1
<1>3. Folded(s) = f[s]
  BY DEF Folded, FoldOf
<1> HIDE DEF f, g
<1>4. \A t \in Nat : f[t] = IF t < 65536 THEN t ELSE f[(t % 65536) + (t \div 65536)]
  BY <1>2 DEF FoldOf
<1> DEFINE Right(t) == f[t] \in Nat /\ f[t] <= 65535 /\ \E q \in Nat : t = f[t] + 65535 * q
           Wrong == {t \in Nat : ~Right(t)}
<1>5. Wrong = {}
  <2> SUFFICES ASSUME Wrong # {} PROVE FALSE
    OBVIOUS
  <2>1. PICK m \in Wrong : \A t \in Wrong : m <= t
    <3>1. Wrong \subseteq Nat
      OBVIOUS
    <3> HIDE DEF Wrong
    <3> QED BY <3>1, Least
  <2>2. m \in Nat /\ ~Right(m)
    BY <2>1
  <2>9. ASSUME NEW t \in Nat, t < m PROVE Right(t)
    <3> HIDE DEF Right
    <3> QED BY <2>1, <2>2, <2>9
  <2> HIDE DEF Wrong
  <2>3. CASE m < 65536
    <3>1. f[m] = m /\ m = m + 65535 * 0
      BY <1>4, <2>2, <2>3
    <3> QED BY <2>2, <2>3, <3>1
  <2>4. CASE m >= 65536
    <3>1. PICK q \in Nat, u \in Nat : m = u + 65535 * q /\ q > 0 /\ u = (m % 65536) + (m \div 65536)
      <4> HIDE DEF Right
      <4>1. PICK q \in Nat : m = (m % 65536) + (m \div 65536) + 65535 * q
                             /\ q > 0 /\ (m % 65536) + (m \div 65536) \in Nat \ {0}
        BY <2>2, <2>4, FoldStep
      <4>2. PICK u \in Nat : u = (m % 65536) + (m \div 65536)
        BY <4>1
      <4>3. m = u + 65535 * q
        BY <4>1, <4>2
      <4> QED BY <4>1, <4>2, <4>3
    <3>2. u < m /\ f[m] = f[u]
      <4>1. u < m
        BY <2>2, <3>1
      <4>2. f[m] = f[(m % 65536) + (m \div 65536)]
        BY <1>4, <2>2, <2>4
      <4> QED BY <3>1, <4>1, <4>2
    <3>3. Right(u)
      BY <2>9, <3>2
    <3>4. PICK r \in Nat : u = f[u] + 65535 * r
      BY <3>3
    <3>5. PICK w \in Nat : w = f[u] /\ w <= 65535
      BY <3>3
    <3>6. m = w + 65535 * (q + r) /\ q + r \in Nat
      BY <3>1, <3>4, <3>5
    <3>7. f[m] = w
      BY <3>2, <3>5
    <3> QED BY <2>2, <3>5, <3>6, <3>7
  <2> QED BY <2>2, <2>3, <2>4
<1>6. PICK q \in Nat : s = f[s] + 65535 * q
  BY <1>5
<1>7. Right(s)
  BY <1>5
<1> QED BY <1>3, <1>6, <1>7 DEF Apart, Folds

LEMMA PairsOf ==
    ASSUME NEW bytes \in Seq(Octets)
    PROVE  /\ Len(bytes) \in Nat /\ Pairs(bytes) \in Nat
           /\ \A i \in 1..Pairs(bytes) :
                /\ i \in Nat /\ 2 * i - 1 \in 1..Len(bytes)
                /\ bytes[2 * i - 1] \in Octets /\ HighByte(bytes, i) \in Octets
<1>1. Len(bytes) \in Nat /\ DOMAIN bytes = 1..Len(bytes) /\ \A j \in 1..Len(bytes) : bytes[j] \in Octets
  OBVIOUS
<1>2. PICK n \in Nat : n = Len(bytes)
  BY <1>1
<1>3. Pairs(bytes) \in Nat /\ 2 * Pairs(bytes) <= n + 1
  BY <1>2 DEF Pairs
<1>4. ASSUME NEW i \in 1..Pairs(bytes)
      PROVE  /\ i \in Nat /\ 2 * i - 1 \in 1..Len(bytes)
             /\ bytes[2 * i - 1] \in Octets /\ HighByte(bytes, i) \in Octets
  <2>1. i \in Nat /\ 2 * i - 1 \in 1..n /\ (2 * i <= n => 2 * i \in 1..n)
    BY <1>3
  <2>2. HighByte(bytes, i) \in Octets
    BY <1>1, <1>2, <2>1 DEF HighByte, Octets
  <2> QED BY <1>1, <1>2, <2>1, <2>2
<1> QED BY <1>1, <1>3, <1>4

LEMMA WordsOf ==
    ASSUME NEW bytes \in Seq(Octets)
    PROVE  /\ LoadedWords(bytes) \in [1..Pairs(bytes) -> Nat]
           /\ NetWords(bytes) \in [1..Pairs(bytes) -> Nat]
           /\ WordSum(bytes) \in Nat /\ NetSum(bytes) \in Nat
           /\ Swapped(WordSum(bytes), NetSum(bytes))
<1>1. ASSUME NEW i \in 1..Pairs(bytes)
      PROVE  /\ LoadedWords(bytes)[i] \in Nat /\ NetWords(bytes)[i] \in Nat
             /\ Swapped(LoadedWords(bytes)[i], NetWords(bytes)[i])
  <2>1. PICK l \in Nat, h \in Nat : l = bytes[2 * i - 1] /\ h = HighByte(bytes, i)
    BY PairsOf DEF Octets
  <2>2. LoadedWords(bytes)[i] = l + 256 * h /\ NetWords(bytes)[i] = 256 * l + h
    BY <2>1 DEF LoadedWords, NetWords
  <2>3. Apart(256 * (l + 256 * h), 256 * l + h, h)
    BY DEF Apart
  <2>4. l + 256 * h <= 256 * (256 * l + h)
    OBVIOUS
  <2>5. Swapped(l + 256 * h, 256 * l + h)
    BY <2>3, <2>4 DEF Swapped
  <2>6. l + 256 * h \in Nat /\ 256 * l + h \in Nat
    OBVIOUS
  <2> QED BY <2>2, <2>5, <2>6
<1>2. /\ LoadedWords(bytes) = [i \in 1..Pairs(bytes) |-> LoadedWords(bytes)[i]]
      /\ NetWords(bytes) = [i \in 1..Pairs(bytes) |-> NetWords(bytes)[i]]
  BY DEF LoadedWords, NetWords
<1>3. LoadedWords(bytes) \in [1..Pairs(bytes) -> Nat] /\ NetWords(bytes) \in [1..Pairs(bytes) -> Nat]
  BY <1>1, <1>2
<1>4. PICK n \in Nat : n = Pairs(bytes)
  BY PairsOf
<1>5. PICK little \in [1..n -> Nat], big \in [1..n -> Nat] :
         little = LoadedWords(bytes) /\ big = NetWords(bytes)
  BY <1>3, <1>4
<1>6. Total(n, little) \in Nat /\ Total(n, big) \in Nat
  <2>1. PICK a \in [0..n -> Nat] : Total(n, little) = a[n]
    BY TotalIs
  <2>2. PICK b \in [0..n -> Nat] : Total(n, big) = b[n]
    BY TotalIs
  <2>3. n \in 0..n
    OBVIOUS
  <2> QED BY <2>1, <2>2, <2>3
<1>7. \A i \in 1..n : Swapped(little[i], big[i])
  BY <1>1, <1>4, <1>5
<1>8. Swapped(Total(n, little), Total(n, big))
  BY <1>7, TotalsSwapped
<1> QED BY <1>3, <1>4, <1>5, <1>6, <1>8 DEF WordSum, NetSum

(* The check sum put where two zeros were, at a word's place. *)
Patched(bytes, fixed, k) ==
    /\ Len(fixed) = Len(bytes)
    /\ bytes[2 * k - 1] = 0 /\ bytes[2 * k] = 0
    /\ fixed[2 * k - 1] = checksum(bytes) % 256 /\ fixed[2 * k] = checksum(bytes) \div 256
    /\ \A j \in 1..Len(bytes) : j # 2 * k - 1 /\ j # 2 * k => fixed[j] = bytes[j]

LEMMA PatchedIsRight ==
    ASSUME NEW bytes \in Seq(Octets), NEW fixed \in Seq(Octets),
           NEW k \in Nat, k > 0, 2 * k <= Len(bytes), Patched(bytes, fixed, k)
    PROVE  SumIsRight(fixed)
<1>1. PICK n \in Nat : n = Pairs(bytes) /\ n = Pairs(fixed)
  BY PairsOf DEF Pairs, Patched
<1>2. PICK words \in [1..n -> Nat], more \in [1..n -> Nat] :
         words = LoadedWords(bytes) /\ more = LoadedWords(fixed)
  BY <1>1, WordsOf
<1>14. PICK w \in Nat : w = WordSum(bytes)
  BY WordsOf
<1>15. PICK f \in Nat : f = Folded(w) /\ f <= 65535
  <2>1. Folds(w, Folded(w))
    BY FoldedIs
  <2> QED BY <2>1 DEF Folds
<1>16. PICK q \in Nat : Apart(w, f, q)
  <2>1. Folds(w, f)
    BY <1>15, FoldedIs
  <2> QED BY <2>1 DEF Folds
<1>17. PICK c \in Nat : c = 65535 - f
  BY <1>15
<1>3. c = checksum(bytes)
  BY <1>14, <1>15, <1>17 DEF checksum
<1>4. k \in 1..n
  <2>1. PICK l \in Nat : l = Len(bytes) /\ n = (l + 1) \div 2
    BY <1>1, PairsOf DEF Pairs
  <2> QED BY <2>1
<1>5. Plus(words, more, n, k, c)
  <2>5. words[k] = bytes[2 * k - 1] + 256 * HighByte(bytes, k)
    BY <1>1, <1>2, <1>4 DEF LoadedWords
  <2>6. more[k] = fixed[2 * k - 1] + 256 * HighByte(fixed, k)
    BY <1>1, <1>2, <1>4 DEF LoadedWords
  <2>7. HighByte(bytes, k) = 0 /\ HighByte(fixed, k) = c \div 256
    BY <1>3 DEF HighByte, Patched
  <2>8. bytes[2 * k - 1] = 0 /\ fixed[2 * k - 1] = c % 256
    BY <1>3 DEF Patched
  <2>1. words[k] = 0
    BY <2>5, <2>7, <2>8
  <2>2. more[k] = (c % 256) + 256 * (c \div 256)
    BY <2>6, <2>7, <2>8
  <2>3. more[k] = words[k] + c
    BY <2>1, <2>2
  <2>4. ASSUME NEW i \in 1..n, i # k PROVE more[i] = words[i]
    <3>1. fixed[2 * i - 1] = bytes[2 * i - 1]
      <4>1. 2 * i - 1 \in 1..Len(bytes)
        BY <1>1, PairsOf
      <4>2. 2 * i - 1 # 2 * k - 1 /\ 2 * i - 1 # 2 * k
        BY <2>4
      <4> QED BY <4>1, <4>2 DEF Patched
    <3>2. HighByte(fixed, i) = HighByte(bytes, i)
      <4>1. 2 * i # 2 * k - 1 /\ 2 * i # 2 * k /\ 2 * i > 0 /\ 2 * i \in Nat /\ Len(bytes) \in Nat
        BY <2>4
      <4>2. 2 * i <= Len(bytes) => 2 * i \in 1..Len(bytes)
        BY <4>1
      <4> QED BY <4>1, <4>2 DEF Patched, HighByte
    <3> QED BY <1>1, <1>2, <3>1, <3>2 DEF LoadedWords
  <2> QED BY <1>4, <2>3, <2>4 DEF Plus
<1>6. WordSum(fixed) = w + c
  <2>1. PICK t \in Nat : t = Total(n, words) /\ Total(n, more) = t + c
    <3>1. Exceeds(n, words, more, c)
      BY <1>5, TotalPlus
    <3> QED BY <3>1 DEF Exceeds
  <2>2. Total(n, words) = w
    BY <1>1, <1>2, <1>14 DEF WordSum
  <2>3. Total(n, more) = WordSum(fixed)
    BY <1>1, <1>2 DEF WordSum
  <2> QED BY <2>1, <2>2, <2>3
<1>7. PICK s \in Nat, t \in Nat : s = WordSum(fixed) /\ t = NetSum(fixed) /\ Swapped(s, t)
  BY WordsOf
<1>8. s = 65535 * (q + 1)
  BY <1>6, <1>7, <1>16, <1>17 DEF Apart
<1>9. PICK r \in Nat : Apart(256 * s, t, r)
  BY <1>7 DEF Swapped
<1>10. PICK z \in Int : z = 256 * (q + 1) - r
  OBVIOUS
<1>11. t = 65535 * z
  BY <1>8, <1>9, <1>10 DEF Apart
<1>12. t > 0
  BY <1>7, <1>8 DEF Swapped
<1>13. t % 65535 = 0
  BY <1>11
<1> QED BY <1>7, <1>12, <1>13 DEF SumIsRight

----------------------------------------------------------------------------
(* What a header is after bytes are written over others. *)

Written(bytes, i, new, result) ==
    /\ Len(result) = Len(bytes)
    /\ \A j \in 1..Len(bytes) : result[j] = IF i < j /\ j <= i + Len(new) THEN new[j - i] ELSE bytes[j]

LEMMA PutIs ==
    ASSUME NEW bytes \in Seq(Octets), NEW i \in Nat, NEW new \in Seq(Octets)
    PROVE  /\ Put(bytes, i, new) \in Seq(Octets)
           /\ Written(bytes, i, new, Put(bytes, i, new))
<1>1. PICK n \in Nat, m \in Nat : n = Len(bytes) /\ m = Len(new)
  OBVIOUS
<1>2. DOMAIN bytes = 1..n /\ DOMAIN new = 1..m
      /\ (\A j \in 1..n : bytes[j] \in Octets) /\ (\A j \in 1..m : new[j] \in Octets)
  BY <1>1
<1> DEFINE g == Put(bytes, i, new)
<1>3. g = [j \in 1..n |-> g[j]] /\ DOMAIN g = 1..n
  BY <1>2 DEF Put
<1>4. ASSUME NEW j \in 1..n
      PROVE  g[j] = (IF i < j /\ j <= i + m THEN new[j - i] ELSE bytes[j]) /\ g[j] \in Octets
  <2>1. j - i \in 1..m <=> i < j /\ j <= i + m
    OBVIOUS
  <2>2. g[j] = IF j - i \in 1..m THEN new[j - i] ELSE bytes[j]
    BY <1>2 DEF Put
  <2> HIDE DEF g
  <2> QED BY <1>2, <2>1, <2>2
<1> HIDE DEF g
<1>5. g \in [1..n -> Octets]
  BY <1>3, <1>4
<1>6. g \in Seq(Octets)
  BY <1>5
<1>7. Len(g) = n
  BY <1>3, <1>6
<1> QED BY <1>1, <1>4, <1>6, <1>7 DEF g, Written

Within(s, a, b) == 1 <= a /\ a <= b /\ b <= Len(s)
Part(s, a, n, u) == Len(u) = n /\ \A j \in 1..n : u[j] = s[a + j - 1]

LEMMA SubIs ==
    ASSUME NEW s \in Seq(Octets), NEW a \in Nat, NEW b \in Nat, Within(s, a, b)
    PROVE  SubSeq(s, a, b) \in Seq(Octets) /\ Part(s, a, b + 1 - a, SubSeq(s, a, b))
  BY DEF Within, Part

Fits(s, a, n) == 1 <= a /\ a + n - 1 <= Len(s)
Alike(s, u, a, c, n) == \A j \in 1..n : s[a + j - 1] = u[c + j - 1]

LEMMA SubsEqual ==
    ASSUME NEW s \in Seq(Octets), NEW u \in Seq(Octets), NEW a \in Nat, NEW c \in Nat, NEW n \in Nat,
           n > 0, Fits(s, a, n), Fits(u, c, n), Alike(s, u, a, c, n)
    PROVE  SubSeq(s, a, a + n - 1) = SubSeq(u, c, c + n - 1)
<1> USE DEF Fits, Alike
<1>1. PICK b \in Nat, d \in Nat : b = a + n - 1 /\ d = c + n - 1
  OBVIOUS
<1>5. Within(s, a, b) /\ Within(u, c, d) /\ b + 1 - a = n /\ d + 1 - c = n
  BY <1>1 DEF Within
<1>7. /\ SubSeq(s, a, b) \in Seq(Octets)
      /\ Part(s, a, b + 1 - a, SubSeq(s, a, b))
  <2>1. Within(s, a, b)
    BY <1>5
  <2> QED BY <2>1, SubIs
<1>2. PICK x \in Seq(Octets) : x = SubSeq(s, a, b) /\ Part(s, a, n, x)
  <2>1. b + 1 - a = n
    BY <1>5
  <2> QED BY <1>7, <2>1
<1>8. /\ SubSeq(u, c, d) \in Seq(Octets)
      /\ Part(u, c, d + 1 - c, SubSeq(u, c, d))
  <2>1. Within(u, c, d)
    BY <1>5
  <2> QED BY <2>1, SubIs
<1>3. PICK y \in Seq(Octets) : y = SubSeq(u, c, d) /\ Part(u, c, n, y)
  <2>1. d + 1 - c = n
    BY <1>5
  <2> QED BY <1>8, <2>1
<1>6. Len(x) = n /\ Len(y) = n /\ \A j \in 1..n : x[j] = y[j]
  BY <1>2, <1>3 DEF Part
<1>4. x = y
  BY <1>6
<1> QED BY <1>1, <1>2, <1>3, <1>4

LEMMA ChecksumIs ==
    ASSUME NEW bytes \in Seq(Octets)
    PROVE  \E c \in Nat : /\ c = checksum(bytes) /\ c % 256 \in Octets /\ c \div 256 \in Octets
                          /\ <<c % 256, c \div 256>> \in Seq(Octets)
<1>1. PICK w \in Nat : w = WordSum(bytes)
  BY WordsOf
<1>2. Folded(w) \in Nat /\ Folded(w) <= 65535
  <2>1. Folds(w, Folded(w))
    BY FoldedIs
  <2> QED BY <2>1 DEF Folds
<1>3. PICK c \in Nat : c = 65535 - Folded(w) /\ c <= 65535
  BY <1>2
<1>4. c % 256 \in Octets /\ c \div 256 \in Octets
  BY <1>3 DEF Octets
<1>5. <<c % 256, c \div 256>> \in Seq(Octets)
  BY <1>4
<1> QED BY <1>1, <1>3, <1>4, <1>5 DEF checksum

(* The check sum of the bytes from first to last, put into their k-th word *)
(* when that is zero, makes their sum right.                               *)
Zero(body, at) == body[at + 1] = 0 /\ body[at + 2] = 0
Same(body, new, at, n) ==
    \A j \in 1..Len(body) : j <= at \/ j > at + n => new[j] = body[j]

KthWord(at, k, first, last) ==
    first >= 1 /\ k > 0 /\ at + 3 = first + 2 * k /\ at + 2 <= last

LEMMA SummedIs ==
    ASSUME NEW body \in Seq(Octets), NEW first \in Nat, NEW last \in Nat, NEW k \in Nat,
           NEW at \in Nat, KthWord(at, k, first, last), last <= Len(body), Zero(body, at)
    PROVE  LET new == Summed(body, first, last, at)
           IN /\ new \in Seq(Octets) /\ Len(new) = Len(body) /\ Same(body, new, at, 2)
              /\ SumIsRight(SubSeq(new, first, last))
<1> USE DEF KthWord
<1>1. first <= last
  OBVIOUS
<1>2. PICK n \in Nat : n = last + 1 - first
  BY <1>1
<1>18. PICK sub \in Seq(Octets) : sub = SubSeq(body, first, last) /\ Part(body, first, n, sub)
  <2>1. Within(body, first, last)
    BY <1>1 DEF Within
  <2> QED BY <1>2, <2>1, SubIs
<1>3. Len(sub) = n /\ \A j \in 1..n : sub[j] = body[first + j - 1]
  BY <1>18 DEF Part
<1>4. PICK c \in Nat : /\ c = checksum(sub) /\ <<c % 256, c \div 256>> \in Seq(Octets)
  BY ChecksumIs
<1>5. PICK word \in Seq(Octets) :
         word = <<c % 256, c \div 256>> /\ Len(word) = 2 /\ word[1] = c % 256 /\ word[2] = c \div 256
  BY <1>4
<1>19. PICK new \in Seq(Octets) : new = Put(body, at, word) /\ Written(body, at, word, new)
  BY PutIs
<1>6. /\ Len(new) = Len(body)
      /\ \A j \in 1..Len(body) : new[j] = IF at < j /\ j <= at + 2 THEN word[j - at] ELSE body[j]
  <2>1. Len(word) = 2
    BY <1>5
  <2>2. Written(body, at, word, new)
    BY <1>19
  <2> QED BY <2>1, <2>2 DEF Written
<1>7. new = Summed(body, first, last, at)
  BY <1>4, <1>5, <1>18, <1>19 DEF Summed, Put16
<1>8. Same(body, new, at, 2)
  <2>1. ASSUME NEW j \in 1..Len(body), j <= at \/ j > at + 2 PROVE new[j] = body[j]
    <3>1. ~(at < j /\ j <= at + 2)
      BY <2>1
    <3> QED BY <1>6, <3>1
  <2> QED BY <2>1 DEF Same
<1>20. PICK fixed \in Seq(Octets) : fixed = SubSeq(new, first, last) /\ Part(new, first, n, fixed)
  <2>1. Within(new, first, last)
    BY <1>1, <1>6 DEF Within
  <2> QED BY <1>2, <2>1, SubIs
<1>9. Len(fixed) = n /\ \A j \in 1..n : fixed[j] = new[first + j - 1]
  BY <1>20 DEF Part
<1>10. 2 * k - 1 \in 1..n /\ 2 * k \in 1..n /\ 2 * k <= n
       /\ first + (2 * k - 1) - 1 = at + 1 /\ first + 2 * k - 1 = at + 2
  BY <1>1, <1>2
<1>11. sub[2 * k - 1] = 0 /\ sub[2 * k] = 0
  BY <1>3, <1>10 DEF Zero
<1>12. new[at + 1] = c % 256 /\ new[at + 2] = c \div 256
  <2>1. PICK m \in Nat : m = Len(body)
    OBVIOUS
  <2>2. at + 1 \in 1..m /\ at + 2 \in 1..m /\ (at + 1) - at = 1 /\ (at + 2) - at = 2
    BY <2>1
  <2>3. new[at + 1] = word[(at + 1) - at] /\ new[at + 2] = word[(at + 2) - at]
    <3> PICK x \in Nat, y \in Nat : x = at + 1 /\ y = at + 2
      OBVIOUS
    <3>1. at < x /\ x <= at + 2 /\ at < y /\ y <= at + 2 /\ x \in 1..Len(body) /\ y \in 1..Len(body)
      BY <2>1, <2>2
    <3>2. new[x] = word[x - at] /\ new[y] = word[y - at]
      BY <1>6, <3>1
    <3> QED BY <3>2
  <2> QED BY <1>5, <2>2, <2>3
<1>13. fixed[2 * k - 1] = c % 256 /\ fixed[2 * k] = c \div 256
  BY <1>9, <1>10, <1>12
<1>14. ASSUME NEW j \in 1..n, j # 2 * k - 1, j # 2 * k PROVE fixed[j] = sub[j]
  <2>1. PICK m \in Nat, i \in Nat : m = Len(body) /\ i = first + j - 1
    OBVIOUS
  <2>2. i \in 1..m /\ (i <= at \/ i > at + 2)
    BY <1>2, <1>14, <2>1
  <2>3. new[i] = body[i]
    BY <1>8, <2>1, <2>2 DEF Same
  <2> QED BY <1>3, <1>9, <2>1, <2>3
<1>15. Patched(sub, fixed, k)
  BY <1>3, <1>4, <1>9, <1>11, <1>13, <1>14 DEF Patched
<1>16. SumIsRight(fixed)
  BY <1>3, <1>10, <1>15, PatchedIsRight
<1> QED BY <1>6, <1>7, <1>8, <1>16, <1>20

(* The addresses exchanged, and the field of the header's check sum zero.  *)
LEMMA ExchangedIs ==
    ASSUME NEW body \in Seq(Octets), Len(body) >= 20
    PROVE  LET new == Exchanged(body)
           IN /\ new \in Seq(Octets) /\ Len(new) = Len(body) /\ Zero(new, 10) /\ Same(body, new, 10, 10)
              /\ \A j \in 13..16 : new[j] = body[j + 4] /\ new[j + 4] = body[j]
<1>1. PICK n \in Nat : n = Len(body) /\ n >= 20
  OBVIOUS
<1>2. PICK dst \in Seq(Octets) : /\ dst = Address(body, 16) /\ Len(dst) = 4
                                 /\ \A j \in 1..4 : dst[j] = body[j + 16]
  <2>1. Within(body, 17, 20)
    BY <1>1 DEF Within
  <2>2. 20 + 1 - 17 = 4 /\ 16 + 1 = 17 /\ 16 + 4 = 20
    OBVIOUS
  <2>3. PICK u \in Seq(Octets) : u = SubSeq(body, 17, 20) /\ Part(body, 17, 4, u)
    BY <2>1, <2>2, SubIs
  <2>4. Len(u) = 4 /\ \A j \in 1..4 : u[j] = body[j + 16]
    BY <2>3 DEF Part
  <2>5. u = Address(body, 16)
    BY <2>2, <2>3 DEF Address
  <2> QED BY <2>4, <2>5
<1>3. PICK src \in Seq(Octets) : /\ src = Address(body, 12) /\ Len(src) = 4
                                 /\ \A j \in 1..4 : src[j] = body[j + 12]
  <2>1. Within(body, 13, 16)
    BY <1>1 DEF Within
  <2>2. 16 + 1 - 13 = 4 /\ 12 + 1 = 13 /\ 12 + 4 = 16
    OBVIOUS
  <2>3. PICK u \in Seq(Octets) : u = SubSeq(body, 13, 16) /\ Part(body, 13, 4, u)
    BY <2>1, <2>2, SubIs
  <2>4. Len(u) = 4 /\ \A j \in 1..4 : u[j] = body[j + 12]
    BY <2>3 DEF Part
  <2>5. u = Address(body, 12)
    BY <2>2, <2>3 DEF Address
  <2> QED BY <2>4, <2>5
<1>14. PICK b \in Seq(Octets) : b = Put(body, 12, dst) /\ Written(body, 12, dst, b)
  BY PutIs
<1>4. /\ Len(b) = n
      /\ \A j \in 1..n : b[j] = IF 12 < j /\ j <= 16 THEN dst[j - 12] ELSE body[j]
  <2>1. /\ Len(b) = n
        /\ \A j \in 1..n : b[j] = IF 12 < j /\ j <= 12 + Len(dst) THEN dst[j - 12] ELSE body[j]
    BY <1>1, <1>14 DEF Written
  <2>2. Len(dst) = 4
    BY <1>2
  <2>3. 12 + Len(dst) = 16
    BY <2>2
  <2> QED BY <2>1, <2>3
<1>15. PICK d \in Seq(Octets) : d = Put(b, 16, src) /\ Written(b, 16, src, d)
  BY PutIs
<1>5. /\ Len(d) = n
      /\ \A j \in 1..n : d[j] = IF 16 < j /\ j <= 20 THEN src[j - 16] ELSE b[j]
  <2>1. /\ Len(d) = n
        /\ \A j \in 1..n : d[j] = IF 16 < j /\ j <= 16 + Len(src) THEN src[j - 16] ELSE b[j]
    BY <1>4, <1>15 DEF Written
  <2>2. Len(src) = 4
    BY <1>3
  <2>3. 16 + Len(src) = 20
    BY <2>2
  <2> QED BY <2>1, <2>3
<1>6. PICK zero \in Seq(Octets) : zero = <<0 % 256, 0 \div 256>> /\ Len(zero) = 2 /\ zero[1] = 0 /\ zero[2] = 0
  <2>1. 0 % 256 = 0 /\ 0 \div 256 = 0 /\ 0 \in Octets
    BY DEF Octets
  <2>2. <<0 % 256, 0 \div 256>> \in Seq(Octets)
    BY <2>1
  <2> QED BY <2>1, <2>2
<1>17. PICK new \in Seq(Octets) : new = Put(d, 10, zero) /\ Written(d, 10, zero, new)
  BY PutIs
<1>7. /\ Len(new) = n
      /\ \A j \in 1..n : new[j] = IF 10 < j /\ j <= 12 THEN zero[j - 10] ELSE d[j]
  BY <1>5, <1>6, <1>17 DEF Written
<1>8. new = Exchanged(body)
  BY <1>2, <1>3, <1>6, <1>14, <1>15, <1>17 DEF Exchanged, Put16
<1>9. Zero(new, 10)
  <2>1. 11 \in 1..n /\ 12 \in 1..n /\ 11 - 10 = 1 /\ 12 - 10 = 2 /\ 10 + 1 = 11 /\ 10 + 2 = 12
    BY <1>1
  <2>2. new[11] = zero[11 - 10] /\ new[12] = zero[12 - 10]
    BY <1>7, <2>1
  <2> QED BY <1>6, <2>1, <2>2 DEF Zero
<1>30. ASSUME NEW j \in 1..n, j <= 10 \/ j > 20 PROVE new[j] = body[j]
  BY <1>4, <1>5, <1>7, <1>30
<1>31. ASSUME NEW j \in 13..16 PROVE new[j] = body[j + 4] /\ new[j + 4] = body[j]
  <2>1. j \in 1..n /\ j + 4 \in 1..n /\ j - 12 \in 1..4 /\ (j + 4) - 16 \in 1..4
        /\ (j - 12) + 16 = j + 4 /\ ((j + 4) - 16) + 12 = j
    BY <1>1
  <2>4. PICK k \in 1..n : k = j + 4
    BY <2>1
  <2>5. /\ ~(10 < j /\ j <= 12) /\ ~(16 < j /\ j <= 20) /\ (12 < j /\ j <= 16)
        /\ ~(10 < k /\ k <= 12) /\ (16 < k /\ k <= 20)
    BY <2>4
  <2>2. new[j] = dst[j - 12]
    <3>1. new[j] = d[j]
      BY <1>7, <2>1, <2>5
    <3>2. d[j] = b[j]
      BY <1>5, <2>1, <2>5
    <3>3. b[j] = dst[j - 12]
      BY <1>4, <2>1, <2>5
    <3> QED BY <3>1, <3>2, <3>3
  <2>3. new[j + 4] = src[(j + 4) - 16]
    <3>1. new[k] = d[k]
      BY <1>7, <2>5
    <3>2. d[k] = src[k - 16]
      BY <1>5, <2>5
    <3> QED BY <2>4, <3>1, <3>2
  <2> QED BY <1>2, <1>3, <2>1, <2>2, <2>3
<1> QED BY <1>1, <1>7, <1>8, <1>9, <1>30, <1>31 DEF Same

(* Type and code 0, and the field of the second check sum. *)
LEMMA RetypedIs ==
    ASSUME NEW body \in Seq(Octets), NEW ihl \in Nat
    PROVE  LET new == Retyped(body, ihl)
           IN new \in Seq(Octets) /\ Len(new) = Len(body) /\ Same(body, new, ihl, 4)
              /\ (ihl + 4 <= Len(body) => Zero(new, ihl + 2))
<1>1. PICK n \in Nat : n = Len(body)
  OBVIOUS
<1>2. PICK pair \in Seq(Octets) : pair = <<0, 0>> /\ Len(pair) = 2 /\ pair[1] = 0 /\ pair[2] = 0
  <2>1. 0 \in Octets
    BY DEF Octets
  <2>2. <<0, 0>> \in Seq(Octets)
    BY <2>1
  <2> QED BY <2>2
<1>3. PICK b \in Seq(Octets) : b = Put(body, ihl, pair) /\ Written(body, ihl, pair, b)
  BY PutIs
<1>4. /\ Len(b) = n
      /\ \A j \in 1..n : b[j] = IF ihl < j /\ j <= ihl + 2 THEN pair[j - ihl] ELSE body[j]
  BY <1>1, <1>2, <1>3 DEF Written
<1>5. PICK at \in Nat : at = ihl + 2
  OBVIOUS
<1>6. PICK new \in Seq(Octets) : new = Put(b, at, pair) /\ Written(b, at, pair, new)
  BY PutIs
<1>7. /\ Len(new) = n
      /\ \A j \in 1..n : new[j] = IF at < j /\ j <= at + 2 THEN pair[j - at] ELSE b[j]
  BY <1>2, <1>4, <1>6 DEF Written
<1>8. new = Retyped(body, ihl)
  <2>1. 0 % 256 = 0 /\ 0 \div 256 = 0
    OBVIOUS
  <2> QED BY <1>2, <1>3, <1>5, <1>6, <2>1 DEF Retyped, Put16
<1>9. Same(body, new, ihl, 4)
  <2>1. ASSUME NEW j \in 1..n, j <= ihl \/ j > ihl + 4 PROVE new[j] = body[j]
    BY <1>4, <1>5, <1>7, <2>1
  <2> QED BY <1>1, <2>1 DEF Same
<1>10. ASSUME ihl + 4 <= n PROVE Zero(new, at)
  <2>1. PICK x \in Nat, y \in Nat : x = at + 1 /\ y = at + 2
    OBVIOUS
  <2>2. x \in 1..n /\ y \in 1..n /\ x - at = 1 /\ y - at = 2 /\ at < x /\ x <= at + 2 /\ at < y /\ y <= at + 2
    BY <1>5, <1>10, <2>1
  <2>3. new[x] = pair[x - at] /\ new[y] = pair[y - at]
    BY <1>7, <2>2
  <2> QED BY <1>2, <2>1, <2>2, <2>3 DEF Zero
<1> QED BY <1>1, <1>5, <1>7, <1>8, <1>9, <1>10

(* The lengths a header states. *)
LEMMA LengthsOf ==
    ASSUME NEW f, f.body \in Seq(Octets), Len(f.body) >= 20
    PROVE  /\ TotalLength(f) \in Nat
           /\ \E m \in Nat : IpHeaderLen(f) = 4 * m
<1>1. f.body[1] \in Octets /\ f.body[3] \in Octets /\ f.body[4] \in Octets
  <2>1. PICK n \in Nat : n = Len(f.body) /\ n >= 20
    OBVIOUS
  <2>2. 1 \in 1..n /\ 3 \in 1..n /\ 4 \in 1..n
    BY <2>1
  <2> QED BY <2>1, <2>2
<1>2. PICK a \in Nat, b \in Nat, c \in Nat :
         a = f.body[1] /\ b = f.body[3] /\ c = f.body[4]
  BY <1>1 DEF Octets
<1>3. Byte(f.body, 0) = a /\ Word16(f.body, 2) = b + 256 * c
  <2>1. 0 + 1 = 1 /\ 2 + 1 = 3 /\ (2 + 1) + 1 = 4
    OBVIOUS
  <2> QED BY <1>2, <2>1 DEF Byte, Word16
<1>4. PICK m \in Nat : m = a % 16
  OBVIOUS
<1>5. IpHeaderLen(f) = 4 * m
  BY <1>3, <1>4 DEF IpHeaderLen
<1>6. PICK w \in Nat : w = b + 256 * c
  OBVIOUS
<1>7. TotalLength(f) = 256 * (w % 256) + (w \div 256)
  BY <1>3, <1>6 DEF TotalLength, Field, Bswap_16
<1>8. 256 * (w % 256) + (w \div 256) \in Nat
  OBVIOUS
<1> QED BY <1>5, <1>7, <1>8

(* A ping's reply: the addresses exchanged, what was to come back unchanged, *)
(* and both check sums right.                                              *)
Reflected(body, reply, ihl, total) ==
    /\ reply \in Seq(Octets) /\ Len(reply) = Len(body)
    /\ \A j \in 13..16 : reply[j] = body[j + 4] /\ reply[j + 4] = body[j]
    /\ \A j \in 1..Len(body) : j > ihl + 4 => reply[j] = body[j]
    /\ SumIsRight(SubSeq(reply, 1, ihl)) /\ SumIsRight(SubSeq(reply, ihl + 1, total))

LEMMA EchoReplyIs ==
    ASSUME NEW f, WellFormed(f), f.type = IPv4_Ether_Type
    PROVE  Reflected(f.body, EchoReply(f), IpHeaderLen(f), TotalLength(f))
<1>1. /\ f.body \in Seq(Octets) /\ Len(f.body) >= 20
      /\ IpHeaderLen(f) >= 20
      /\ IpHeaderLen(f) + 8 <= TotalLength(f) /\ TotalLength(f) <= Len(f.body)
  BY DEF WellFormed, IPv4Header, ICMPHeader
<1>2. PICK body \in Seq(Octets) : body = f.body
  BY <1>1
<1>3. PICK m \in Nat : IpHeaderLen(f) = 4 * m
  BY <1>1, LengthsOf
<1>4. PICK ihl \in Nat, total \in Nat, n \in Nat :
         /\ ihl = IpHeaderLen(f) /\ total = TotalLength(f) /\ n = Len(body)
         /\ ihl = 4 * m /\ ihl >= 20 /\ ihl + 8 <= total /\ total <= n
  BY <1>1, <1>2, <1>3, LengthsOf
<1>5. PICK b1 \in Seq(Octets) :
         /\ b1 = Exchanged(body) /\ Len(b1) = n /\ Zero(b1, 10) /\ Same(body, b1, 10, 10)
         /\ \A j \in 13..16 : b1[j] = body[j + 4] /\ b1[j + 4] = body[j]
  BY <1>1, <1>2, <1>4, ExchangedIs
<1>6. PICK b2 \in Seq(Octets) :
         /\ b2 = Summed(b1, 1, ihl, 10) /\ Len(b2) = n /\ Same(b1, b2, 10, 2)
         /\ SumIsRight(SubSeq(b2, 1, ihl))
  <2>1. KthWord(10, 6, 1, ihl) /\ ihl <= Len(b1)
    BY <1>4, <1>5 DEF KthWord
  <2>2. LET new == Summed(b1, 1, ihl, 10)
        IN /\ new \in Seq(Octets) /\ Len(new) = Len(b1) /\ Same(b1, new, 10, 2)
           /\ SumIsRight(SubSeq(new, 1, ihl))
    BY <1>5, <2>1, SummedIs
  <2> QED BY <1>5, <2>2
<1>7. PICK b3 \in Seq(Octets) :
         b3 = Retyped(b2, ihl) /\ Len(b3) = n /\ Same(b2, b3, ihl, 4) /\ Zero(b3, ihl + 2)
  <2>1. ihl + 4 <= Len(b2)
    BY <1>4, <1>6
  <2> QED BY <1>6, <2>1, RetypedIs
<1>8. PICK b4 \in Seq(Octets) :
         /\ b4 = Summed(b3, ihl + 1, total, ihl + 2) /\ Len(b4) = n /\ Same(b3, b4, ihl + 2, 2)
         /\ SumIsRight(SubSeq(b4, ihl + 1, total))
  <2>1. PICK first \in Nat, at \in Nat : first = ihl + 1 /\ at = ihl + 2
    OBVIOUS
  <2>2. KthWord(at, 2, first, total) /\ total <= Len(b3)
    BY <1>4, <1>7, <2>1 DEF KthWord
  <2>3. Zero(b3, at)
    BY <1>7, <2>1
  <2>4. LET new == Summed(b3, first, total, at)
        IN /\ new \in Seq(Octets) /\ Len(new) = Len(b3) /\ Same(b3, new, at, 2)
           /\ SumIsRight(SubSeq(new, first, total))
    BY <2>2, <2>3, SummedIs
  <2> QED BY <1>7, <2>1, <2>4
<1>9. b4 = EchoReply(f)
  BY <1>2, <1>4, <1>5, <1>6, <1>7, <1>8 DEF EchoReply
<1>10. \A j \in 1..n : j <= ihl => b4[j] = b2[j]
  <2>1. ASSUME NEW j \in 1..n, j <= ihl PROVE b4[j] = b2[j]
    <3>1. j <= ihl + 2
      BY <2>1
    <3>2. b4[j] = b3[j]
      BY <1>7, <1>8, <3>1 DEF Same
    <3>3. b3[j] = b2[j]
      BY <1>6, <1>7, <2>1 DEF Same
    <3> QED BY <3>2, <3>3
  <2> QED BY <2>1
<1>11. SumIsRight(SubSeq(b4, 1, ihl))
  <2>1. \A j \in 1..ihl : b4[1 + j - 1] = b2[1 + j - 1]
    <3>1. ASSUME NEW j \in 1..ihl PROVE b4[1 + j - 1] = b2[1 + j - 1]
      <4>1. 1 + j - 1 = j /\ j \in 1..n /\ j <= ihl
        BY <1>4
      <4> QED BY <1>10, <4>1
    <3> QED BY <3>1
  <2>2. 1 + ihl - 1 = ihl /\ ihl > 0 /\ ihl <= Len(b4) /\ ihl <= Len(b2)
    BY <1>4, <1>6, <1>8
  <2>3. SubSeq(b4, 1, 1 + ihl - 1) = SubSeq(b2, 1, 1 + ihl - 1)
    BY <2>1, <2>2, SubsEqual DEF Fits, Alike
  <2> QED BY <1>6, <2>2, <2>3
<1>12. ASSUME NEW j \in 13..16 PROVE b4[j] = body[j + 4] /\ b4[j + 4] = body[j]
  <2>1. PICK k \in Nat : k = j + 4 /\ k \in 1..n /\ j \in 1..n /\ k <= ihl /\ j <= ihl /\ j > 10 + 2 /\ k > 10 + 2
    BY <1>4
  <2>2. b4[j] = b2[j] /\ b4[k] = b2[k]
    BY <1>10, <2>1
  <2>3. b2[j] = b1[j] /\ b2[k] = b1[k]
    BY <1>5, <1>6, <2>1 DEF Same
  <2> QED BY <1>5, <2>1, <2>2, <2>3
<1>13. ASSUME NEW j \in 1..n, j > ihl + 4 PROVE b4[j] = body[j]
  <2>1. j > (ihl + 2) + 2 /\ j > 10 + 2 /\ j > 10 + 10
    BY <1>4, <1>13
  <2>2. b4[j] = b3[j] /\ b3[j] = b2[j]
    BY <1>6, <1>7, <1>8, <1>13, <2>1 DEF Same
  <2>3. b2[j] = b1[j] /\ b1[j] = body[j]
    BY <1>4, <1>5, <1>6, <2>1 DEF Same
  <2> QED BY <2>2, <2>3
<1>14. Reflected(body, b4, ihl, total)
  BY <1>4, <1>8, <1>11, <1>12, <1>13 DEF Reflected
<1> QED BY <1>2, <1>4, <1>9, <1>14

Sent(a, dst, type, body) == a.dst = dst /\ a.src = MyMac /\ a.type = type /\ a.body = body

LEMMA SentIs ==
    ASSUME NEW dst, NEW type, NEW body, send_ethernet(dst, type, body) # NoAnswer
    PROVE  Sent(send_ethernet(dst, type, body), dst, type, body)
  BY DEF send_ethernet, Sent

(* What answers a ping is that ping's reply. *)
LEMMA PingAnswered ==
    ASSUME NEW f, f.type = IPv4_Ether_Type, receive_ethernet(f) # NoAnswer
    PROVE  /\ Address(f.body, 16) = MyIp
           /\ Sent(receive_ethernet(f), f.src, IPv4_Ether_Type,
                   SubSeq(EchoReply(f), 1, TotalLength(f)))
<1>1. IPv4_Ether_Type # ARP_Ether_Type
  BY DEF IPv4_Ether_Type, ARP_Ether_Type
<1>2. receive_ethernet(f) = receive_IPv4(f) /\ receive_IPv4(f) # NoAnswer
  <2>1. ~(f.len < EthernetHeader)
    BY DEF receive_ethernet
  <2> QED BY <1>1, <2>1 DEF receive_ethernet
<1>3. Address(f.body, 16) = MyIp /\ receive_IPv4(f) = receive_ICMP(f)
  <2>1. ~(f.len < IPv4Header + EthernetHeader \/ Address(f.body, 16) # MyIp)
    BY <1>2 DEF receive_IPv4
  <2>2. Byte(f.body, 9) = IPv4_Protocol_ICMP
    <3> SUFFICES ASSUME Byte(f.body, 9) # IPv4_Protocol_ICMP PROVE FALSE
      OBVIOUS
    <3>1. CASE Byte(f.body, 9) = IPv4_Protocol_UDP
      BY <1>2, <2>1, <3>1 DEF receive_IPv4, receive_udp
    <3>2. CASE Byte(f.body, 9) # IPv4_Protocol_UDP
      BY <1>2, <2>1, <3>2 DEF receive_IPv4
    <3> QED BY <3>1, <3>2
  <2>3. IPv4_Protocol_ICMP # IPv4_Protocol_UDP
    BY DEF IPv4_Protocol_ICMP, IPv4_Protocol_UDP
  <2> QED BY <2>1, <2>2, <2>3 DEF receive_IPv4
<1>4. receive_ICMP(f) = send_ethernet(f.src, IPv4_Ether_Type, SubSeq(EchoReply(f), 1, TotalLength(f)))
  BY <1>2, <1>3 DEF receive_ICMP
<1> QED BY <1>2, <1>3, <1>4, SentIs

LEMMA PingRight ==
    ASSUME NEW f, WellFormed(f), f.type = IPv4_Ether_Type, receive_ethernet(f) # NoAnswer
    PROVE  Answers(f, receive_ethernet(f))
<1>1. Reflected(f.body, EchoReply(f), IpHeaderLen(f), TotalLength(f))
  BY EchoReplyIs
<1>2. /\ f.body \in Seq(Octets) /\ Len(f.body) >= 20 /\ IpHeaderLen(f) >= 20
      /\ IpHeaderLen(f) + 8 <= TotalLength(f) /\ TotalLength(f) <= Len(f.body)
  BY DEF WellFormed, IPv4Header, ICMPHeader
<1>3. IpHeaderLen(f) \in Nat /\ TotalLength(f) \in Nat
  <2>1. PICK m \in Nat : IpHeaderLen(f) = 4 * m
    BY <1>2, LengthsOf
  <2> QED BY <1>2, <2>1, LengthsOf
<1>4. PICK ihl \in Nat, total \in Nat, body \in Seq(Octets), n \in Nat :
         /\ ihl = IpHeaderLen(f) /\ total = TotalLength(f) /\ body = f.body /\ n = Len(body)
         /\ n >= 20 /\ ihl >= 20 /\ ihl + 8 <= total /\ total <= n
  BY <1>2, <1>3
<1>18. ihl + 8 <= total /\ total <= n
  BY <1>4
<1>5. PICK reply \in Seq(Octets) : reply = EchoReply(f) /\ Reflected(body, reply, ihl, total)
  BY <1>1, <1>4 DEF Reflected
<1>6. /\ Len(reply) = n /\ SumIsRight(SubSeq(reply, 1, ihl)) /\ SumIsRight(SubSeq(reply, ihl + 1, total))
      /\ \A j \in 1..n : j > ihl + 4 => reply[j] = body[j]
      /\ \A j \in 13..16 : reply[j] = body[j + 4] /\ reply[j + 4] = body[j]
  BY <1>4, <1>5 DEF Reflected
<1>7. PICK r \in Seq(Octets) : r = SubSeq(reply, 1, total) /\ Len(r) = total /\ \A j \in 1..total : r[j] = reply[j]
  <2>1. Within(reply, 1, total)
    BY <1>4, <1>6 DEF Within
  <2>5. total + 1 - 1 = total
    OBVIOUS
  <2>6. PICK u \in Seq(Octets) : u = SubSeq(reply, 1, total) /\ Part(reply, 1, total + 1 - 1, u)
    BY <2>1, SubIs
  <2>2. u = SubSeq(reply, 1, total) /\ Part(reply, 1, total, u)
    BY <2>5, <2>6
  <2>3. \A j \in 1..total : 1 + j - 1 = j
    OBVIOUS
  <2>4. Len(u) = total /\ \A j \in 1..total : u[j] = reply[j]
    BY <2>2, <2>3 DEF Part
  <2> QED BY <2>2, <2>4
<1>8. PICK old \in Seq(Octets) : old = SubSeq(body, 1, total) /\ Len(old) = total /\ \A j \in 1..total : old[j] = body[j]
  <2>1. Within(body, 1, total)
    BY <1>4 DEF Within
  <2>5. total + 1 - 1 = total
    OBVIOUS
  <2>6. PICK u \in Seq(Octets) : u = SubSeq(body, 1, total) /\ Part(body, 1, total + 1 - 1, u)
    BY <2>1, SubIs
  <2>2. u = SubSeq(body, 1, total) /\ Part(body, 1, total, u)
    BY <2>5, <2>6
  <2>3. \A j \in 1..total : 1 + j - 1 = j
    OBVIOUS
  <2>4. Len(u) = total /\ \A j \in 1..total : u[j] = body[j]
    BY <2>2, <2>3 DEF Part
  <2> QED BY <2>2, <2>4
<1>9. Address(r, 12) = Address(body, 16)
  <2>1. ASSUME NEW j \in 1..4 PROVE r[13 + j - 1] = body[17 + j - 1]
    <3>1. PICK i \in Nat : i = 13 + j - 1 /\ i \in 13..16 /\ i \in 1..total /\ i + 4 = 17 + j - 1
      BY <1>4
    <3> QED BY <1>6, <1>7, <3>1
  <2>2. 13 + 4 - 1 = 16 /\ 17 + 4 - 1 = 20 /\ 16 <= Len(r) /\ 20 <= Len(body)
    BY <1>4, <1>7
  <2>3. SubSeq(r, 13, 13 + 4 - 1) = SubSeq(body, 17, 17 + 4 - 1)
    BY <2>1, <2>2, SubsEqual DEF Fits, Alike
  <2>4. 12 + 1 = 13 /\ 12 + 4 = 16 /\ 16 + 1 = 17 /\ 16 + 4 = 20
    OBVIOUS
  <2> QED BY <2>2, <2>3, <2>4 DEF Address
<1>10. Address(r, 16) = Address(old, 12)
  <2>1. ASSUME NEW j \in 1..4 PROVE r[17 + j - 1] = old[13 + j - 1]
    <3>1. PICK i \in Nat : i = 13 + j - 1 /\ i \in 13..16 /\ i \in 1..total /\ i + 4 = 17 + j - 1 /\ i + 4 \in 1..total
      BY <1>4
    <3>2. r[i + 4] = reply[i + 4]
      BY <1>7, <3>1
    <3>3. old[i] = body[i]
      BY <1>8, <3>1
    <3>4. reply[i + 4] = body[i]
      BY <1>6, <3>1
    <3> QED BY <3>1, <3>2, <3>3, <3>4
  <2>2. 17 + 4 - 1 = 20 /\ 13 + 4 - 1 = 16 /\ 20 <= Len(r) /\ 16 <= Len(old)
    BY <1>4, <1>7, <1>8
  <2>3. SubSeq(r, 17, 17 + 4 - 1) = SubSeq(old, 13, 13 + 4 - 1)
    BY <2>1, <2>2, SubsEqual DEF Fits, Alike
  <2>4. 12 + 1 = 13 /\ 12 + 4 = 16 /\ 16 + 1 = 17 /\ 16 + 4 = 20
    OBVIOUS
  <2> QED BY <2>2, <2>3, <2>4 DEF Address
<1>11. SubSeq(r, ihl + 5, total) = SubSeq(old, ihl + 5, total)
  <2>5. PICK a \in Nat : a = ihl + 5
    OBVIOUS
  <2>6. PICK k \in Nat : k = total + 1 - a
    BY <1>18, <2>5
  <2>1. a = ihl + 5 /\ k > 0 /\ a + k - 1 = total /\ a >= 1
    BY <1>18, <2>5, <2>6
  <2>2. ASSUME NEW j \in 1..k PROVE r[a + j - 1] = old[a + j - 1]
    <3>2. PICK i \in Nat : i = a + j - 1
      BY <2>1
    <3>1. i = a + j - 1 /\ i \in 1..total /\ i \in 1..n /\ i > ihl + 4
      BY <1>18, <2>1, <3>2
    <3> QED BY <1>6, <1>7, <1>8, <3>1
  <2>3. a + k - 1 <= Len(r) /\ a + k - 1 <= Len(old)
    BY <1>7, <1>8, <2>1
  <2>10. k > 0
    BY <2>1
  <2>8. Fits(r, a, k) /\ Fits(old, a, k)
    BY <2>1, <2>3 DEF Fits
  <2>9. Alike(r, old, a, a, k)
    BY <2>2 DEF Alike
  <2>4. SubSeq(r, a, a + k - 1) = SubSeq(old, a, a + k - 1)
    BY <2>8, <2>9, <2>10, SubsEqual
  <2> QED BY <2>1, <2>4
<1>12. SumIsRight(SubSeq(r, 1, ihl))
  <2>1. ASSUME NEW j \in 1..ihl PROVE r[1 + j - 1] = reply[1 + j - 1]
    <3>1. 1 + j - 1 = j /\ j \in 1..total
      BY <1>4
    <3> QED BY <1>7, <3>1
  <2>4. Len(r) = total /\ Len(reply) = n /\ ihl >= 20
    BY <1>4, <1>6, <1>7
  <2>2. 1 + ihl - 1 = ihl /\ ihl > 0 /\ ihl <= Len(r) /\ ihl <= Len(reply)
    BY <1>18, <2>4
  <2>3. SubSeq(r, 1, 1 + ihl - 1) = SubSeq(reply, 1, 1 + ihl - 1)
    BY <2>1, <2>2, SubsEqual DEF Fits, Alike
  <2> QED BY <1>6, <2>2, <2>3
<1>13. SumIsRight(SubSeq(r, ihl + 1, total))
  <2>5. PICK a \in Nat : a = ihl + 1
    OBVIOUS
  <2>6. PICK k \in Nat : k = total + 1 - a
    BY <1>18, <2>5
  <2>1. a = ihl + 1 /\ k > 0 /\ a + k - 1 = total /\ a >= 1
    BY <1>18, <2>5, <2>6
  <2>2. ASSUME NEW j \in 1..k PROVE r[a + j - 1] = reply[a + j - 1]
    <3>2. PICK i \in Nat : i = a + j - 1
      BY <2>1
    <3>1. i = a + j - 1 /\ i \in 1..total
      BY <1>18, <2>1, <3>2
    <3> QED BY <1>7, <3>1
  <2>7. Len(r) = total /\ Len(reply) = n
    BY <1>6, <1>7
  <2>3. a + k - 1 <= Len(r) /\ a + k - 1 <= Len(reply)
    BY <1>18, <2>1, <2>7
  <2>10. k > 0
    BY <2>1
  <2>8. Fits(r, a, k) /\ Fits(reply, a, k)
    BY <2>1, <2>3 DEF Fits
  <2>9. Alike(r, reply, a, a, k)
    BY <2>2 DEF Alike
  <2>4. SubSeq(r, a, a + k - 1) = SubSeq(reply, a, a + k - 1)
    BY <2>8, <2>9, <2>10, SubsEqual
  <2> QED BY <1>6, <2>1, <2>4
<1>14. PICK a : a = receive_ethernet(f)
  OBVIOUS
<1>15. Address(body, 16) = MyIp /\ Sent(a, f.src, IPv4_Ether_Type, r)
  BY <1>4, <1>5, <1>7, <1>14, PingAnswered
<1>16. IPv4_Ether_Type # ARP_Ether_Type
  BY DEF IPv4_Ether_Type, ARP_Ether_Type
<1>17. Answers(f, a)
  BY <1>4, <1>7, <1>8, <1>9, <1>10, <1>11, <1>12, <1>13, <1>15, <1>16 DEF Answers, Sent
<1> QED BY <1>14, <1>17

LEMMA ArpRight ==
    ASSUME NEW f, f.type = ARP_Ether_Type, receive_ethernet(f) # NoAnswer
    PROVE  Answers(f, receive_ethernet(f))
<1>1. receive_ethernet(f) = receive_ARP(f) /\ receive_ARP(f) # NoAnswer
  <2>1. ~(f.len < EthernetHeader)
    BY DEF receive_ethernet
  <2>2. IPv4_Ether_Type # ARP_Ether_Type
    BY DEF IPv4_Ether_Type, ARP_Ether_Type
  <2> QED BY <2>1, <2>2 DEF receive_ethernet
<1>2. receive_ARP(f) = send_ethernet(f.src, ARP_Ether_Type, <<ARP_REPLY, MyMac, MyIp, f.src, f.sender_ip>>)
  BY <1>1 DEF receive_ARP
<1> QED BY <1>1, <1>2, SentIs DEF Answers, Sent

(* Whatever well-formed packet is answered, is answered right. *)
LEMMA AnswersRight ==
    ASSUME NEW p \in DOMAIN Packets, Answer[p] # NoAnswer
    PROVE  Answers(Packets[p], Answer[p])
<1>1. PICK f : f = Packets[p]
  OBVIOUS
<1>2. Answer[p] = receive_ethernet(f) /\ receive_ethernet(f) # NoAnswer
  BY <1>1 DEF Answer
<1>3. WellFormed(f)
  BY <1>1, PacketsAssumption
<1>4. f.type = ARP_Ether_Type \/ f.type = IPv4_Ether_Type
  <2> SUFFICES ASSUME f.type # ARP_Ether_Type, f.type # IPv4_Ether_Type PROVE FALSE
    OBVIOUS
  <2>1. CASE f.len < EthernetHeader
    BY <1>2, <2>1 DEF receive_ethernet
  <2>2. CASE ~(f.len < EthernetHeader)
    BY <1>2, <2>2 DEF receive_ethernet
  <2> QED BY <2>1, <2>2
<1> QED BY <1>1, <1>2, <1>3, <1>4, ArpRight, PingRight

----------------------------------------------------------------------------
(* What is handed to the card is an answer: the frame send is called for   *)
(* is still the oldest one when its answer is copied and when it is        *)
(* started, whatever has come to the ring or left the slots in between.    *)
Answered(p) == p \in DOMAIN Packets /\ Answer[p] # NoAnswer
AnswerInv ==
    /\ pc = "copy" => held[1].frame.reply # NoReply
    /\ pc = "start" /\ ~overrun => Answered(txBuffer[txSlot])
    /\ \A i \in DOMAIN owed : Answered(owed[i])

LEMMA FramesAnswered ==
    ASSUME NEW f \in Frames, f.reply # NoReply
    PROVE  Answered(f.reply)
<1>1. PICK p \in DOMAIN Packets, ok \in BOOLEAN : f = FrameOf(p, ok)
  BY PacketsAssumption
<1>2. f.reply = IF ok /\ Answer[p] # NoAnswer THEN p ELSE NoReply
  BY <1>1 DEF FrameOf
<1> QED BY <1>2 DEF Answered

(* A step that leaves the transmit side alone and starts no answer. *)
LEMMA OtherAnswer ==
    ASSUME AnswerInv, UNCHANGED <<txSlot, txBuffer, owed, overrun>>,
           pc' = "copy" => held'[1].frame.reply # NoReply, pc' = pc \/ pc' # "start"
    PROVE  AnswerInv'
  BY DEF AnswerInv, Answered

LEMMA StepAnswer == RxInv /\ TxInv /\ AnswerInv /\ [Next]_vars => AnswerInv'
<1> SUFFICES ASSUME RxInv, TxInv, AnswerInv, [Next]_vars PROVE AnswerInv'
  OBVIOUS
<1>1. TxTypes
  BY DEF TxInv
<1>2. CASE Boot \/ Enter \/ (Handler /\ ~ReceiveEthernet /\ ~SendCopy /\ ~SendStart) \/ UNCHANGED vars
  <2>1. /\ UNCHANGED <<txSlot, txBuffer, owed, overrun>>
        /\ pc' = "copy" => pc = "copy" /\ held' = held
        /\ pc' = pc \/ pc' # "start"
    BY <1>2 DEF Boot, BootStep, ResetDone, ResetPoll, EnableInterrupts, EnableReceiver, ResetCapr,
         Route, StoreHandler, Enter, Handler, Eoi, ReadIsr, AckIsr, CheckBuffer, NoRok, Advance,
         WriteCapr, vars, txVars
  <2>2. pc' = "copy" => held'[1].frame.reply # NoReply
    BY <2>1 DEF AnswerInv
  <2> QED BY <2>1, <2>2, OtherAnswer
<1>3. CASE ReceiveEthernet
  <2>1. pc = "header" /\ held' = held /\ UNCHANGED <<txSlot, txBuffer, owed, overrun>>
    BY <1>3 DEF ReceiveEthernet, txVars
  <2>2. Found = {held[1].frame}
    BY <2>1, FoundIsHead
  <2>3. pc' = IF held[1].frame.reply = NoReply THEN "advance" ELSE "copy"
    BY <1>3, <2>2 DEF ReceiveEthernet
  <2> QED BY <2>1, <2>3, OtherAnswer
<1>4. CASE SendCopy
  <2>1. /\ pc = "copy" /\ pc' = "start" /\ UNCHANGED <<txSlot, owed>>
        /\ \E f \in Found : txBuffer' = IF overrun' THEN [s \in Slots |-> NoReply]
                                         ELSE [txBuffer EXCEPT ![txSlot] = f.reply]
    BY <1>4 DEF SendCopy
  <2>2. Found = {held[1].frame} /\ 1 \in DOMAIN held
    BY <2>1, FoundIsHead
  <2>3. held[1].frame \in Frames
    BY <2>2, HeldTypes DEF RxInv
  <2>4. Answered(held[1].frame.reply)
    BY <2>1, <2>3, FramesAnswered DEF AnswerInv
  <2>5. ~overrun' => txBuffer'[txSlot] = held[1].frame.reply
    BY <1>1, <2>1, <2>2 DEF TxTypes
  <2>6. ~overrun' => Answered(txBuffer'[txSlot'])
    BY <2>1, <2>4, <2>5
  <2> QED BY <2>1, <2>6 DEF AnswerInv, Answered
<1>5. CASE SendStart
  <2>1. /\ pc = "start" /\ pc' = "advance"
        /\ owed' = IF overrun THEN <<>> ELSE Append(owed, txBuffer[txSlot])
    BY <1>5 DEF SendStart
  <2>2. ASSUME NEW i \in DOMAIN owed' PROVE Answered(owed'[i])
    <3>1. CASE overrun
      BY <2>1, <2>2, <3>1
    <3>2. CASE ~overrun
      <4>1. owed' = Append(owed, txBuffer[txSlot]) /\ Answered(txBuffer[txSlot])
        BY <2>1, <3>2 DEF AnswerInv
      <4>2. owed \in Seq(Replies \cup {NoReply})
        BY <1>1 DEF TxTypes
      <4>3. i \in DOMAIN owed \/ i = Len(owed) + 1
        BY <2>2, <4>1, <4>2
      <4>4. CASE i \in DOMAIN owed
        <5>1. owed'[i] = owed[i]
          BY <4>1, <4>2, <4>4
        <5> QED BY <4>4, <5>1 DEF AnswerInv
      <4>5. CASE i = Len(owed) + 1
        <5>1. owed'[i] = txBuffer[txSlot]
          BY <4>1, <4>2, <4>5
        <5> QED BY <4>1, <5>1
      <4> QED BY <4>3, <4>4, <4>5
    <3> QED BY <3>1, <3>2
  <2> QED BY <2>1, <2>2 DEF AnswerInv, Answered
<1>6. CASE CardTransmit
  <2>1. /\ UNCHANGED <<pc, held, txSlot, overrun>>
        /\ txBuffer' = [txBuffer EXCEPT ![cardSlot] =
                          IF pc = "start" /\ txSlot = cardSlot THEN @ ELSE NoReply]
        /\ owed' = IF overrun THEN <<>> ELSE Tail(owed)
    BY <1>6 DEF CardTransmit
  <2>2. pc = "start" => txBuffer'[txSlot] = txBuffer[txSlot]
    BY <1>1, <2>1 DEF TxTypes
  <2>3. ASSUME NEW i \in DOMAIN owed' PROVE Answered(owed'[i])
    <3>1. CASE overrun
      BY <2>1, <2>3, <3>1
    <3>2. CASE ~overrun
      <4>1. owed # <<>>
        <5>1. own[cardSlot] /\ Queue
          BY <1>6, <3>2 DEF CardTransmit, TxInv
        <5>2. cardSlot \in Slots
          BY <1>1 DEF TxTypes
        <5>3. PICK j \in 1..Len(owed) : cardSlot = SlotOf(j)
          BY <5>1, <5>2 DEF Queue
        <5> QED BY <1>1, <5>3 DEF TxTypes
      <4>2. owed \in Seq(Replies \cup {NoReply}) /\ owed' = Tail(owed)
        BY <1>1, <2>1, <3>2 DEF TxTypes
      <4>3. i + 1 \in DOMAIN owed /\ owed'[i] = owed[i + 1]
        BY <2>3, <4>1, <4>2
      <4> QED BY <4>3 DEF AnswerInv
    <3> QED BY <3>1, <3>2
  <2>4. pc' = "copy" => held'[1].frame.reply # NoReply
    BY <2>1 DEF AnswerInv
  <2>5. pc' = "start" /\ ~overrun' => Answered(txBuffer'[txSlot'])
    BY <2>1, <2>2 DEF AnswerInv
  <2> QED BY <2>3, <2>4, <2>5 DEF AnswerInv, Answered
<1>7. CASE \E f \in Frames : CardReceive(f)
  <2> PICK f \in Frames : CardReceive(f)
    BY <1>7
  <2>1. /\ UNCHANGED <<pc, txSlot, txBuffer, owed, overrun>>
        /\ held' = Append([i \in DOMAIN held |->
                            [held[i] EXCEPT !.whole = @ /\ ~Meet(held[i], cardNext, f.length)]],
                          [off |-> cardNext, frame |-> f, whole |-> TRUE])
    BY DEF CardReceive, txVars
  <2>2. ASSUME pc = "copy" PROVE held'[1].frame = held[1].frame
    <3>1. 1 \in DOMAIN held
      BY <2>2, FoundIsHead
    <3>2. PICK n \in Nat : n = Len(held) /\ DOMAIN held = 1..n
      BY HeldTypes DEF RxInv
    <3> DEFINE g == [i \in 1..n |-> [held[i] EXCEPT !.whole = @ /\ ~Meet(held[i], cardNext, f.length)]]
    <3>3. held[1] \in HeldFrame
      BY <3>1, HeldTypes DEF RxInv
    <3>4. g[1].frame = held[1].frame
      BY <3>1, <3>2, <3>3 DEF HeldFrame
    <3>5. \A i \in 1..n : g[i] \in HeldFrame
      BY <3>2, HeldTypes DEF RxInv, HeldFrame
    <3>6. held' = Append(g, [off |-> cardNext, frame |-> f, whole |-> TRUE]) /\ DOMAIN g = 1..n
      BY <2>1, <3>2
    <3>9. g \in [1..n -> HeldFrame]
      BY <3>5
    <3> HIDE DEF g
    <3>10. g \in Seq(HeldFrame) /\ Len(g) = n
      BY <3>9
    <3>11. 1 <= n
      BY <3>1, <3>2
    <3>7. g \in Seq(HeldFrame) /\ Len(g) = n /\ n >= 1
      BY <3>10, <3>11
    <3>8. held'[1] = g[1]
      BY <3>6, <3>7
    <3> QED BY <3>4, <3>8
  <2>3. pc' = "copy" => held'[1].frame.reply # NoReply
    BY <2>1, <2>2 DEF AnswerInv
  <2> QED BY <2>1, <2>3, OtherAnswer
<1> QED BY <1>2, <1>3, <1>4, <1>5, <1>6, <1>7 DEF Next, Card, Handler

(* Whoever is answered gets its own bytes back and finds both check sums   *)
(* right (receive_ethernet, receive_ARP, receive_ICMP, NET::checksum, and  *)
(* RX_handler's calls of send), for all well-formed packets: of every      *)
(* length, odd ones included, with options and with padding behind them.   *)
THEOREM AnswersVerifyTheorem == Spec => []AnswersVerify
<1>1. Init => AnswerInv
  BY DEF Init, AnswerInv
<1>2. AnswerInv => AnswersVerify
  BY AnswersRight DEF AnswerInv, Answered, AnswersVerify
<1> QED BY <1>1, <1>2, StepAnswer, InductiveRx, InductiveTx, PTL DEF Spec
=============================================================================

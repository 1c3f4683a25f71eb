----------------------------- MODULE XhciProofs -----------------------------
(***************************************************************************)
(* Proofs about the xHCI driver: its commands (XhciCommand), and its       *)
(* bring-up and ports (XhciDriver).                                        *)
(*                                                                         *)
(* Commands, for every size of the rings, any number of commands and of    *)
(* port events, in three invariants:                                       *)
(*                                                                         *)
(* IInv: the event ring is a queue.  An entry carries the controller's bit *)
(* when it was written in this round and the other bit when it was written *)
(* in the round before; the ends of the queue are in the same round        *)
(* exactly when they are in order.                                         *)
(*                                                                         *)
(* CmdInv: so is the command ring, with the link as its last entry, and    *)
(* what is under way lies in it in the order of sending.                   *)
(*                                                                         *)
(* OwnInv: what is on its way back to the driver is in the order of the    *)
(* commands, and belongs to the call that waits if none was given up.      *)
(*                                                                         *)
(* Bring-up, for every number of ports and slots and every list of         *)
(* capabilities, in BringUpInv: what each stage of init_device has         *)
(* established (RulesInv), whose slot is whose (SlotInv), and what a       *)
(* port's register still shows (PortInv).                                  *)
(***************************************************************************)
EXTENDS XhciCommand, XhciDriver, WellFoundedInduction, TLAPS

(* The number of steps from one place of the ring to another. *)
Gap(a, b) == IF a <= b THEN b - a ELSE b - a + EventTrbs

Rounds ==
    /\ \A i \in 0..EventTrbs - 1 :
          eRing[i].cycle = IF i < hcEnq THEN hcPcs ELSE 1 - hcPcs
    /\ (eRcs = hcPcs) <=> (eDeq <= hcEnq)

(* The register is behind the handler, the handler behind the controller.  *)
Order ==
    /\ posted - seen = Gap(eDeq, hcEnq)
    /\ Gap(erdp, eDeq) + Gap(eDeq, hcEnq) = Gap(erdp, hcEnq)

(* The flag is set after the completion is there and reset after it is     *)
(* gone.                                                                   *)
FlagOrder ==
    /\ (flag = 1) => (completions # <<>> \/ pc = "reset")
    /\ (isr # "out" /\ found = 1) => completions # <<>>

IInv == TypeOK /\ Rounds /\ Order /\ FlagOrder

USE RingAssumption, BoundAssumption

LEMMA NextEventType ==
    ASSUME NEW i \in 0..EventTrbs - 1
    PROVE  NextEvent(i) \in 0..EventTrbs - 1
  BY DEF NextEvent

(* has_unprocessed_events, from the invariant. *)
LEMMA RingCounts == IInv => EventsCounted
<1> SUFFICES ASSUME IInv PROVE HasUnprocessedEvents <=> seen < posted
  BY DEF EventsCounted
<1>1. eDeq \in 0..EventTrbs - 1 /\ hcEnq \in 0..EventTrbs - 1 /\ eRcs \in {0, 1} /\ hcPcs \in {0, 1}
      /\ posted \in Nat /\ seen \in Nat
  BY DEF IInv, TypeOK, Bit
<1>2. eRing[eDeq].cycle = IF eDeq < hcEnq THEN hcPcs ELSE 1 - hcPcs
  BY <1>1 DEF IInv, Rounds
<1>3. (eRcs = hcPcs) <=> (eDeq <= hcEnq)
  BY DEF IInv, Rounds
<1>4. seen < posted <=> eDeq # hcEnq
  BY <1>1 DEF IInv, Order, Gap
<1> QED BY <1>1, <1>2, <1>3, <1>4 DEF HasUnprocessedEvents

LEMMA InitIInv == Init => IInv
<1> SUFFICES ASSUME Init PROVE IInv
  OBVIOUS
<1>1. cRing \in [0..Link -> [cmd : 0..MaxCommands, cycle : Bit]]
  BY DEF Init, Bit, Link
<1>2. eRing \in [0..EventTrbs - 1 -> [cmd : 0..MaxCommands, cycle : Bit]]
  BY DEF Init, Bit
<1>3. completions \in Seq(Places) /\ taken \in Seq(Places) /\ Len(taken) <= 1 /\ events \in Seq(Places)
  BY DEF Init
<1>4. TypeOK
  <2>1. /\ 0 \in 0..MaxCommands /\ 0 \in 0..MaxPortEvents
        /\ 0 \in 0..EventTrbs - 1 /\ 0 \in 0..Link - 1 /\ 0 \in 0..Link
        /\ 0 \in Bit /\ 1 \in Bit /\ 0 \in Nat
    BY DEF Bit, Link
  <2> QED BY <1>1, <1>2, <1>3, <2>1 DEF Init, TypeOK
<1>5. Rounds /\ Order /\ FlagOrder
  BY DEF Init, Rounds, Order, FlagOrder, Gap
<1> QED BY <1>4, <1>5 DEF IInv

----------------------------------------------------------------------------
(* The controller writes an event: the ring part of the invariant. *)
LEMMA PostRing ==
    ASSUME IInv, NEW command \in 0..MaxCommands, Post(command)
    PROVE  Rounds' /\ Order'
<1>1. eDeq \in 0..EventTrbs - 1 /\ hcEnq \in 0..EventTrbs - 1 /\ erdp \in 0..EventTrbs - 1
      /\ eRcs \in {0, 1} /\ hcPcs \in {0, 1} /\ posted \in Nat /\ seen \in Nat
      /\ eRing \in [0..EventTrbs - 1 -> [cmd : 0..MaxCommands, cycle : {0, 1}]]
  BY DEF IInv, TypeOK, Bit
<1>2. /\ NextEvent(hcEnq) # erdp /\ hcEnq' = NextEvent(hcEnq)
      /\ hcPcs' = (IF hcEnq' = 0 THEN 1 - hcPcs ELSE hcPcs)
      /\ eRing' = [eRing EXCEPT ![hcEnq] = [cmd |-> command, cycle |-> hcPcs]]
      /\ posted' = posted + 1 /\ seen' = seen /\ eDeq' = eDeq /\ eRcs' = eRcs /\ erdp' = erdp
  BY DEF Post, handler
<1>3. hcEnq' = IF hcEnq = EventTrbs - 1 THEN 0 ELSE hcEnq + 1
  BY <1>1, <1>2 DEF NextEvent
<1>4. (posted - seen = Gap(eDeq, hcEnq)) /\ (Gap(erdp, eDeq) + Gap(eDeq, hcEnq) = Gap(erdp, hcEnq))
  BY DEF IInv, Order
<1>5. hcEnq' # eDeq
  BY <1>1, <1>2, <1>3, <1>4 DEF Gap
<1>6. Order'
  <2>1. Gap(eDeq, hcEnq') = Gap(eDeq, hcEnq) + 1
    BY <1>1, <1>3, <1>5 DEF Gap
  <2>2. Gap(erdp, hcEnq') = Gap(erdp, hcEnq) + 1
    BY <1>1, <1>2, <1>3 DEF Gap
  <2>3. Gap(eDeq, hcEnq) \in Int /\ Gap(erdp, hcEnq) \in Int /\ Gap(erdp, eDeq) \in Int
    BY <1>1 DEF Gap
  <2>4. Gap(erdp, eDeq)' = Gap(erdp, eDeq) /\ Gap(eDeq, hcEnq)' = Gap(eDeq, hcEnq')
        /\ Gap(erdp, hcEnq)' = Gap(erdp, hcEnq')
    BY <1>2 DEF Gap
  <2> QED BY <1>1, <1>2, <1>4, <2>1, <2>2, <2>3, <2>4 DEF Order
<1>7. ASSUME NEW i \in 0..EventTrbs - 1
      PROVE  eRing'[i].cycle = IF i < hcEnq' THEN hcPcs' ELSE 1 - hcPcs'
  <2>1. eRing[i].cycle = IF i < hcEnq THEN hcPcs ELSE 1 - hcPcs
    BY DEF IInv, Rounds
  <2>2. eRing'[i].cycle = IF i = hcEnq THEN hcPcs ELSE eRing[i].cycle
    BY <1>1, <1>2
  <2> QED BY <1>1, <1>2, <1>3, <2>1, <2>2
<1>8. (eRcs' = hcPcs') <=> (eDeq' <= hcEnq')
  <2>1. (eRcs = hcPcs) <=> (eDeq <= hcEnq) BY DEF IInv, Rounds
  <2> QED BY <1>1, <1>2, <1>3, <1>5, <2>1
<1> QED BY <1>6, <1>7, <1>8 DEF Rounds

(* The rest of the invariant: only the controller's own variables change.  *)
LEMMA PostRest ==
    ASSUME IInv, NEW command \in 0..MaxCommands, Post(command)
    PROVE  /\ eRing' \in [0..EventTrbs - 1 -> [cmd : 0..MaxCommands, cycle : Bit]]
           /\ hcEnq' \in 0..EventTrbs - 1 /\ hcPcs' \in Bit /\ posted' \in Nat /\ overwritten' \in BOOLEAN
           /\ ehb' \in BOOLEAN /\ ip' \in BOOLEAN /\ irr' \in BOOLEAN
           /\ FlagOrder'
<1>1. hcEnq' \in 0..EventTrbs - 1
  BY NextEventType DEF Post, IInv, TypeOK
<1>2. hcPcs' \in Bit /\ posted' \in Nat /\ overwritten' \in BOOLEAN
  BY DEF Post, IInv, TypeOK, Bit
<1>3. eRing' \in [0..EventTrbs - 1 -> [cmd : 0..MaxCommands, cycle : Bit]]
  BY DEF Post, IInv, TypeOK
<1>4. ehb' \in BOOLEAN /\ ip' \in BOOLEAN /\ irr' \in BOOLEAN
  BY DEF Post, Raise, IInv, TypeOK
<1>5. FlagOrder'
  BY DEF Post, IInv, FlagOrder, driver, mailbox, handler
<1> QED BY <1>1, <1>2, <1>3, <1>4, <1>5

LEMMA HcStep == IInv /\ Hc => IInv'
<1> SUFFICES ASSUME IInv, Hc PROVE IInv'
  OBVIOUS
<1> USE DEF driver, mailbox, cmdRing, handler
<1>1. CASE HcExecute
  <2>1. hcDeq \in 0..Link /\ cRing \in [0..Link -> [cmd : 0..MaxCommands, cycle : Bit]]
    BY DEF IInv, TypeOK
  <2>2. cRing[hcDeq].cmd \in 0..MaxCommands BY <2>1
  <2>3. Post(cRing[hcDeq].cmd) BY <1>1 DEF HcExecute
  <2>4. hcDeq' \in 0..Link BY <1>1, <2>1 DEF HcExecute, Link
  <2>5. executed' \in 0..MaxCommands BY <1>1, <2>2 DEF HcExecute
  <2>6. Rounds' /\ Order' BY <2>2, <2>3, PostRing
  <2>7. FlagOrder' BY <2>2, <2>3, PostRest
  <2>8. TypeOK'
    <3>1. /\ eRing' \in [0..EventTrbs - 1 -> [cmd : 0..MaxCommands, cycle : Bit]]
          /\ hcEnq' \in 0..EventTrbs - 1 /\ hcPcs' \in Bit /\ posted' \in Nat /\ overwritten' \in BOOLEAN
          /\ ehb' \in BOOLEAN /\ ip' \in BOOLEAN /\ irr' \in BOOLEAN
      BY <2>2, <2>3, PostRest
    <3>2. UNCHANGED <<driver, mailbox, cmdRing, handler, running, hcCcs, ports, erdp, msi, answered>>
      BY <1>1 DEF HcExecute, Post
    <3> QED BY <2>4, <2>5, <3>1, <3>2 DEF IInv, TypeOK
  <2> QED BY <2>6, <2>7, <2>8 DEF IInv
<1>2. CASE HcPort
  <2>1. Post(0) /\ 0 \in 0..MaxCommands BY <1>2 DEF HcPort, PortEvent
  <2>2. ports' \in 0..MaxPortEvents BY <1>2 DEF HcPort, IInv, TypeOK
  <2>3. Rounds' /\ Order' BY <2>1, PostRing
  <2>4. FlagOrder' BY <2>1, PostRest
  <2>5. TypeOK'
    <3>1. /\ eRing' \in [0..EventTrbs - 1 -> [cmd : 0..MaxCommands, cycle : Bit]]
          /\ hcEnq' \in 0..EventTrbs - 1 /\ hcPcs' \in Bit /\ posted' \in Nat /\ overwritten' \in BOOLEAN
          /\ ehb' \in BOOLEAN /\ ip' \in BOOLEAN /\ irr' \in BOOLEAN
      BY <2>1, PostRest
    <3>2. UNCHANGED <<driver, mailbox, cmdRing, handler, fetch, erdp, msi, answered>>
      BY <1>2 DEF HcPort, Post
    <3> QED BY <2>2, <3>1, <3>2 DEF IInv, TypeOK, fetch
  <2> QED BY <2>3, <2>4, <2>5 DEF IInv
<1>3. CASE HcLink \/ HcIdle
  <2>1. UNCHANGED <<driver, mailbox, cmdRing, handler, executed, post, lines, msi, answered>>
        /\ running' \in BOOLEAN /\ hcDeq' \in 0..Link /\ hcCcs' \in Bit
    <3>1. running \in BOOLEAN /\ hcDeq \in 0..Link /\ hcCcs \in {0, 1} /\ 0 \in 0..Link
      BY DEF IInv, TypeOK, Bit, Link
    <3>2. CASE HcLink BY <3>1, <3>2 DEF HcLink, Bit
    <3>3. CASE HcIdle BY <3>1, <3>3 DEF HcIdle, fetch, Bit
    <3> QED BY <1>3, <3>2, <3>3
  <2>2. TypeOK' BY <2>1 DEF IInv, TypeOK, post, lines
  <2>3. Rounds' BY <2>1 DEF IInv, Rounds, post
  <2>4. Order' BY <2>1 DEF IInv, Order, Gap, post, lines
  <2>5. FlagOrder' BY <2>1 DEF IInv, FlagOrder
  <2> QED BY <2>2, <2>3, <2>4, <2>5 DEF IInv
<1> QED BY <1>1, <1>2, <1>3 DEF Hc

----------------------------------------------------------------------------
(* The handler: it moves the entries the controller has written. *)
LEMMA DequeueStep == IInv /\ IsrDequeue => IInv'
<1> SUFFICES ASSUME IInv, IsrDequeue PROVE IInv'
  OBVIOUS
<1>1. eDeq \in 0..EventTrbs - 1 /\ hcEnq \in 0..EventTrbs - 1 /\ erdp \in 0..EventTrbs - 1
      /\ eRcs \in {0, 1} /\ hcPcs \in {0, 1} /\ posted \in Nat /\ seen \in Nat
  BY DEF IInv, TypeOK, Bit
<1>2. /\ eDeq' = NextEvent(eDeq) /\ eRcs' = (IF eDeq' = 0 THEN 1 - eRcs ELSE eRcs)
      /\ seen' = seen + 1 /\ events' = Append(events, eDeq)
      /\ UNCHANGED <<driver, mailbox, cmdRing, isr, found, fetch, post, lines, msi, answered>>
  BY DEF IsrDequeue
<1>3. eDeq' = IF eDeq = EventTrbs - 1 THEN 0 ELSE eDeq + 1
  BY <1>1, <1>2 DEF NextEvent
<1>4. seen < posted
  BY RingCounts DEF EventsCounted, IsrDequeue
<1>5. (posted - seen = Gap(eDeq, hcEnq)) /\ (Gap(erdp, eDeq) + Gap(eDeq, hcEnq) = Gap(erdp, hcEnq))
  BY DEF IInv, Order
<1>6. eDeq # hcEnq
  BY <1>1, <1>4, <1>5 DEF Gap
<1>7. Rounds'
  <2>1. (eRcs = hcPcs) <=> (eDeq <= hcEnq) BY DEF IInv, Rounds
  <2>2. (eRcs' = hcPcs) <=> (eDeq' <= hcEnq) BY <1>1, <1>2, <1>3, <1>6, <2>1
  <2>3. eRing' = eRing /\ hcEnq' = hcEnq /\ hcPcs' = hcPcs BY <1>2 DEF post
  <2> QED BY <2>2, <2>3 DEF IInv, Rounds
<1>8. Order'
  <2>1. Gap(eDeq', hcEnq) = Gap(eDeq, hcEnq) - 1
    BY <1>1, <1>3, <1>6 DEF Gap
  <2>2. Gap(erdp, eDeq') = Gap(erdp, eDeq) + 1
    BY <1>1, <1>3, <1>5, <1>6 DEF Gap
  <2>3. Gap(eDeq, hcEnq) \in Int /\ Gap(erdp, hcEnq) \in Int /\ Gap(erdp, eDeq) \in Int
    BY <1>1 DEF Gap
  <2>4. posted' = posted /\ erdp' = erdp /\ hcEnq' = hcEnq BY <1>2 DEF post, lines
  <2>5. Gap(erdp, eDeq)' = Gap(erdp, eDeq') /\ Gap(eDeq, hcEnq)' = Gap(eDeq', hcEnq)
        /\ Gap(erdp, hcEnq)' = Gap(erdp, hcEnq)
    BY <2>4 DEF Gap
  <2> QED BY <1>1, <1>2, <1>5, <2>1, <2>2, <2>3, <2>4, <2>5 DEF Order
<1>9. FlagOrder'
  BY <1>2 DEF IInv, FlagOrder, IsrDequeue, driver, mailbox
<1>10. TypeOK'
  <2>1. eDeq' \in 0..EventTrbs - 1 BY <1>1, <1>2, NextEventType
  <2>2. eRcs' \in Bit /\ seen' \in Nat BY <1>1, <1>2 DEF Bit
  <2>3. eDeq \in Places BY <1>1 DEF Places
  <2>4. events' \in Seq(Places)
    <3>1. events \in Seq(Places) BY DEF IInv, TypeOK
    <3> QED BY <1>2, <2>3, <3>1
  <2>5. TypeOK BY DEF IInv
  <2>6. /\ UNCHANGED <<pc, sent, late, taken, completions, flag, cRing, cEnq, cRcs>>
        /\ UNCHANGED <<isr, found, running, hcDeq, hcCcs, executed>>
        /\ UNCHANGED <<eRing, hcEnq, hcPcs, posted, ports, overwritten>>
        /\ UNCHANGED <<erdp, ehb, ip, irr, msi, answered>>
    BY <1>2 DEF driver, mailbox, cmdRing, fetch, post, lines
  <2> QED BY SMTT(20), <2>1, <2>2, <2>4, <2>5, <2>6 DEF TypeOK
<1> QED BY <1>7, <1>8, <1>9, <1>10 DEF IInv

LEMMA IsrStep == IInv /\ Isr => IInv'
<1> SUFFICES ASSUME IInv, Isr PROVE IInv'
  OBVIOUS
<1>1. CASE IsrEnter
  <2>1. UNCHANGED <<driver, mailbox, cmdRing, eDeq, eRcs, seen, fetch, post, erdp, ehb, ip, msi, answered>>
        /\ irr' \in BOOLEAN /\ isr' \in {"dequeue", "process"} /\ events' = <<>> /\ found' = 0
    BY <1>1 DEF IsrEnter
  <2>2. TypeOK'
    <3>1. events' \in Seq(Places) /\ found' \in Bit BY <2>1 DEF Bit
    <3>2. TypeOK BY DEF IInv
    <3>3. /\ UNCHANGED <<pc, sent, late, taken, completions, flag, cRing, cEnq, cRcs>>
          /\ UNCHANGED <<eDeq, eRcs, seen, running, hcDeq, hcCcs, executed>>
          /\ UNCHANGED <<eRing, hcEnq, hcPcs, posted, ports, overwritten>>
          /\ UNCHANGED <<erdp, ehb, ip, msi, answered>>
      BY <2>1 DEF driver, mailbox, cmdRing, fetch, post
    <3> QED BY SMTT(20), <2>1, <3>1, <3>2, <3>3 DEF TypeOK
  <2>3. Rounds' /\ Order' BY <2>1 DEF IInv, Rounds, Order, Gap, post
  <2>4. FlagOrder' BY <2>1 DEF IInv, FlagOrder, driver, mailbox
  <2> QED BY <2>2, <2>3, <2>4 DEF IInv
<1>2. CASE IsrDequeue BY <1>2, DequeueStep
<1>3. CASE IsrUpdateErdp
  <2>1. UNCHANGED <<driver, mailbox, cmdRing, events, found, eDeq, eRcs, seen, fetch, post, ehb, ip, irr, msi, answered>>
        /\ erdp' = eDeq /\ isr = "dequeue" /\ isr' = "ehb"
    BY <1>3 DEF IsrUpdateErdp
  <2>2. TypeOK' BY <2>1 DEF IInv, TypeOK, driver, mailbox, cmdRing, fetch, post
  <2>3. Rounds' BY <2>1 DEF IInv, Rounds, post
  <2>4. Order'
    <3>1. eDeq \in 0..EventTrbs - 1 /\ hcEnq \in 0..EventTrbs - 1 BY DEF IInv, TypeOK
    <3>2. Gap(eDeq, eDeq) + Gap(eDeq, hcEnq) = Gap(eDeq, hcEnq) BY <3>1 DEF Gap
    <3>3. posted - seen = Gap(eDeq, hcEnq) BY DEF IInv, Order
    <3> QED BY <2>1, <3>2, <3>3 DEF Order, Gap, post
  <2>5. FlagOrder' BY <2>1 DEF IInv, FlagOrder, driver, mailbox
  <2> QED BY <2>2, <2>3, <2>4, <2>5 DEF IInv
<1>4. CASE IsrClearBusy \/ IsrAcknowledge
  <2>1. UNCHANGED <<driver, mailbox, cmdRing, events, found, eDeq, eRcs, seen, fetch, post, erdp, msi, answered>>
        /\ ehb' \in BOOLEAN /\ ip' \in BOOLEAN /\ irr' \in BOOLEAN
        /\ ((isr = "ehb" /\ isr' = "process") \/ isr' = "out")
    <3>1. ehb \in BOOLEAN /\ ip \in BOOLEAN /\ irr \in BOOLEAN /\ msi \in BOOLEAN
      BY DEF IInv, TypeOK
    <3>2. CASE IsrClearBusy BY <3>1, <3>2 DEF IsrClearBusy, Raise
    <3>3. CASE IsrAcknowledge BY <3>1, <3>3 DEF IsrAcknowledge
    <3> QED BY <1>4, <3>2, <3>3
  <2>2. TypeOK' BY <2>1 DEF IInv, TypeOK, driver, mailbox, cmdRing, fetch, post
  <2>3. Rounds' /\ Order' BY <2>1 DEF IInv, Rounds, Order, Gap, post
  <2>4. FlagOrder' BY <2>1 DEF IInv, FlagOrder, driver, mailbox
  <2> QED BY <2>2, <2>3, <2>4 DEF IInv
<1>5. CASE IsrProcess
  <2>1. UNCHANGED <<driver, flag, cmdRing, isr, eDeq, eRcs, seen, fetch, post, lines, msi, answered>>
        /\ events' = Tail(events) /\ events # <<>> /\ events \in Seq(Places)
    BY <1>5 DEF IsrProcess, IInv, TypeOK
  <2>2. Head(events) \in Places /\ events' \in Seq(Places) BY <2>1
  <2>3. \/ UNCHANGED <<completions, found>>
        \/ completions' = Append(completions, Head(events)) /\ found' = 1
    BY <1>5 DEF IsrProcess
  <2>4. completions \in Seq(Places) /\ found \in Bit BY DEF IInv, TypeOK
  <2>5. completions' \in Seq(Places) /\ found' \in Bit
    <3>1. 1 \in Bit BY DEF Bit
    <3>2. Append(completions, Head(events)) \in Seq(Places) BY <2>2, <2>4
    <3> QED BY <2>3, <2>4, <3>1, <3>2
  <2>6. completions # <<>> => completions' # <<>> BY <2>2, <2>3, <2>4
  <2>7. found' = 1 => (found = 1 \/ completions' # <<>>) BY <2>2, <2>3, <2>4
  <2>8. TypeOK'
    BY <2>1, <2>2, <2>5 DEF IInv, TypeOK, driver, cmdRing, fetch, post, lines
  <2>9. Rounds' /\ Order' BY <2>1 DEF IInv, Rounds, Order, Gap, post, lines
  <2>10. isr = "process" BY <1>5 DEF IsrProcess
  <2>11. FlagOrder' BY <2>1, <2>6, <2>7, <2>10 DEF IInv, FlagOrder, driver
  <2> QED BY <2>8, <2>9, <2>11 DEF IInv
<1>6. CASE IsrSetFlag
  <2>1. UNCHANGED <<driver, completions, cmdRing, events, found, eDeq, eRcs, seen, fetch, post, lines, msi, answered>>
        /\ flag' = found /\ isr = "process" /\ isr' = "acknowledge"
    BY <1>6 DEF IsrSetFlag
  <2>2. TypeOK' BY <2>1 DEF IInv, TypeOK, Bit, driver, cmdRing, fetch, post, lines
  <2>3. Rounds' /\ Order' BY <2>1 DEF IInv, Rounds, Order, Gap, post, lines
  <2>4. FlagOrder' BY <2>1 DEF IInv, FlagOrder, driver
  <2> QED BY <2>2, <2>3, <2>4 DEF IInv
<1> QED BY <1>1, <1>2, <1>3, <1>4, <1>5, <1>6 DEF Isr

----------------------------------------------------------------------------
(* The driver: it clears the completions before it resets the flag. *)
LEMMA DriverStep == IInv /\ Driver => IInv'
<1> SUFFICES ASSUME IInv, Driver PROVE IInv'
  OBVIOUS
<1>1. UNCHANGED <<handler, hcDeq, hcCcs, executed, post, lines, msi>> /\ isr = "out"
  BY DEF Driver, Send, RingDoorbell, Completed, Timeout, Take, Clear, Reset, Examine, fetch
<1>2. Rounds' /\ Order'
  BY <1>1 DEF IInv, Rounds, Order, Gap, handler, post, lines
<1>3. FlagOrder' /\ TypeOK'
  <2>1. CASE Send
    <3>1. cEnq \in 0..Link - 1 /\ cRcs \in {0, 1} /\ sent \in 0..MaxCommands
          /\ cRing \in [0..Link -> [cmd : 0..MaxCommands, cycle : Bit]]
      BY DEF IInv, TypeOK, Bit
    <3>2. cEnq' \in 0..Link - 1 BY <2>1, <3>1 DEF Send, Enqueue, NextCommand, Link
    <3>3. cRcs' \in Bit BY <2>1, <3>1 DEF Send, Enqueue, Bit
    <3>4. sent' \in 0..MaxCommands /\ sent + 1 \in 0..MaxCommands BY <2>1, <3>1 DEF Send
    <3>5. cRing' \in [0..Link -> [cmd : 0..MaxCommands, cycle : Bit]]
      BY <2>1, <3>1, <3>4 DEF Send, Enqueue, Bit
    <3>6. UNCHANGED <<late, taken, mailbox, running, answered>> /\ pc = "idle" /\ pc' = "doorbell"
      BY <2>1 DEF Send, fetch
    <3>7. TypeOK'
      BY <1>1, <3>2, <3>3, <3>4, <3>5, <3>6 DEF IInv, TypeOK, mailbox, handler, post, lines
    <3>8. FlagOrder' BY <1>1, <3>6 DEF IInv, FlagOrder, mailbox, handler
    <3> QED BY <3>7, <3>8
  <2>2. CASE RingDoorbell \/ Completed \/ Timeout
    <3>1. UNCHANGED <<sent, taken, mailbox, cmdRing, answered>> /\ running' \in BOOLEAN
          /\ pc # "reset" /\ pc' \in {"wait", "take"}
      BY <2>2 DEF RingDoorbell, Completed, Timeout, IInv, TypeOK, fetch
    <3>2. late' \in BOOLEAN
      BY <2>2 DEF RingDoorbell, Completed, Timeout, IInv, TypeOK
    <3>3. TypeOK' BY <1>1, <3>1, <3>2 DEF IInv, TypeOK, mailbox, cmdRing, handler, post, lines
    <3>4. FlagOrder' BY <1>1, <3>1 DEF IInv, FlagOrder, mailbox, handler
    <3> QED BY <3>3, <3>4
  <2>3. CASE Take
    <3>1. UNCHANGED <<sent, late, mailbox, cmdRing, fetch, answered>> /\ pc = "take" /\ pc' = "clear"
      BY <2>3 DEF Take
    <3>2. taken' \in Seq(Places) /\ Len(taken') <= 1
      <4>1. completions \in Seq(Places) BY DEF IInv, TypeOK
      <4>2. CASE completions # <<>>
        <5>1. Head(completions) \in Places BY <4>1, <4>2
        <5> QED BY <2>3, <4>2, <5>1 DEF Take
      <4>3. CASE completions = <<>> BY <2>3, <4>3 DEF Take
      <4> QED BY <4>2, <4>3
    <3>3. TypeOK' BY <1>1, <3>1, <3>2 DEF IInv, TypeOK, mailbox, cmdRing, handler, fetch, post, lines
    <3>4. FlagOrder' BY <1>1, <3>1 DEF IInv, FlagOrder, mailbox, handler
    <3> QED BY <3>3, <3>4
  <2>4. CASE Clear \/ Reset
    <3>1. UNCHANGED <<sent, late, taken, cmdRing, fetch, answered>> /\ pc' \in {"reset", "examine"}
          /\ (pc' = "reset" \/ flag' = 0) /\ flag' \in Bit
      BY <2>4 DEF Clear, Reset, IInv, TypeOK, Bit
    <3>2. completions' \in Seq(Places)
      <4>1. completions \in Seq(Places) BY DEF IInv, TypeOK
      <4>2. completions' = <<>> \/ completions' = completions BY <2>4 DEF Clear, Reset
      <4>3. <<>> \in Seq(Places) OBVIOUS
      <4> QED BY <4>1, <4>2, <4>3
    <3>3. TypeOK' BY <1>1, <3>1, <3>2 DEF IInv, TypeOK, cmdRing, handler, fetch, post, lines
    <3>4. FlagOrder' BY <1>1, <3>1 DEF FlagOrder, handler
    <3> QED BY <3>3, <3>4
  <2>5. CASE Examine
    <3>1. UNCHANGED <<sent, late, mailbox, cmdRing, fetch>> /\ pc = "examine" /\ pc' = "idle" /\ taken' = <<>>
      BY <2>5 DEF Examine
    <3>2. taken' \in Seq(Places) /\ Len(taken') <= 1 BY <3>1
    <3>3. answered' \in 0..MaxCommands
      <4>1. answered \in 0..MaxCommands /\ taken \in Seq(Places)
            /\ eRing \in [0..EventTrbs - 1 -> [cmd : 0..MaxCommands, cycle : Bit]]
        BY DEF IInv, TypeOK
      <4>2. CASE taken # <<>>
        <5>1. taken[1] \in Places BY <4>1, <4>2
        <5>2. eRing[taken[1]].cmd \in 0..MaxCommands BY <4>1, <5>1 DEF Places
        <5> QED BY <2>5, <4>1, <5>2 DEF Examine
      <4>3. CASE taken = <<>> BY <2>5, <4>1, <4>3 DEF Examine
      <4> QED BY <4>2, <4>3
    <3>4. TypeOK' BY <1>1, <3>1, <3>2, <3>3 DEF IInv, TypeOK, mailbox, cmdRing, handler, fetch, post, lines
    <3>5. FlagOrder' BY <1>1, <3>1 DEF IInv, FlagOrder, mailbox, handler
    <3> QED BY <3>4, <3>5
  <2> QED BY <2>1, <2>2, <2>3, <2>4, <2>5 DEF Driver
<1> QED BY <1>2, <1>3 DEF IInv

LEMMA StutterStep == IInv /\ UNCHANGED vars => IInv'
  BY DEF IInv, TypeOK, Rounds, Order, Gap, FlagOrder, vars, driver, mailbox, cmdRing, handler,
         fetch, post, lines

THEOREM Inductive == Spec => []IInv
<1>1. IInv /\ [Next]_vars => IInv'
  BY HcStep, IsrStep, DriverStep, StutterStep DEF Next
<1> QED BY <1>1, InitIInv, PTL DEF Spec

(* The types of the driver, its handler and the controller.                *)
THEOREM TypeInvariant == Spec => []TypeOK
<1>1. IInv => TypeOK BY DEF IInv
<1> QED BY <1>1, Inductive, PTL

(* has_unprocessed_events tells the truth for every ring size, through any *)
(* number of turns of the ring, while the controller writes beside it.     *)
THEOREM EventsCountedTheorem == Spec => []EventsCounted
<1> QED BY RingCounts, Inductive, PTL

(* A wait that ends by the flag finds a completion, whatever interrupts    *)
(* come between the steps of the call before.                              *)
THEOREM FlagHasCompletionTheorem == Spec => []FlagHasCompletion
<1>1. IInv => FlagHasCompletion BY DEF IInv, FlagOrder, FlagHasCompletion
<1> QED BY <1>1, Inductive, PTL

----------------------------------------------------------------------------
(***************************************************************************)
(* The command ring.  The controller's place and round are taken behind    *)
(* the link when it stands on the link, which it follows before anything   *)
(* else.  What is under way lies between its place and the driver's; the   *)
(* link has the bit of the round that is over, or of the first.            *)
(***************************************************************************)
Start == IF hcDeq = Link THEN 0 ELSE hcDeq
Round == IF hcDeq = Link THEN 1 - hcCcs ELSE hcCcs
Ahead(a, b) == IF a <= b THEN b - a ELSE b - a + Link
UnderWay == sent - executed

Laps ==
    /\ UnderWay = Ahead(Start, cEnq) /\ UnderWay < Link
    /\ (Round = cRcs) <=> (Start <= cEnq)

Slots ==
    \A i \in 0..Link - 1 :
        /\ cRing[i].cycle = IF i < cEnq THEN cRcs ELSE 1 - cRcs
        /\ Ahead(Start, i) < UnderWay => cRing[i].cmd = executed + 1 + Ahead(Start, i)

LinkBit ==
    /\ Round # cRcs => cRing[Link].cycle = 1 - cRcs
    /\ hcDeq = Link => cRing[Link].cycle = hcCcs

Told == ~running /\ pc # "doorbell" => executed = sent

CmdInv == Laps /\ Slots /\ LinkBit /\ Told

CmdTypes ==
    /\ Link \in Nat \ {0} /\ hcDeq \in 0..Link /\ cEnq \in 0..Link - 1
    /\ hcCcs \in {0, 1} /\ cRcs \in {0, 1}
    /\ sent \in Nat /\ executed \in Nat
    /\ cRing \in [0..Link -> [cmd : 0..MaxCommands, cycle : {0, 1}]]

LEMMA CmdTypesHold == IInv => CmdTypes
  BY DEF IInv, TypeOK, CmdTypes, Link, Bit

(* What the cycle bits say: the controller finds a command exactly when    *)
(* there is one, and it is the next.                                       *)
LEMMA FetchesNext ==
    ASSUME CmdTypes, CmdInv
    PROVE  /\ hcDeq # Link => (cRing[hcDeq].cycle = hcCcs <=> executed < sent)
           /\ hcDeq # Link /\ executed < sent => cRing[hcDeq].cmd = executed + 1
           /\ hcDeq = Link => cRing[hcDeq].cycle = hcCcs
           /\ executed <= sent
<1> USE DEF CmdTypes
<1>1. UnderWay = Ahead(Start, cEnq) /\ ((Round = cRcs) <=> (Start <= cEnq))
  BY DEF CmdInv, Laps
<1>2. executed <= sent
  BY <1>1 DEF UnderWay, Ahead, Start
<1>3. ASSUME hcDeq # Link
      PROVE  /\ cRing[hcDeq].cycle = hcCcs <=> executed < sent
             /\ executed < sent => cRing[hcDeq].cmd = executed + 1
  <2>1. hcDeq \in 0..Link - 1 /\ Start = hcDeq /\ Round = hcCcs
    BY <1>3 DEF Start, Round
  <2>2. cRing[hcDeq].cycle = IF hcDeq < cEnq THEN cRcs ELSE 1 - cRcs
    BY <2>1 DEF CmdInv, Slots
  <2>3. Ahead(Start, hcDeq) < UnderWay => cRing[hcDeq].cmd = executed + 1 + Ahead(Start, hcDeq)
    BY <2>1 DEF CmdInv, Slots
  <2>4. Ahead(Start, hcDeq) = 0
    BY <2>1 DEF Ahead
  <2>5. executed < sent <=> ~(Round = cRcs /\ hcDeq = cEnq)
    BY <1>1, <2>1 DEF UnderWay, Ahead
  <2> QED BY <1>1, <2>1, <2>2, <2>3, <2>4, <2>5 DEF UnderWay
<1>4. hcDeq = Link => cRing[hcDeq].cycle = hcCcs
  BY DEF CmdInv, LinkBit
<1> QED BY <1>2, <1>3, <1>4

LEMMA InitCmdInv == Init => CmdInv
<1> SUFFICES ASSUME Init PROVE CmdInv
  OBVIOUS
<1>1. Link \in Nat \ {0} BY DEF Link
<1>2. Start = 0 /\ Round = 1 /\ UnderWay = 0
  BY <1>1 DEF Init, Start, Round, UnderWay
<1>3. Laps /\ LinkBit /\ Told
  BY <1>1, <1>2 DEF Init, Laps, LinkBit, Told, Ahead
<1>4. Slots
  BY <1>1, <1>2 DEF Init, Slots, Ahead
<1> QED BY <1>3, <1>4 DEF CmdInv

(* The controller takes a command: its place moves on, to the link or      *)
(* behind it in what it counts as its round.                               *)
LEMMA ExecuteCmd == IInv /\ CmdInv /\ HcExecute => CmdInv'
<1> SUFFICES ASSUME IInv, CmdInv, HcExecute PROVE CmdInv'
  OBVIOUS
<1>1. CmdTypes BY CmdTypesHold
<1> USE DEF CmdTypes
<1>2. /\ hcDeq # Link /\ hcDeq' = hcDeq + 1 /\ running /\ cRing[hcDeq].cycle = hcCcs
      /\ executed' = cRing[hcDeq].cmd
      /\ UNCHANGED <<sent, pc, cRing, cEnq, cRcs, hcCcs, running>>
  BY DEF HcExecute, Valid, Post, driver, cmdRing
<1>3. executed < sent /\ executed' = executed + 1
  BY <1>1, <1>2, FetchesNext
<1>4. /\ UnderWay = Ahead(Start, cEnq) /\ UnderWay < Link /\ ((Round = cRcs) <=> (Start <= cEnq))
      /\ Start = hcDeq /\ Round = hcCcs /\ hcDeq \in 0..Link - 1
  BY <1>1, <1>2 DEF CmdInv, Laps, Start, Round
<1>5. /\ Start' = IF hcDeq + 1 = Link THEN 0 ELSE hcDeq + 1
      /\ Round' = IF hcDeq + 1 = Link THEN 1 - hcCcs ELSE hcCcs
      /\ UnderWay' = UnderWay - 1
  BY <1>1, <1>2, <1>3 DEF Start, Round, UnderWay, Link
<1>6. ASSUME NEW i \in 0..Link - 1, i # hcDeq
      PROVE  Ahead(Start, i) = Ahead(Start', i) + 1
  BY <1>1, <1>4, <1>5, <1>6 DEF Ahead
<1>7. Ahead(Start', hcDeq) = Link - 1
  BY <1>1, <1>4, <1>5 DEF Ahead
<1>8. (Round = cRcs /\ hcDeq = cEnq) <=> UnderWay = 0
  BY <1>1, <1>4 DEF Ahead
<1>9. UnderWay > 0 BY <1>1, <1>3 DEF UnderWay
<1>10. hcDeq # cEnq
  BY <1>1, <1>4, <1>8, <1>9
<1>11. Laps'
  <2>1. Ahead(Start', cEnq) = UnderWay - 1
    <3>1. Ahead(Start, cEnq) = Ahead(Start', cEnq) + 1 BY <1>1, <1>6, <1>10
    <3>2. Ahead(Start', cEnq) \in Int BY <1>1, <1>4, <1>5 DEF Ahead
    <3> QED BY <1>4, <3>1, <3>2
  <2>2. (Round' = cRcs) <=> (Start' <= cEnq)
    BY <1>1, <1>4, <1>5, <1>10
  <2>3. UnderWay \in Int BY <1>1 DEF UnderWay
  <2>4. Ahead(Start, cEnq)' = Ahead(Start', cEnq) BY <1>2 DEF Ahead, Link
  <2> QED BY <1>1, <1>2, <1>4, <1>5, <2>1, <2>2, <2>3, <2>4 DEF Laps, Link
<1>12. Slots'
  <2> SUFFICES ASSUME NEW i \in 0..Link - 1
               PROVE  /\ cRing[i].cycle = IF i < cEnq THEN cRcs ELSE 1 - cRcs
                      /\ Ahead(Start', i) < UnderWay' =>
                            cRing[i].cmd = executed' + 1 + Ahead(Start', i)
    BY <1>2 DEF Slots, Ahead, Link
  <2>1. /\ cRing[i].cycle = IF i < cEnq THEN cRcs ELSE 1 - cRcs
        /\ Ahead(Start, i) < UnderWay => cRing[i].cmd = executed + 1 + Ahead(Start, i)
    BY DEF CmdInv, Slots
  <2>2. Ahead(Start', i) \in Int /\ UnderWay \in Int
    BY <1>1, <1>5 DEF Ahead, UnderWay
  <2>3. CASE i = hcDeq BY <1>1, <1>4, <1>5, <1>7, <2>1, <2>2, <2>3
  <2>4. CASE i # hcDeq
    <3>1. Ahead(Start, i) = Ahead(Start', i) + 1 BY <1>6, <2>4
    <3> QED BY <1>1, <1>3, <1>5, <2>1, <2>2, <3>1
  <2> QED BY <2>3, <2>4
<1>13. LinkBit'
  <2>1. Round # cRcs => cRing[Link].cycle = 1 - cRcs
    BY DEF CmdInv, LinkBit
  <2>2. CASE hcDeq + 1 = Link
    <3>1. Round # cRcs BY <1>1, <1>4, <1>10, <2>2
    <3> QED BY <1>1, <1>2, <1>4, <1>5, <2>1, <2>2, <3>1 DEF LinkBit, Link
  <2>3. CASE hcDeq + 1 # Link
    BY <1>1, <1>2, <1>4, <1>5, <2>1, <2>3 DEF LinkBit, Link
  <2> QED BY <2>2, <2>3
<1>14. Told' BY <1>2 DEF Told
<1> QED BY <1>11, <1>12, <1>13, <1>14 DEF CmdInv

(* The driver writes a command behind the last one; where that is the end  *)
(* of the ring the link gets the bit of the round that ends.               *)
LEMMA SendCmd == IInv /\ CmdInv /\ Send => CmdInv'
<1> SUFFICES ASSUME IInv, CmdInv, Send PROVE CmdInv'
  OBVIOUS
<1>1. CmdTypes BY CmdTypesHold
<1> USE DEF CmdTypes
<1>2. /\ cEnq' = (IF cEnq + 1 = Link THEN 0 ELSE cEnq + 1)
      /\ cRcs' = (IF cEnq' = 0 THEN 1 - cRcs ELSE cRcs)
      /\ cRing' = [i \in 0..Link |->
                     IF i = cEnq THEN [cmd |-> sent + 1, cycle |-> cRcs]
                     ELSE IF i = Link /\ cEnq' = 0 THEN [cRing[i] EXCEPT !.cycle = cRcs]
                     ELSE cRing[i]]
      /\ sent' = sent + 1 /\ pc' = "doorbell" /\ UnderWay < Link - 1
      /\ UNCHANGED <<hcDeq, hcCcs, executed, running>>
  BY DEF Send, Enqueue, NextCommand, Room, UnderWay, fetch
<1>3. /\ UnderWay = Ahead(Start, cEnq) /\ ((Round = cRcs) <=> (Start <= cEnq))
      /\ Start \in 0..Link - 1 /\ Round \in {0, 1} /\ UnderWay \in Int
  BY <1>1 DEF CmdInv, Laps, Start, Round, UnderWay
<1>4. Start' = Start /\ Round' = Round /\ UnderWay' = UnderWay + 1
  BY <1>1, <1>2 DEF Start, Round, UnderWay, Link
<1>5. cRing'[cEnq] = [cmd |-> sent + 1, cycle |-> cRcs]
  BY <1>1, <1>2
<1>6. ASSUME NEW i \in 0..Link - 1, i # cEnq
      PROVE  cRing'[i] = cRing[i]
  BY <1>1, <1>2, <1>6
<1>7. cRing'[Link].cycle = IF cEnq' = 0 THEN cRcs ELSE cRing[Link].cycle
  BY <1>1, <1>2
<1>8. cEnq' # Start
  <2>1. cEnq' = (IF cEnq + 1 = Link THEN 0 ELSE cEnq + 1) BY <1>2
  <2>2. cEnq \in 0..Link - 1 /\ Link \in Nat BY <1>1
  <2>3. Ahead(Start, cEnq) < Link - 1 BY <1>2, <1>3
  <2> QED BY <1>3, <2>1, <2>2, <2>3 DEF Ahead
<1>9. Laps'
  <2>1. Ahead(Start, cEnq') = UnderWay + 1
    <3>1. cEnq' = (IF cEnq + 1 = Link THEN 0 ELSE cEnq + 1) BY <1>2
    <3>2. cEnq \in 0..Link - 1 /\ Link \in Nat BY <1>1
    <3> HIDE DEF CmdTypes
    <3> QED BY <1>3, <1>8, <3>1, <3>2 DEF Ahead
  <2>2. (Round = cRcs') <=> (Start <= cEnq')
    BY <1>1, <1>2, <1>3, <1>8
  <2>3. Ahead(Start, cEnq)' = Ahead(Start, cEnq') BY <1>4 DEF Ahead, Link
  <2> QED BY <1>1, <1>2, <1>3, <1>4, <2>1, <2>2, <2>3 DEF Laps, Link
<1>10. Slots'
  <2> SUFFICES ASSUME NEW i \in 0..Link - 1
               PROVE  /\ cRing'[i].cycle = IF i < cEnq' THEN cRcs' ELSE 1 - cRcs'
                      /\ Ahead(Start, i) < UnderWay + 1 =>
                            cRing'[i].cmd = executed + 1 + Ahead(Start, i)
    BY <1>2, <1>4 DEF Slots, Ahead, Link
  <2>1. /\ cRing[i].cycle = IF i < cEnq THEN cRcs ELSE 1 - cRcs
        /\ Ahead(Start, i) < UnderWay => cRing[i].cmd = executed + 1 + Ahead(Start, i)
    BY DEF CmdInv, Slots
  <2>2. CASE i = cEnq
    <3>1. cRing'[i].cmd = sent + 1 /\ cRing'[i].cycle = cRcs BY <1>5, <2>2
    <3>2. cRcs = IF i < cEnq' THEN cRcs' ELSE 1 - cRcs' BY <1>1, <1>2, <2>2
    <3>3. sent + 1 = executed + 1 + UnderWay BY <1>1 DEF UnderWay
    <3> QED BY <1>3, <2>2, <3>1, <3>2, <3>3
  <2>3. CASE i # cEnq
    <3>1. cRing'[i] = cRing[i] BY <1>6, <2>3
    <3>2. (IF i < cEnq THEN cRcs ELSE 1 - cRcs) = IF i < cEnq' THEN cRcs' ELSE 1 - cRcs'
      BY <1>1, <1>2, <2>3
    <3>3. Ahead(Start, i) # Ahead(Start, cEnq) BY <1>1, <1>3, <2>3 DEF Ahead
    <3>4. Ahead(Start, i) \in Int BY <1>1, <1>3 DEF Ahead
    <3> QED BY <1>3, <2>1, <3>1, <3>2, <3>3, <3>4
  <2> QED BY <2>2, <2>3
<1>11. LinkBit'
  <2>1. (Round # cRcs => cRing[Link].cycle = 1 - cRcs) /\ (hcDeq = Link => cRing[Link].cycle = hcCcs)
    BY DEF CmdInv, LinkBit
  <2>2. CASE cEnq' = 0
    <3>1. hcDeq # Link
      <4> SUFFICES ASSUME hcDeq = Link PROVE FALSE OBVIOUS
      <4>1. cEnq = Link - 1 BY <1>1, <1>2, <2>2
      <4>2. Start = 0 BY DEF Start
      <4> QED BY <1>1, <1>2, <1>3, <4>1, <4>2 DEF Ahead
    <3> QED BY <1>1, <1>2, <1>7, <2>2, <3>1 DEF LinkBit, Link
  <2>3. CASE cEnq' # 0 BY <1>2, <1>4, <1>7, <2>1, <2>3 DEF LinkBit, Link
  <2> QED BY <2>2, <2>3
<1>12. Told' BY <1>2 DEF Told
<1> QED BY <1>9, <1>10, <1>11, <1>12 DEF CmdInv

(* The link leaves the controller where it is counted already; it stops    *)
(* only with nothing to do, and is told of every command afterwards.       *)
LEMMA OtherCmd ==
    ASSUME IInv, CmdInv, Next \/ UNCHANGED vars, ~HcExecute, ~Send
    PROVE  CmdInv'
<1>1. CmdTypes BY CmdTypesHold
<1> USE DEF CmdTypes
<1>2. UNCHANGED <<sent, executed, cRing, cEnq, cRcs>>
  BY DEF Next, Hc, Isr, Driver, HcLink, HcIdle, HcPort, Post, IsrEnter, IsrDequeue, IsrUpdateErdp,
         IsrClearBusy, IsrProcess, IsrSetFlag, IsrAcknowledge, RingDoorbell, Completed, Timeout,
         Take, Clear, Reset, Examine, vars, driver, cmdRing, fetch
<1>3. UNCHANGED <<Start, Round>> /\ (hcDeq' = Link => hcDeq = Link /\ hcCcs' = hcCcs)
  <2>1. CASE HcLink
    <3>1. hcDeq = Link /\ hcDeq' = 0 /\ hcCcs' = 1 - hcCcs BY <2>1 DEF HcLink
    <3> QED BY <1>1, <3>1 DEF Start, Round, Link
  <2>2. CASE ~HcLink
    <3>1. UNCHANGED <<hcDeq, hcCcs>>
      BY <2>2 DEF Next, Hc, Isr, Driver, HcIdle, HcPort, IsrEnter, IsrDequeue, IsrUpdateErdp,
             IsrClearBusy, IsrProcess, IsrSetFlag, IsrAcknowledge, RingDoorbell, Completed, Timeout,
             Take, Clear, Reset, Examine, vars, fetch
    <3> QED BY <3>1 DEF Start, Round, Link
  <2> QED BY <2>1, <2>2
<1>4. Laps' BY <1>2, <1>3 DEF CmdInv, Laps, UnderWay, Ahead, Link
<1>5. Slots' BY <1>2, <1>3 DEF CmdInv, Slots, UnderWay, Ahead, Link
<1>6. LinkBit' BY <1>2, <1>3 DEF CmdInv, LinkBit, Link
<1>7. Told'
  <2>1. CASE HcIdle
    <3>1. running /\ cRing[hcDeq].cycle # hcCcs BY <2>1 DEF HcIdle, Valid
    <3>2. executed = sent BY <1>1, <3>1, FetchesNext
    <3> QED BY <1>2, <3>2 DEF Told
  <2>2. CASE ~HcIdle
    <3>1. (running' = running /\ (pc = "doorbell" => pc' = "doorbell")) \/ running' = TRUE
      BY <2>2 DEF Next, Hc, Isr, Driver, HcLink, HcPort, Post, IsrEnter, IsrDequeue, IsrUpdateErdp,
             IsrClearBusy, IsrProcess, IsrSetFlag, IsrAcknowledge, RingDoorbell, Completed, Timeout,
             Take, Clear, Reset, Examine, vars, fetch, driver
    <3> QED BY <1>2, <3>1 DEF CmdInv, Told
  <2> QED BY <2>1, <2>2
<1> QED BY <1>4, <1>5, <1>6, <1>7 DEF CmdInv

LEMMA InductiveCmd == Spec => []CmdInv
<1>1. IInv /\ CmdInv /\ [Next]_vars => CmdInv'
  BY ExecuteCmd, SendCmd, OtherCmd
<1> QED BY <1>1, InitCmdInv, Inductive, PTL DEF Spec

(* The controller runs the commands in the order they were sent, each      *)
(* once, and stops only when it has run all it was told of, for every size *)
(* of the ring and however often it has turned over.                       *)
THEOREM CommandsInOrderTheorem == Spec => []CommandsInOrder
<1>1. IInv /\ CmdInv => CommandsInOrder
  <2> SUFFICES ASSUME IInv, CmdInv PROVE CommandsInOrder
    OBVIOUS
  <2>1. CmdTypes BY CmdTypesHold
  <2> QED BY <2>1, FetchesNext DEF CommandsInOrder, Valid, CmdInv, Told, CmdTypes
<1> QED BY <1>1, Inductive, InductiveCmd, PTL

----------------------------------------------------------------------------
(***************************************************************************)
(* Completions.  What is on its way to the driver, in the list, with the   *)
(* handler or in the ring, is in the order of the commands, none twice,    *)
(* and later than what a call has read.  As long as no call has given up   *)
(* there is nothing on its way between calls, and during a call only its   *)
(* own completion.  All of it holds while no pointer has been overwritten. *)
(***************************************************************************)
Cmd(t) == eRing[t].cmd
Before(a, b) == Cmd(a) # 0 /\ Cmd(b) # 0 => Cmd(a) < Cmd(b)

Listed == {completions[i] : i \in DOMAIN completions}
Collected == {events[i] : i \in DOMAIN events}
Unread == {a \in Places : Gap(eDeq, a) < posted - seen}
Pending == Listed \cup Collected \cup Unread

Ordered ==
    /\ \A a \in Listed : Cmd(a) # 0 /\ \A b \in Collected \cup Unread : Before(a, b)
    /\ \A i, j \in DOMAIN events : i < j => Before(events[i], events[j])
    /\ \A a \in Collected, b \in Unread : Before(a, b)
    /\ \A a, b \in Unread : Gap(eDeq, a) < Gap(eDeq, b) => Before(a, b)

Fresh == \A a \in Pending : Cmd(a) # 0 => answered < Cmd(a) /\ Cmd(a) <= executed

Reading == pc \in {"reset", "examine"}
TakenFirst ==
    Reading /\ taken # <<>> =>
        /\ answered < Cmd(taken[1]) /\ Cmd(taken[1]) <= executed
        /\ \A a \in Pending : Before(taken[1], a)

Calling == pc \in {"doorbell", "wait", "take", "clear"}
NoneElse ==
    ~late => /\ ~Calling => executed = sent /\ \A a \in Pending : Cmd(a) = 0
             /\ Calling => sent - 1 <= executed /\ \A a \in Pending : Cmd(a) # 0 => Cmd(a) = sent
             /\ Reading => Cmd(taken[1]) = sent

Mail ==
    /\ pc = "take" => late \/ completions # <<>>
    /\ pc = "clear" \/ Reading => late \/ taken # <<>>
    /\ pc = "clear" /\ taken # <<>> => completions # <<>> /\ taken[1] = completions[1]
    /\ pc # "clear" /\ ~Reading => taken = <<>>

OwnInv ==
    /\ answered <= executed /\ Mail
    /\ ~overwritten => Ordered /\ Fresh /\ TakenFirst /\ NoneElse

EventTypes ==
    /\ EventTrbs \in Nat \ {0, 1} /\ Places = 0..EventTrbs - 1
    /\ eDeq \in Places /\ hcEnq \in Places /\ posted \in Nat /\ seen \in Nat
    /\ eRing \in [Places -> [cmd : 0..MaxCommands, cycle : Bit]]
    /\ completions \in Seq(Places) /\ events \in Seq(Places) /\ taken \in Seq(Places)
    /\ answered \in Nat /\ executed \in Nat /\ sent \in Nat
    /\ posted - seen = Gap(eDeq, hcEnq)

LEMMA EventTypesHold == IInv => EventTypes
<1> SUFFICES ASSUME IInv PROVE EventTypes
  OBVIOUS
<1>1. TypeOK /\ posted - seen = Gap(eDeq, hcEnq)
  BY DEF IInv, Order
<1>2. /\ eDeq \in Places /\ hcEnq \in Places /\ posted \in Nat /\ seen \in Nat
      /\ eRing \in [Places -> [cmd : 0..MaxCommands, cycle : Bit]]
      /\ completions \in Seq(Places) /\ events \in Seq(Places) /\ taken \in Seq(Places)
  BY <1>1 DEF TypeOK, Places
<1>3. answered \in Nat /\ executed \in Nat /\ sent \in Nat
  BY <1>1 DEF TypeOK
<1>4. EventTrbs \in Nat \ {0, 1} /\ Places = 0..EventTrbs - 1
  BY DEF Places
<1> QED BY <1>1, <1>2, <1>3, <1>4 DEF EventTypes

LEMMA TakenPlace ==
    ASSUME EventTypes, taken # <<>>
    PROVE  taken[1] \in Places
<1>1. taken \in Seq(Places) BY DEF EventTypes
<1> QED BY <1>1

LEMMA PendingPlaces ==
    ASSUME EventTypes
    PROVE  /\ \A a \in Places : Cmd(a) \in Nat /\ Gap(eDeq, a) \in Nat
           /\ Listed \subseteq Places /\ Collected \subseteq Places /\ Unread \subseteq Places
<1>1. \A a \in Places : Cmd(a) \in Nat /\ Gap(eDeq, a) \in Nat
  BY DEF EventTypes, Cmd, Gap
<1>2. Listed \subseteq Places /\ Collected \subseteq Places
  <2>0. completions \in Seq(Places) /\ events \in Seq(Places) BY DEF EventTypes
  <2>1. \A i \in DOMAIN completions : completions[i] \in Places BY <2>0
  <2>2. \A i \in DOMAIN events : events[i] \in Places BY <2>0
  <2> QED BY <2>1, <2>2 DEF Listed, Collected
<1> QED BY <1>1, <1>2 DEF Unread

LEMMA InitOwnInv == Init => OwnInv
<1> SUFFICES ASSUME Init PROVE OwnInv
  OBVIOUS
<1>1. Listed = {} /\ Collected = {}
  BY DEF Init, Listed, Collected
<1>2. Unread = {}
  BY DEF Init, Unread, Gap, Places
<1>3. Pending = {} BY <1>1, <1>2 DEF Pending
<1>4. Ordered /\ Fresh /\ TakenFirst /\ NoneElse
  BY <1>1, <1>2, <1>3 DEF Init, Ordered, Fresh, TakenFirst, NoneElse, Reading, Calling
<1> QED BY <1>4 DEF Init, OwnInv, Mail, Reading

(* The controller answers the next command, or reports a port.             *)
LEMMA PostOwn ==
    ASSUME IInv, OwnInv, NEW command \in 0..MaxCommands, Post(command),
           (command = 0 /\ executed' = executed) \/ (command = executed + 1 /\ executed' = command),
           executed' <= sent
    PROVE  OwnInv'
<1>0. EventTypes BY EventTypesHold
<1>1. /\ EventTrbs \in Nat /\ Places = 0..EventTrbs - 1 /\ eDeq \in Places /\ hcEnq \in Places
      /\ posted \in Nat /\ seen \in Nat /\ posted - seen = Gap(eDeq, hcEnq)
      /\ answered \in Nat /\ executed \in Nat /\ sent \in Nat /\ executed' \in Nat /\ executed' >= executed
      /\ \A a \in Places : Cmd(a) \in Nat /\ Gap(eDeq, a) \in Nat
  <2>1. /\ EventTrbs \in Nat /\ Places = 0..EventTrbs - 1 /\ eDeq \in Places /\ hcEnq \in Places
        /\ posted \in Nat /\ seen \in Nat /\ posted - seen = Gap(eDeq, hcEnq)
        /\ answered \in Nat /\ executed \in Nat /\ sent \in Nat
    BY <1>0 DEF EventTypes
  <2>2. \A a \in Places : Cmd(a) \in Nat /\ Gap(eDeq, a) \in Nat
    BY <1>0, PendingPlaces
  <2> QED BY <2>1, <2>2
<1> PICK h \in Places : h = hcEnq BY <1>1
<1>2. /\ eRing' = [eRing EXCEPT ![hcEnq] = [cmd |-> command, cycle |-> hcPcs]]
      /\ posted' = posted + 1 /\ overwritten' = (overwritten \/ hcEnq \in Pointers)
      /\ UNCHANGED <<pc, sent, late, taken, completions, events, eDeq, seen, answered>>
  BY DEF Post, driver, mailbox, handler
<1>3. Mail' /\ answered' <= executed'
  <2>1. answered <= executed /\ Mail BY DEF OwnInv
  <2>2. Mail' BY <1>2, <2>1 DEF Mail, Reading
  <2>3. answered' = answered BY <1>2
  <2> QED BY <1>1, <2>1, <2>2, <2>3
<1>4. ASSUME ~overwritten'
      PROVE  Ordered' /\ Fresh' /\ TakenFirst' /\ NoneElse'
  <2>1. Ordered /\ Fresh /\ TakenFirst /\ NoneElse
    BY <1>2, <1>4 DEF OwnInv
  <2>2. /\ Listed' = Listed /\ Collected' = Collected
        /\ h \notin Listed /\ h \notin Collected /\ (taken # <<>> => taken[1] # h)
    <3>1. h \notin Pointers BY <1>2, <1>4
    <3>2. taken # <<>> => 1 \in DOMAIN taken BY <1>0 DEF EventTypes
    <3> QED BY <1>2, <3>1, <3>2 DEF Pointers, Listed, Collected
  <2>3. \A a \in Places : Cmd(a)' = IF a = h THEN command ELSE Cmd(a)
    BY <1>0, <1>2 DEF Cmd, EventTypes
  <2>4. h \notin Unread /\ Unread' = Unread \cup {h}
    <3>1. \A a \in Places : Gap(eDeq, a)' = Gap(eDeq, a) /\ (Gap(eDeq, a) = Gap(eDeq, h) => a = h)
      BY <1>1, <1>2 DEF Gap
    <3>2. \A a \in Places : Gap(eDeq, a) \in Nat BY <1>1
    <3>3. Gap(eDeq, h) = posted - seen /\ posted' - seen' = (posted - seen) + 1 /\ Places' = Places
      BY <1>1, <1>2 DEF Places
    <3>4. h \notin Unread BY <1>1, <3>3 DEF Unread
    <3>5. ASSUME NEW a \in Places PROVE a \in Unread' <=> a \in Unread \cup {h}
      <4>1. PICK g \in Nat, w \in Nat : g = Gap(eDeq, a) /\ w = posted - seen
        BY <1>1, <3>2, <3>3
      <4>2. a \in Unread' <=> g < w + 1
        BY <3>1, <3>3, <4>1 DEF Unread
      <4>3. a \in Unread <=> g < w
        BY <4>1 DEF Unread
      <4>4. a = h <=> g = w
        BY <3>1, <3>3, <4>1
      <4> QED BY <4>1, <4>2, <4>3, <4>4
    <3>6. Unread \subseteq Places /\ Unread' \subseteq Places
      BY <3>3 DEF Unread
    <3> QED BY <3>4, <3>5, <3>6
  <2>5. \A a \in Unread : Gap(eDeq, a) < Gap(eDeq, h)
    BY <1>1 DEF Unread
  <2>6. Pending \subseteq Places /\ h \notin Pending /\ Pending' = Pending \cup {h}
        /\ Listed \subseteq Places /\ Collected \subseteq Places /\ Unread \subseteq Places
        /\ \A a \in Places : Cmd(a) \in Nat
    BY <1>0, <1>1, <2>2, <2>4, PendingPlaces DEF Pending
  <2>7. \A a \in Pending : Before(a, h)'
    <3> SUFFICES ASSUME NEW a \in Pending PROVE Before(a, h)'
      OBVIOUS
    <3>1. a \in Places /\ a # h /\ Cmd(a) \in Nat BY <2>6
    <3>2. Cmd(a)' = Cmd(a) /\ Cmd(h)' = command BY <2>3, <3>1
    <3>3. Cmd(a) # 0 => Cmd(a) <= executed BY <2>1 DEF Fresh
    <3>4. command # 0 => command = executed + 1 OBVIOUS
    <3> QED BY <1>1, <3>1, <3>2, <3>3, <3>4 DEF Before
  <2>8. \A a, b \in Pending : Before(a, b)' <=> Before(a, b)
    BY <2>3, <2>6 DEF Before
  <2>9. Ordered'
    <3>1. \A a \in Listed' : Cmd(a)' # 0 /\ \A b \in (Collected \cup Unread)' : Before(a, b)'
      BY <2>1, <2>2, <2>3, <2>4, <2>6, <2>7, <2>8 DEF Ordered, Pending
    <3>2. \A i, j \in DOMAIN events : events[i] \in Collected /\ events[j] \in Collected
      BY DEF Collected
    <3>3. \A i, j \in DOMAIN events' : i < j => Before(events[i], events[j])'
      <4> SUFFICES ASSUME NEW i \in DOMAIN events, NEW j \in DOMAIN events, i < j
                   PROVE  Before(events[i], events[j])'
        BY <1>2
      <4>1. Before(events[i], events[j]) BY <2>1 DEF Ordered
      <4>2. events[i] \in Pending /\ events[j] \in Pending BY <3>2 DEF Pending
      <4>3. events'[i] = events[i] /\ events'[j] = events[j] BY <1>2
      <4>4. Cmd(events[i])' = Cmd(events[i]) /\ Cmd(events[j])' = Cmd(events[j])
        <5>1. events[i] # h /\ events[j] # h /\ events[i] \in Places /\ events[j] \in Places
          BY <2>2, <2>6, <3>2
        <5> QED BY <1>2, <5>1 DEF Cmd, EventTypes
      <4> QED BY <4>1, <4>4 DEF Before
    <3>4. \A a \in Collected', b \in Unread' : Before(a, b)'
      BY <2>1, <2>2, <2>4, <2>6, <2>7, <2>8 DEF Ordered, Pending
    <3>5. \A a, b \in Unread' : Gap(eDeq, a)' < Gap(eDeq, b)' => Before(a, b)'
      <4> SUFFICES ASSUME NEW a \in Unread \cup {h}, NEW b \in Unread \cup {h},
                          Gap(eDeq, a) < Gap(eDeq, b)
                   PROVE  Before(a, b)'
        BY <1>2, <2>4 DEF Gap
      <4>1. a # h
        <5>1. Gap(eDeq, h) \in Nat BY <1>1
        <5>2. Gap(eDeq, b) \in Nat BY <1>1, <2>6
        <5> QED BY <2>5, <5>1, <5>2
      <4>2. a \in Unread /\ a \in Pending BY <4>1 DEF Pending
      <4>3. CASE b = h BY <2>7, <4>2, <4>3
      <4>4. CASE b # h BY <2>1, <2>8, <4>2, <4>4 DEF Ordered, Pending
      <4> QED BY <4>3, <4>4
    <3> QED BY <3>1, <3>3, <3>4, <3>5 DEF Ordered
  <2>10. Fresh'
    <3>1. \A a \in Pending : Cmd(a) # 0 => answered < Cmd(a) /\ Cmd(a) <= executed
      BY <2>1 DEF Fresh
    <3>2. answered <= executed BY DEF OwnInv
    <3>3. ASSUME NEW a \in Pending, Cmd(a)' # 0
          PROVE  answered < Cmd(a)' /\ Cmd(a)' <= executed'
      <4>1. Cmd(a)' = Cmd(a) /\ Cmd(a) \in Nat BY <2>3, <2>6
      <4> QED BY <1>1, <3>1, <3>3, <4>1
    <3>4. Cmd(h)' # 0 => answered < Cmd(h)' /\ Cmd(h)' <= executed'
      <4>1. Cmd(h)' = command BY <2>3
      <4> QED BY <1>1, <3>2, <4>1
    <3>5. answered' = answered BY <1>2
    <3> QED BY <2>6, <3>3, <3>4, <3>5 DEF Fresh
  <2>11. TakenFirst'
    <3> SUFFICES ASSUME Reading, taken # <<>>
                 PROVE  /\ answered < Cmd(taken[1])' /\ Cmd(taken[1])' <= executed'
                        /\ \A a \in Pending' : Before(taken[1], a)'
      BY <1>2 DEF TakenFirst, Reading
    <3>1. taken[1] \in Places /\ Cmd(taken[1])' = Cmd(taken[1])
      <4>1. taken[1] \in Places BY <1>0, TakenPlace
      <4> QED BY <1>2, <2>2, <4>1 DEF Cmd
    <3>2. answered < Cmd(taken[1]) /\ Cmd(taken[1]) <= executed /\ \A a \in Pending : Before(taken[1], a)
      BY <2>1 DEF TakenFirst
    <3>6. Cmd(taken[1]) \in Nat BY <1>1, <3>1
    <3>3. Cmd(taken[1])' <= executed' BY <1>1, <3>1, <3>2, <3>6
    <3>4. ASSUME NEW a \in Pending PROVE Before(taken[1], a)'
      BY <2>3, <2>6, <3>1, <3>2 DEF Before
    <3>7. command # 0 => command = executed + 1 OBVIOUS
    <3>8. Cmd(h)' = command BY <2>3
    <3>9. command # 0 => Cmd(taken[1]) < command BY <1>1, <3>2, <3>6, <3>7
    <3>5. Before(taken[1], h)' BY <3>1, <3>8, <3>9 DEF Before
    <3> QED BY <2>6, <3>1, <3>2, <3>3, <3>4, <3>5
  <2>12. NoneElse'
    <3> SUFFICES ASSUME ~late PROVE NoneElse'
      BY <1>2 DEF NoneElse
    <3>1. /\ ~Calling => executed = sent /\ \A a \in Pending : Cmd(a) = 0
          /\ Calling => sent - 1 <= executed /\ \A a \in Pending : Cmd(a) # 0 => Cmd(a) = sent
          /\ Reading => Cmd(taken[1]) = sent
      BY <2>1 DEF NoneElse
    <3>2. Reading => taken # <<>> BY DEF OwnInv, Mail
    <3>3. Reading => Cmd(taken[1])' = Cmd(taken[1])
      <4>1. taken # <<>> => taken[1] \in Places
        <5>1. taken \in Seq(Places) BY <1>0 DEF EventTypes
        <5> QED BY <5>1
      <4> QED BY <1>2, <2>2, <3>2, <4>1 DEF Cmd
    <3>4. CASE Calling
      BY <1>1, <1>2, <2>3, <2>6, <3>1, <3>3, <3>4 DEF NoneElse, Calling, Reading
    <3>5. CASE ~Calling
      BY <1>1, <1>2, <2>3, <2>6, <3>1, <3>3, <3>5 DEF NoneElse, Calling, Reading
    <3> QED BY <3>4, <3>5
  <2> QED BY <2>9, <2>10, <2>11, <2>12
<1> QED BY <1>3, <1>4 DEF OwnInv

(* The steps of the handler, and those of the controller without an event: *)
(* nothing is added to what is on its way.                                 *)
LEMMA SameRing ==
    ASSUME eRing' = eRing
    PROVE  \A a, b : Cmd(a)' = Cmd(a) /\ (Before(a, b)' <=> Before(a, b))
  BY DEF Cmd, Before

LEMMA SameUnread ==
    ASSUME UNCHANGED <<eDeq, posted, seen>>
    PROVE  Unread' = Unread /\ \A a : Gap(eDeq, a)' = Gap(eDeq, a)
  BY DEF Unread, Gap

LEMMA LessPending ==
    ASSUME Fresh, TakenFirst, NoneElse, Pending' \subseteq Pending,
           UNCHANGED <<eRing, sent, executed, answered>>,
           Calling' <=> Calling, Reading' <=> Reading, late => late', Reading => taken' = taken
    PROVE  Fresh' /\ TakenFirst' /\ NoneElse'
<1>1. \A a, b : Cmd(a)' = Cmd(a) /\ (Before(a, b)' <=> Before(a, b))
  BY SameRing
<1>2. Fresh' BY <1>1 DEF Fresh
<1>3. Reading => Cmd(taken[1])' = Cmd(taken[1])
  BY DEF Cmd
<1>4. Reading => \A a : Before(taken[1], a)' <=> Before(taken[1], a)
  BY <1>1, <1>3 DEF Before
<1>5. TakenFirst' BY <1>3, <1>4 DEF TakenFirst
<1>6. NoneElse' BY <1>1, <1>3 DEF NoneElse
<1> QED BY <1>2, <1>5, <1>6

LEMMA QuietOwn ==
    ASSUME OwnInv, Mail', events' = events \/ events' = <<>>,
           UNCHANGED <<eRing, eDeq, posted, seen, completions, sent, executed, overwritten, answered>>,
           Calling' <=> Calling, Reading' <=> Reading, late => late', Reading => taken' = taken
    PROVE  OwnInv'
<1>1. \A a, b : Cmd(a)' = Cmd(a) /\ (Before(a, b)' <=> Before(a, b))
  BY SameRing
<1>2. Unread' = Unread /\ \A a : Gap(eDeq, a)' = Gap(eDeq, a)
  BY SameUnread
<1>3. Listed' = Listed /\ Collected' \subseteq Collected
  BY DEF Listed, Collected
<1>4. ASSUME ~overwritten
      PROVE  Ordered' /\ Fresh' /\ TakenFirst' /\ NoneElse'
  <2>1. Ordered /\ Fresh /\ TakenFirst /\ NoneElse
    BY <1>4 DEF OwnInv
  <2>2. Pending' \subseteq Pending BY <1>2, <1>3 DEF Pending
  <2>3. Fresh' /\ TakenFirst' /\ NoneElse' BY <2>1, <2>2, LessPending
  <2>4. \A i, j \in DOMAIN events' : i < j => Before(events[i], events[j])'
    <3>1. CASE events' = events BY <2>1, <3>1 DEF Ordered, Before, Cmd
    <3>2. CASE events' = <<>> BY <3>2
    <3> QED BY <3>1, <3>2
  <2>5. Ordered' BY <1>1, <1>2, <1>3, <2>1, <2>4 DEF Ordered
  <2> QED BY <2>3, <2>5
<1>5. answered' <= executed' BY DEF OwnInv
<1> QED BY <1>4, <1>5 DEF OwnInv

LEMMA DequeueOwn == IInv /\ OwnInv /\ IsrDequeue => OwnInv'
<1> SUFFICES ASSUME IInv, OwnInv, IsrDequeue PROVE OwnInv'
  OBVIOUS
<1>1. EventTypes BY EventTypesHold
<1>2. /\ EventTrbs \in Nat \ {0, 1} /\ Places = 0..EventTrbs - 1 /\ eDeq \in Places /\ hcEnq \in Places
      /\ posted \in Nat /\ seen \in Nat /\ posted - seen = Gap(eDeq, hcEnq) /\ events \in Seq(Places)
  BY <1>1 DEF EventTypes
<1>3. /\ events' = Append(events, eDeq) /\ eDeq' = NextEvent(eDeq) /\ seen' = seen + 1
      /\ UNCHANGED <<eRing, completions, taken, pc, sent, late, executed, posted, overwritten, answered>>
  BY DEF IsrDequeue, driver, mailbox, fetch, post
<1>4. seen < posted
  BY RingCounts DEF EventsCounted, IsrDequeue
<1> PICK d \in Places : d = eDeq BY <1>2
<1>5. /\ Gap(eDeq, d) = 0 /\ Gap(eDeq', d) = EventTrbs - 1
      /\ \A a \in Places : a # d => Gap(eDeq, a) = Gap(eDeq', a) + 1
      /\ \A a \in Places : Gap(eDeq', a) \in Nat
  <2>1. eDeq' = IF d = EventTrbs - 1 THEN 0 ELSE d + 1
    BY <1>2, <1>3 DEF NextEvent
  <2> QED BY <1>2, <2>1 DEF Gap
<1>6. Unread = Unread' \cup {d} /\ d \notin Unread'
  <2>1. posted - seen <= EventTrbs - 1 BY <1>2 DEF Gap
  <2>2. Unread' = {a \in Places : Gap(eDeq', a) < posted - seen - 1}
    BY <1>2, <1>3 DEF Unread, Gap
  <2>3. ASSUME NEW a \in Places, a # d
        PROVE  Gap(eDeq', a) < posted - seen - 1 <=> Gap(eDeq, a) < posted - seen
    BY <1>2, <1>5, <2>3
  <2>4. ~(Gap(eDeq', d) < posted - seen - 1) /\ Gap(eDeq, d) < posted - seen
    BY <1>2, <1>4, <1>5, <2>1
  <2> QED BY <2>2, <2>3, <2>4 DEF Unread
<1>7. Collected' = Collected \cup {d} /\ Listed' = Listed
  <2> PICK n \in Nat \ {0} : n = Len(events) + 1
    BY <1>2
  <2>1. /\ DOMAIN events' = 1..n /\ DOMAIN events = 1..n - 1
        /\ \A i \in 1..n - 1 : events'[i] = events[i]
        /\ events'[n] = d
    BY <1>2, <1>3
  <2>2. ASSUME NEW i \in 1..n PROVE events'[i] \in Collected \cup {d}
    <3>1. CASE i = n BY <2>1, <3>1
    <3>2. CASE i # n
      <4>1. i \in DOMAIN events BY <2>1, <3>2
      <4> QED BY <2>1, <4>1 DEF Collected
    <3> QED BY <3>1, <3>2
  <2>3. ASSUME NEW i \in DOMAIN events PROVE events[i] \in Collected'
    <3>1. i \in DOMAIN events' /\ events'[i] = events[i] BY <2>1
    <3> QED BY <3>1 DEF Collected
  <2>4. d \in Collected'
    <3>1. n \in DOMAIN events' BY <2>1
    <3> QED BY <2>1, <3>1 DEF Collected
  <2>5. Collected' \subseteq Collected \cup {d} BY <2>1, <2>2 DEF Collected
  <2>6. Collected \cup {d} \subseteq Collected' BY <2>3, <2>4 DEF Collected
  <2> QED BY <1>3, <2>5, <2>6 DEF Listed
<1>8. Pending' = Pending BY <1>6, <1>7 DEF Pending
<1>9. Mail' BY <1>3 DEF OwnInv, Mail, Reading
<1>10. ASSUME ~overwritten
       PROVE  Ordered' /\ Fresh' /\ TakenFirst' /\ NoneElse'
  <2>1. Ordered /\ Fresh /\ TakenFirst /\ NoneElse
    BY <1>10 DEF OwnInv
  <2>2. Fresh' /\ TakenFirst' /\ NoneElse'
    <3>1. (Calling' <=> Calling) /\ (Reading' <=> Reading) BY <1>3 DEF Calling, Reading
    <3> QED BY <1>3, <1>8, <2>1, <3>1, LessPending
  <2>3. \A a, b : Cmd(a)' = Cmd(a) /\ (Before(a, b)' <=> Before(a, b))
    BY <1>3, SameRing
  <2>4. d \in Unread /\ Unread' \subseteq Unread BY <1>6
  <2>5. \A a \in Listed' : Cmd(a)' # 0 /\ \A b \in Collected' \cup Unread' : Before(a, b)'
    BY <1>7, <2>1, <2>3, <2>4 DEF Ordered
  <2>6. \A i, j \in DOMAIN events' : i < j => Before(events'[i], events'[j])
    <3> SUFFICES ASSUME NEW i \in DOMAIN events', NEW j \in DOMAIN events', i < j
                 PROVE  Before(events'[i], events'[j])
      OBVIOUS
    <3>1. DOMAIN events' = 1..Len(events) + 1 /\ DOMAIN events = 1..Len(events) /\ Len(events) \in Nat
      BY <1>2, <1>3
    <3>2. i \in DOMAIN events /\ events'[i] = events[i] /\ events[i] \in Collected
      BY <1>2, <1>3, <3>1 DEF Collected
    <3>3. CASE j = Len(events) + 1
      <4>1. events'[j] = d BY <1>2, <1>3, <3>3
      <4> QED BY <2>1, <2>4, <3>2, <4>1 DEF Ordered
    <3>4. CASE j # Len(events) + 1
      <4>1. j \in DOMAIN events /\ events'[j] = events[j] BY <1>2, <1>3, <3>1, <3>4
      <4> QED BY <2>1, <3>2, <4>1 DEF Ordered
    <3> QED BY <3>3, <3>4
  <2>7. \A i, j \in DOMAIN events' : i < j => Before(events[i], events[j])'
    BY <1>3, <2>6 DEF Before, Cmd
  <2>8. \A a \in Collected', b \in Unread' : Before(a, b)'
    <3> SUFFICES ASSUME NEW a \in Collected \cup {d}, NEW b \in Unread' PROVE Before(a, b)
      BY <1>7, <2>3
    <3>1. CASE a \in Collected BY <2>1, <2>4, <3>1 DEF Ordered
    <3>2. CASE a = d
      <4>1. b \in Unread /\ b # d /\ b \in Places BY <1>6 DEF Unread
      <4>2. Gap(eDeq, d) < Gap(eDeq, b) BY <1>5, <4>1
      <4> QED BY <2>1, <2>4, <3>2, <4>1, <4>2 DEF Ordered
    <3> QED BY <3>1, <3>2
  <2>9. \A a, b \in Unread' : Gap(eDeq, a)' < Gap(eDeq, b)' => Before(a, b)'
    <3> SUFFICES ASSUME NEW a \in Unread', NEW b \in Unread', Gap(eDeq', a) < Gap(eDeq', b)
                 PROVE  Before(a, b)
      BY <2>3 DEF Gap
    <3>1. a \in Places /\ b \in Places /\ a # d /\ b # d /\ a \in Unread /\ b \in Unread
      BY <1>6 DEF Unread
    <3>2. Gap(eDeq, a) < Gap(eDeq, b) BY <1>5, <3>1
    <3> QED BY <2>1, <3>1, <3>2 DEF Ordered
  <2> QED BY <2>2, <2>5, <2>7, <2>8, <2>9 DEF Ordered
<1> QED BY <1>3, <1>9, <1>10 DEF OwnInv

(* The handler hands an event on: the first it holds becomes the last of   *)
(* the list, or is of no interest to the driver.                           *)
LEMMA ProcessOwn == IInv /\ OwnInv /\ IsrProcess => OwnInv'
<1> SUFFICES ASSUME IInv, OwnInv, IsrProcess PROVE OwnInv'
  OBVIOUS
<1>1. EventTypes BY EventTypesHold
<1>2. events \in Seq(Places) /\ events # <<>> /\ completions \in Seq(Places)
  BY <1>1 DEF EventTypes, IsrProcess
<1>3. /\ events' = Tail(events)
      /\ UNCHANGED <<eRing, taken, pc, sent, late, executed, eDeq, seen, posted, overwritten, answered>>
      /\ \/ UNCHANGED completions
         \/ completions' = Append(completions, Head(events)) /\ Cmd(Head(events)) # 0
  BY DEF IsrProcess, driver, fetch, post, IsCompletion, PortEvent, Cmd
<1> PICK e \in Places : e = events[1]
  <2>1. \A i \in DOMAIN events : events[i] \in Places BY <1>2
  <2> QED BY <1>2, <2>1
<1>4. /\ e \in Collected
      /\ \A i \in DOMAIN events' : i + 1 \in DOMAIN events /\ events'[i] = events[i + 1] /\ 1 < i + 1
      /\ DOMAIN events' \subseteq Nat /\ 1 \in DOMAIN events
  <2>1. /\ DOMAIN events' \subseteq Nat /\ 1 \in DOMAIN events
        /\ \A i \in DOMAIN events' : i + 1 \in DOMAIN events /\ events'[i] = events[i + 1] /\ 1 < i + 1
    BY <1>2, <1>3
  <2> QED BY <2>1 DEF Collected
<1>5. Collected' \subseteq Collected BY <1>4 DEF Collected
<1>6. Listed' \subseteq Listed \cup {e} /\ (e \in Listed' => Cmd(e) # 0 \/ e \in Listed)
  <2>1. CASE UNCHANGED completions BY <2>1 DEF Listed
  <2>2. CASE completions' = Append(completions, Head(events)) /\ Cmd(Head(events)) # 0
    <3>1. Head(events) = e BY <1>2
    <3>2. \A i \in DOMAIN completions' : 
            \/ completions'[i] = e
            \/ i \in DOMAIN completions /\ completions'[i] = completions[i]
      BY <1>2, <2>2, <3>1
    <3> QED BY <2>2, <3>1, <3>2 DEF Listed
  <2> QED BY <1>3, <2>1, <2>2
<1>7. \A a, b : Cmd(a)' = Cmd(a) /\ (Before(a, b)' <=> Before(a, b))
  BY <1>3, SameRing
<1>8. Unread' = Unread /\ \A a : Gap(eDeq, a)' = Gap(eDeq, a)
  BY <1>3, SameUnread
<1>9. Pending' \subseteq Pending BY <1>4, <1>5, <1>6, <1>8 DEF Pending
<1>10. Mail'
  <2>1. completions # <<>> => completions' # <<>> /\ completions'[1] = completions[1]
    BY <1>2, <1>3
  <2> QED BY <1>3, <2>1 DEF OwnInv, Mail, Reading
<1>11. ASSUME ~overwritten
       PROVE  Ordered' /\ Fresh' /\ TakenFirst' /\ NoneElse'
  <2>1. Ordered /\ Fresh /\ TakenFirst /\ NoneElse
    BY <1>11 DEF OwnInv
  <2>2. (Calling' <=> Calling) /\ (Reading' <=> Reading) BY <1>3 DEF Calling, Reading
  <2>3. Fresh' /\ TakenFirst' /\ NoneElse' BY <1>3, <1>9, <2>1, <2>2, LessPending
  <2>4. \A b \in Collected' \cup Unread : Before(e, b)
    <3>1. \A b \in Collected' : Before(e, b)
      BY <1>4, <2>1 DEF Ordered, Collected
    <3> QED BY <1>4, <2>1, <3>1 DEF Ordered
  <2>5. \A a \in Listed' : Cmd(a)' # 0 /\ \A b \in (Collected \cup Unread)' : Before(a, b)'
    BY <1>5, <1>6, <1>7, <1>8, <2>1, <2>4 DEF Ordered
  <2>6. \A i, j \in DOMAIN events' : i < j => Before(events[i], events[j])'
    <3> SUFFICES ASSUME NEW i \in DOMAIN events', NEW j \in DOMAIN events', i < j
                 PROVE  Before(events[i], events[j])'
      OBVIOUS
    <3>1. /\ i + 1 \in DOMAIN events /\ j + 1 \in DOMAIN events /\ i + 1 < j + 1
          /\ events'[i] = events[i + 1] /\ events'[j] = events[j + 1]
      BY <1>4
    <3>2. Before(events[i + 1], events[j + 1]) BY <2>1, <3>1 DEF Ordered
    <3> QED BY <1>3, <3>1, <3>2 DEF Before, Cmd
  <2>7. Ordered' BY <1>5, <1>7, <1>8, <2>1, <2>5, <2>6 DEF Ordered
  <2> QED BY <2>3, <2>7
<1> QED BY <1>3, <1>10, <1>11 DEF OwnInv

(* The next call begins: nothing is left of the ones before, or one of     *)
(* them was given up.                                                      *)
LEMMA SendOwn == IInv /\ OwnInv /\ Send => OwnInv'
<1> SUFFICES ASSUME IInv, OwnInv, Send PROVE OwnInv'
  OBVIOUS
<1>1. EventTypes BY EventTypesHold
<1>2. /\ pc = "idle" /\ pc' = "doorbell" /\ sent' = sent + 1
      /\ UNCHANGED <<eRing, completions, taken, events, late, executed, eDeq, seen, posted, overwritten, answered>>
  BY DEF Send, mailbox, handler, fetch, post
<1>3. \A a, b : Cmd(a)' = Cmd(a) /\ (Before(a, b)' <=> Before(a, b))
  BY <1>2, SameRing
<1>4. Unread' = Unread /\ \A a : Gap(eDeq, a)' = Gap(eDeq, a)
  BY <1>2, SameUnread
<1>5. Listed' = Listed /\ Collected' = Collected /\ Pending' = Pending
  BY <1>2, <1>4 DEF Listed, Collected, Pending
<1>6. Mail' BY <1>2 DEF OwnInv, Mail, Reading
<1>7. ASSUME ~overwritten
      PROVE  Ordered' /\ Fresh' /\ TakenFirst' /\ NoneElse'
  <2>1. Ordered /\ Fresh /\ TakenFirst /\ NoneElse
    BY <1>7 DEF OwnInv
  <2>2. \A i, j \in DOMAIN events' : i < j => Before(events[i], events[j])'
    BY <1>2, <2>1 DEF Ordered, Before, Cmd
  <2>3. Ordered' BY <1>3, <1>4, <1>5, <2>1, <2>2 DEF Ordered
  <2>4. Fresh' BY <1>2, <1>3, <1>5, <2>1 DEF Fresh
  <2>5. TakenFirst' BY <1>2 DEF TakenFirst, Reading
  <2>6. NoneElse'
    <3>1. ~Calling /\ Calling' /\ ~Reading' BY <1>2 DEF Calling, Reading
    <3>2. ~late => executed = sent /\ \A a \in Pending : Cmd(a) = 0
      BY <2>1, <3>1 DEF NoneElse
    <3>3. sent \in Nat BY <1>1 DEF EventTypes
    <3> QED BY <1>2, <1>3, <1>5, <3>1, <3>2, <3>3 DEF NoneElse
  <2> QED BY <2>3, <2>4, <2>5, <2>6
<1> QED BY <1>2, <1>6, <1>7 DEF OwnInv

(* The list is cleared once its first entry is taken: what follows is      *)
(* later, and without a call given up nothing follows.                     *)
LEMMA ClearOwn == IInv /\ CmdInv /\ OwnInv /\ Clear => OwnInv'
<1> SUFFICES ASSUME IInv, CmdInv, OwnInv, Clear PROVE OwnInv'
  OBVIOUS
<1>1. EventTypes BY EventTypesHold
<1>2. /\ pc = "clear" /\ pc' = "reset" /\ completions' = <<>>
      /\ UNCHANGED <<eRing, taken, events, sent, late, executed, eDeq, seen, posted, overwritten, answered>>
  BY DEF Clear, handler, fetch, post
<1>3. \A a, b : Cmd(a)' = Cmd(a) /\ (Before(a, b)' <=> Before(a, b))
  BY <1>2, SameRing
<1>4. Unread' = Unread /\ \A a : Gap(eDeq, a)' = Gap(eDeq, a)
  BY <1>2, SameUnread
<1>5. Listed' = {} /\ Collected' = Collected /\ Pending' = Collected \cup Unread /\ Pending' \subseteq Pending
  BY <1>2, <1>4 DEF Listed, Collected, Pending
<1>6. Mail' BY <1>2 DEF OwnInv, Mail, Reading
<1>7. Calling /\ ~Calling' /\ Reading' BY <1>2 DEF Calling, Reading
<1>8. executed <= sent BY CmdTypesHold, FetchesNext
<1>9. ASSUME ~overwritten
      PROVE  Ordered' /\ Fresh' /\ TakenFirst' /\ NoneElse'
  <2>1. Ordered /\ Fresh /\ TakenFirst /\ NoneElse
    BY <1>9 DEF OwnInv
  <2>2. \A i, j \in DOMAIN events' : i < j => Before(events[i], events[j])'
    BY <1>2, <2>1 DEF Ordered, Before, Cmd
  <2>3. Ordered' BY <1>3, <1>4, <1>5, <2>1, <2>2 DEF Ordered
  <2>4. Fresh' BY <1>2, <1>3, <1>5, <2>1 DEF Fresh
  <2>5. ASSUME taken # <<>>
        PROVE  /\ Cmd(taken[1])' = Cmd(taken[1]) /\ Cmd(taken[1]) \in Nat \ {0}
               /\ answered < Cmd(taken[1]) /\ Cmd(taken[1]) <= executed
               /\ \A b \in Collected \cup Unread : Before(taken[1], b)
               /\ ~late => Cmd(taken[1]) = sent
    <3>1. completions # <<>> /\ taken[1] = completions[1]
      BY <1>2, <2>5 DEF OwnInv, Mail
    <3>2. taken[1] \in Listed /\ taken[1] \in Pending
      <4>1. 1 \in DOMAIN completions BY <1>1, <3>1 DEF EventTypes
      <4> QED BY <3>1, <4>1 DEF Listed, Pending
    <3>3. Cmd(taken[1]) \in Nat
      BY <1>1, <3>2, PendingPlaces
    <3>4. Cmd(taken[1]) # 0 /\ \A b \in Collected \cup Unread : Before(taken[1], b)
      BY <2>1, <3>2 DEF Ordered
    <3>5. answered < Cmd(taken[1]) /\ Cmd(taken[1]) <= executed
      BY <2>1, <3>2, <3>4 DEF Fresh
    <3>6. ~late => Cmd(taken[1]) = sent
      BY <1>7, <2>1, <3>2, <3>4 DEF NoneElse
    <3>7. Cmd(taken[1])' = Cmd(taken[1]) BY <1>2 DEF Cmd
    <3> QED BY <3>3, <3>4, <3>5, <3>6, <3>7
  <2>6. TakenFirst'
    <3>1. taken # <<>> => \A a \in Pending' : Before(taken[1], a)'
      BY <1>2, <1>5, <2>5 DEF Before, Cmd
    <3> QED BY <1>2, <2>5, <3>1 DEF TakenFirst
  <2>7. NoneElse'
    <3> SUFFICES ASSUME ~late PROVE NoneElse'
      BY <1>2 DEF NoneElse
    <3>1. taken # <<>> BY <1>2 DEF OwnInv, Mail
    <3>2. Cmd(taken[1])' = sent /\ Cmd(taken[1]) = sent /\ executed = sent
      BY <1>1, <1>8, <2>5, <3>1 DEF EventTypes
    <3>3. ASSUME NEW b \in Pending' PROVE Cmd(b)' = 0
      <4>1. b \in Pending /\ b \in Collected \cup Unread BY <1>5
      <4>2. Cmd(b) # 0 => Cmd(b) = sent BY <1>7, <2>1, <4>1 DEF NoneElse
      <4>3. Before(taken[1], b) BY <2>5, <3>1, <4>1
      <4>4. sent \in Nat \ {0} BY <2>5, <3>1, <3>2
      <4> QED BY <1>3, <3>2, <4>2, <4>3, <4>4 DEF Before
    <3> QED BY <1>2, <1>7, <3>2, <3>3 DEF NoneElse
  <2> QED BY <2>3, <2>4, <2>6, <2>7
<1> QED BY <1>2, <1>6, <1>9 DEF OwnInv

(* The event is read: what is on its way comes after it. *)
LEMMA ExamineOwn == IInv /\ OwnInv /\ Examine => OwnInv'
<1> SUFFICES ASSUME IInv, OwnInv, Examine PROVE OwnInv'
  OBVIOUS
<1>1. EventTypes BY EventTypesHold
<1>2. /\ pc = "examine" /\ pc' = "idle" /\ taken' = <<>>
      /\ answered' = (IF taken # <<>> /\ ~overwritten THEN Cmd(taken[1]) ELSE answered)
      /\ UNCHANGED <<eRing, completions, events, sent, late, executed, eDeq, seen, posted, overwritten>>
  BY DEF Examine, mailbox, handler, fetch, post, Cmd
<1>3. \A a, b : Cmd(a)' = Cmd(a) /\ (Before(a, b)' <=> Before(a, b))
  BY <1>2, SameRing
<1>4. Unread' = Unread /\ \A a : Gap(eDeq, a)' = Gap(eDeq, a)
  BY <1>2, SameUnread
<1>5. Listed' = Listed /\ Collected' = Collected /\ Pending' = Pending
  BY <1>2, <1>4 DEF Listed, Collected, Pending
<1>6. Mail' BY <1>2 DEF OwnInv, Mail, Reading
<1>7. ~Calling /\ ~Calling' /\ Reading /\ ~Reading' BY <1>2 DEF Calling, Reading
<1>8. answered' <= executed'
  BY <1>2, <1>7 DEF OwnInv, TakenFirst
<1>9. ASSUME ~overwritten
      PROVE  Ordered' /\ Fresh' /\ TakenFirst' /\ NoneElse'
  <2>1. Ordered /\ Fresh /\ TakenFirst /\ NoneElse
    BY <1>9 DEF OwnInv
  <2>2. \A i, j \in DOMAIN events' : i < j => Before(events[i], events[j])'
    BY <1>2, <2>1 DEF Ordered, Before, Cmd
  <2>3. Ordered' BY <1>3, <1>4, <1>5, <2>1, <2>2 DEF Ordered
  <2>4. TakenFirst' /\ NoneElse' BY <1>2, <1>3, <1>5, <1>7, <2>1 DEF TakenFirst, NoneElse
  <2>5. Fresh'
    <3> SUFFICES ASSUME NEW a \in Pending, Cmd(a) # 0
                 PROVE  answered' < Cmd(a) /\ Cmd(a) <= executed
      BY <1>2, <1>3, <1>5 DEF Fresh
    <3>1. answered < Cmd(a) /\ Cmd(a) <= executed BY <2>1 DEF Fresh
    <3>2. CASE taken # <<>>
      <4>1. answered < Cmd(taken[1]) /\ Before(taken[1], a) BY <1>7, <2>1, <3>2 DEF TakenFirst
      <4>2. answered \in Nat BY <1>1 DEF EventTypes
      <4> QED BY <1>2, <1>9, <3>1, <3>2, <4>1, <4>2 DEF Before
    <3>3. CASE taken = <<>> BY <1>2, <3>1, <3>3
    <3> QED BY <3>2, <3>3
  <2> QED BY <2>3, <2>4, <2>5
<1> QED BY <1>2, <1>6, <1>8, <1>9 DEF OwnInv

LEMMA HcOwn == IInv /\ CmdInv /\ OwnInv /\ Hc => OwnInv'
<1> SUFFICES ASSUME IInv, CmdInv, OwnInv, Hc PROVE OwnInv'
  OBVIOUS
<1>1. CmdTypes BY CmdTypesHold
<1>2. CASE HcExecute
  <2>1. /\ hcDeq # Link /\ cRing[hcDeq].cycle = hcCcs
        /\ executed' = cRing[hcDeq].cmd /\ Post(cRing[hcDeq].cmd)
    BY <1>2 DEF HcExecute, Valid
  <2>2. cRing[hcDeq].cmd \in 0..MaxCommands BY <1>1 DEF CmdTypes
  <2>3. cRing[hcDeq].cmd = executed + 1 /\ executed < sent
    BY <1>1, <2>1, FetchesNext
  <2>4. executed' <= sent BY <1>1, <2>1, <2>3 DEF CmdTypes
  <2> QED BY <2>1, <2>2, <2>3, <2>4, PostOwn
<1>3. CASE HcPort
  <2>1. Post(0) /\ executed' = executed BY <1>3 DEF HcPort, PortEvent, fetch
  <2>2. executed' <= sent BY <1>1, <2>1, FetchesNext
  <2>3. 0 \in 0..MaxCommands OBVIOUS
  <2> QED BY <2>1, <2>2, <2>3, PostOwn
<1>4. CASE HcLink \/ HcIdle
  <2>1. UNCHANGED <<driver, mailbox, handler, executed, post, answered>>
    BY <1>4 DEF HcLink, HcIdle
  <2>2. Mail' BY <2>1 DEF OwnInv, Mail, Reading, driver, mailbox
  <2>3. (Calling' <=> Calling) /\ (Reading' <=> Reading) BY <2>1 DEF Calling, Reading, driver
  <2> QED BY <2>1, <2>2, <2>3, QuietOwn DEF driver, mailbox, handler, post
<1> QED BY <1>2, <1>3, <1>4 DEF Hc

LEMMA IsrOwn == IInv /\ OwnInv /\ Isr => OwnInv'
<1> SUFFICES ASSUME IInv, OwnInv, Isr PROVE OwnInv'
  OBVIOUS
<1>1. CASE IsrDequeue BY <1>1, DequeueOwn
<1>2. CASE IsrProcess BY <1>2, ProcessOwn
<1>3. CASE ~IsrDequeue /\ ~IsrProcess
  <2>1. UNCHANGED <<driver, completions, eDeq, seen, executed, post, answered>>
        /\ (events' = events \/ events' = <<>>)
    BY <1>3 DEF Isr, IsrEnter, IsrUpdateErdp, IsrClearBusy, IsrSetFlag, IsrAcknowledge, mailbox, fetch
  <2>2. Mail' BY <2>1 DEF OwnInv, Mail, Reading, driver
  <2>3. (Calling' <=> Calling) /\ (Reading' <=> Reading) BY <2>1 DEF Calling, Reading, driver
  <2> QED BY <2>1, <2>2, <2>3, QuietOwn DEF driver, post
<1> QED BY <1>1, <1>2, <1>3

LEMMA DriverOwn == IInv /\ CmdInv /\ OwnInv /\ Driver => OwnInv'
<1> SUFFICES ASSUME IInv, CmdInv, OwnInv, Driver PROVE OwnInv'
  OBVIOUS
<1>1. CASE Send BY <1>1, SendOwn
<1>2. CASE Clear BY <1>2, ClearOwn
<1>3. CASE Examine BY <1>3, ExamineOwn
<1>4. CASE RingDoorbell \/ Completed \/ Timeout \/ Take \/ Reset
  <2>1. UNCHANGED <<eRing, eDeq, posted, seen, completions, sent, executed, overwritten, answered, events>>
    BY <1>4 DEF RingDoorbell, Completed, Timeout, Take, Reset, mailbox, handler, fetch, post
  <2>2. (Calling' <=> Calling) /\ (Reading' <=> Reading) /\ (Reading => taken' = taken)
    BY <1>4 DEF RingDoorbell, Completed, Timeout, Take, Reset, Calling, Reading
  <2>4. late => late'
    <3>1. late' = late \/ late' = (late \/ completions = <<>>)
      BY <1>4 DEF RingDoorbell, Completed, Timeout, Take, Reset
    <3>2. late \in BOOLEAN BY DEF IInv, TypeOK
    <3> QED BY <3>1, <3>2
  <2>3. Mail'
    <3>1. CASE RingDoorbell BY <3>1 DEF OwnInv, RingDoorbell, Mail, Reading
    <3>2. CASE Completed
      <4>1. flag = 1 /\ pc = "wait" BY <3>2 DEF Completed, IInv, TypeOK, Bit
      <4>2. completions # <<>> BY <4>1 DEF IInv, FlagOrder
      <4> QED BY <3>2, <4>2, <2>1 DEF OwnInv, Completed, Mail, Reading
    <3>3. CASE Timeout BY <3>3, <2>1 DEF OwnInv, Timeout, Mail, Reading
    <3>4. CASE Take
      <4>1. completions \in Seq(Places) BY DEF IInv, TypeOK
      <4>2. completions # <<>> => taken' = <<completions[1]>> BY <3>4, <4>1 DEF Take
      <4>3. completions = <<>> => taken' = <<>> BY <3>4 DEF Take
      <4>4. pc = "take" /\ pc' = "clear" /\ late' = late BY <3>4 DEF Take
      <4> QED BY <2>1, <4>2, <4>3, <4>4 DEF OwnInv, Mail, Reading
    <3>5. CASE Reset BY <3>5, <2>1 DEF OwnInv, Reset, Mail, Reading
    <3> QED BY <1>4, <3>1, <3>2, <3>3, <3>4, <3>5
  <2> QED BY <2>1, <2>2, <2>3, <2>4, QuietOwn
<1> QED BY <1>1, <1>2, <1>3, <1>4 DEF Driver

LEMMA StutterOwn == OwnInv /\ UNCHANGED vars => OwnInv'
<1> SUFFICES ASSUME OwnInv, UNCHANGED vars PROVE OwnInv'
  OBVIOUS
<1>1. UNCHANGED <<driver, mailbox, handler, fetch, post, answered>>
  BY DEF vars
<1>2. Mail' BY <1>1 DEF OwnInv, Mail, Reading, driver, mailbox
<1>3. (Calling' <=> Calling) /\ (Reading' <=> Reading) BY <1>1 DEF Calling, Reading, driver
<1> QED BY <1>1, <1>2, <1>3, QuietOwn DEF driver, mailbox, handler, fetch, post

LEMMA InductiveOwn == Spec => []OwnInv
<1>1. IInv /\ CmdInv /\ OwnInv /\ [Next]_vars => OwnInv'
  BY HcOwn, IsrOwn, DriverOwn, StutterOwn DEF Next
<1> QED BY <1>1, InitOwnInv, Inductive, InductiveCmd, PTL DEF Spec

(* Without a command given up a call reads the completion of its own       *)
(* command; and no completion is ever read for two commands, unless an     *)
(* event was overwritten under a pointer.                                  *)
THEOREM OwnCompletionTheorem == Spec => []OwnCompletion
<1>1. OwnInv => OwnCompletion
  <2> SUFFICES ASSUME OwnInv, pc = "examine"
               PROVE  /\ ~late => taken # <<>>
                      /\ taken # <<>> /\ ~overwritten =>
                           answered < Cmd(taken[1]) /\ (~late => Cmd(taken[1]) = sent)
    BY DEF OwnCompletion, Cmd
  <2> QED BY DEF OwnInv, Mail, Reading, TakenFirst, NoneElse
<1> QED BY <1>1, InductiveOwn, PTL

----------------------------------------------------------------------------
(***************************************************************************)
(* The bring-up of the controller and its ports.                           *)
(***************************************************************************)
(* The driver before start_device, at a port, and between ports.           *)
Early == {"find", "clearRun", "waitHalt", "setReset", "waitReset", "checkRegs", "configure", "runtime"}
AtPort == {"reset", "clearChanges", "startReset", "waitPort", "settle", "check", "enable", "wait"}
Scanning == {"start", "waitStart", "scan", "done"}
Stages == Early \cup AtPort \cup Scanning \cup {"crashed", "hang"}

BringUpTypes ==
    /\ stage \in Stages /\ port \in 0..MaxPorts
    /\ tries \in Int /\ (stage = "waitStart" => tries \in Nat)
    /\ stage \in AtPort \cup {"scan"} => port \in Ports
    /\ parsed \in BOOLEAN /\ ready \in BOOLEAN
    /\ cmd \in [run : BOOLEAN, hcreset : BOOLEAN, inte : BOOLEAN]
    /\ sts \in [hch : BOOLEAN, cnr : BOOLEAN]
    /\ portsc \in [Ports -> PortSc] /\ copy \in PortSc
    /\ dcbaa \in [0..MaxDeviceSlots -> Int]
    /\ asked \in Nat /\ answers \in Seq(0..MaxDeviceSlots)
    /\ enabled \subseteq 1..MaxDeviceSlots
    /\ devices \subseteq [port : Ports, slot : 1..MaxDeviceSlots]
    /\ gaveUp \subseteq Ports

(* What each stage of init_device has established, and what holds of the   *)
(* controller ever after when init_device has succeeded.                   *)
RulesInv ==
    /\ stage \in Early => ~ready
    /\ stage \in Early \cup {"start", "waitStart"} => port = 0
    /\ stage \in {"waitHalt", "setReset"} => ~cmd.run
    /\ stage = "setReset" => sts.hch
    /\ stage \in {"checkRegs", "configure", "runtime"} \/ ready => ~cmd.hcreset /\ ~sts.cnr
    /\ stage = "configure" => ~cmd.run
    /\ stage = "runtime" \/ ready => regs = OpRegs
    /\ ready => erst

(* A slot in an answer is enabled and has no device yet; without           *)
(* init_device nothing is ever asked.                                      *)
SlotInv ==
    /\ SlotsDistinct
    /\ \A i \in DOMAIN answers :
          answers[i] # 0 => answers[i] \in enabled /\ \A d \in devices : d.slot # answers[i]
    /\ ~ready => asked = 0 /\ answers = <<>> /\ devices = {}

(* A port not yet looked at shows a device by its change bit; one that was *)
(* found enabled has its device or shows that it lost it.                  *)
PortShape(v) == (~v.pp => v = PortOff) /\ (v.ped => v.ccs)
Untouched(p) == p > port \/ (p = port /\ stage \in Early \cup Scanning)
PortInv ==
    /\ \A d \in devices : d.port < port
    /\ \A p \in gaveUp : p < port
    /\ \A p \in Ports : PortShape(portsc[p]) /\ (Untouched(p) /\ portsc[p].ccs => portsc[p].csc)
    /\ stage \in {"enable", "wait"} /\ ready /\ portsc[port].pp => portsc[port].ccs \/ portsc[port].csc
    /\ ChangesKept

BringUpInv == BringUpTypes /\ RulesInv /\ SlotInv /\ PortInv

(* The least element of a set of naturals. *)
Less == OpToRel(<, Nat)
LEMMA Least ==
    ASSUME NEW S, S \subseteq Nat, S # {}
    PROVE  \E m \in S : \A n \in S : m <= n
<1>1. PICK m \in S : \A n \in S : ~ <<n, m>> \in Less
  BY NatLessThanWellFounded, WFMin DEF Less
<1>2. \A n \in S : ~ (n < m)
  BY <1>1 DEF Less, OpToRel
<1> QED BY <1>1, <1>2

LEMMA HeadTyped ==
    ASSUME NEW S, NEW q \in Seq(S), q # <<>>
    PROVE  Head(q) \in S
  OBVIOUS

LEMMA HcsNat == MaxPorts \in 1..255 /\ MaxDeviceSlots \in 1..255
<1>1. Hcs.maxPorts \in 1..255 /\ Hcs.maxSlots \in 1..255
  BY HcsAssumption
<1>2. \A n \in 1..255 : n % 256 = n
  OBVIOUS
<1> QED BY <1>1, <1>2 DEF MaxPorts, MaxDeviceSlots

LEMMA NextPortIs ==
    ASSUME port \in Ports
    PROVE  /\ port + 1 \in 0..MaxPorts
           /\ NextPort \in {"done", "scan"}
           /\ NextPort = "scan" => port + 1 \in Ports
  BY HcsNat DEF Ports, NextPort

LEMMA PowerStates ==
    /\ PortOn \in PortSc /\ PortOff \in PortSc
    /\ PortOn.pp /\ ~PortOff.pp
    /\ \A v \in {PortOn, PortOff} : ~v.ccs /\ ~v.ped /\ ~v.pr
  BY DEF PortOn, PortOff, Powered, PortSc

LEMMA WrittenPort ==
    ASSUME NEW old \in PortSc, NEW v \in PortSc, PortShape(old)
    PROVE  /\ Written(old, v) \in PortSc
           /\ Written(old, v).ccs = old.ccs
           /\ PortShape(Written(old, v))
<1> USE DEF PortShape
<1>2. CASE ~old.pp
  <2>1. Written(old, v) \in {PortOn, PortOff} /\ old.ccs = FALSE
    BY <1>2, PowerStates DEF Written, PortSc
  <2> QED BY <2>1, PowerStates DEF PortSc
<1>3. CASE old.pp
  <2>1. Written(old, v) =
          [ccs |-> old.ccs, pp |-> old.pp, ped |-> old.ped /\ ~v.ped, pr |-> old.pr \/ v.pr,
           csc |-> old.csc /\ ~v.csc, prc |-> old.prc /\ ~v.prc, wrc |-> old.wrc /\ ~v.wrc]
    BY <1>3 DEF Written
  <2>2. /\ Written(old, v) \in PortSc
        /\ Written(old, v).ccs = old.ccs /\ Written(old, v).pp = old.pp
        /\ Written(old, v).ped = (old.ped /\ ~v.ped)
    <3> PICK ped \in BOOLEAN : ped = (old.ped /\ ~v.ped) OBVIOUS
    <3> PICK csc \in BOOLEAN : csc = (old.csc /\ ~v.csc) OBVIOUS
    <3> PICK prc \in BOOLEAN : prc = (old.prc /\ ~v.prc) OBVIOUS
    <3> PICK wrc \in BOOLEAN : wrc = (old.wrc /\ ~v.wrc) OBVIOUS
    <3> PICK pr \in BOOLEAN : pr = (old.pr \/ v.pr) OBVIOUS
    <3>1. old.ccs \in BOOLEAN /\ old.pp \in BOOLEAN
      BY DEF PortSc
    <3>2. Written(old, v) = [ccs |-> old.ccs, pp |-> old.pp, ped |-> ped, pr |-> pr,
                             csc |-> csc, prc |-> prc, wrc |-> wrc]
      BY <2>1
    <3>3. Written(old, v) \in PortSc
      BY <3>1, <3>2 DEF PortSc
    <3> QED BY <3>2, <3>3
  <2> QED BY <1>3, <2>2
<1> QED BY <1>2, <1>3

(* The lowest of the free slots. *)
LEMMA FreeLeast ==
    ASSUME Free # {}
    PROVE  \E s \in Free : \A t \in Free : s <= t
<1>1. Free \subseteq Nat
  BY HcsNat DEF Free
<1> QED BY <1>1, Least

LEMMA WaitStartNext ==
    ASSUME WaitStart, tries \in Nat, sts.hch \in BOOLEAN
    PROVE  stage' \in {"done", "scan", "waitStart"} /\ (stage' = "waitStart" => tries > 0)
<1>1. CASE ~sts.hch
  BY <1>1 DEF WaitStart
<1>2. CASE sts.hch /\ tries = 0
  <2>1. stage' = "done"
    BY <1>2 DEF WaitStart
  <2> QED BY <2>1
<1>3. CASE sts.hch /\ tries > 0
  <2>1. stage' = "waitStart"
    BY <1>3 DEF WaitStart
  <2> QED BY <1>3, <2>1
<1>4. tries = 0 \/ tries > 0
  OBVIOUS
<1> QED BY <1>1, <1>2, <1>3, <1>4

LEMMA BringUpStart == DriverInit => BringUpInv
<1> SUFFICES ASSUME DriverInit PROVE BringUpInv
  OBVIOUS
<1>2. BringUpTypes
  <2>1. dcbaa \in [0..MaxDeviceSlots -> Int] /\ answers \in Seq(0..MaxDeviceSlots)
    BY DEF DriverInit, None
  <2>2. cmd \in [run : BOOLEAN, hcreset : BOOLEAN, inte : BOOLEAN]
        /\ sts \in [hch : BOOLEAN, cnr : BOOLEAN]
    BY DEF DriverInit
  <2>3. stage \in Stages /\ stage \notin AtPort \cup {"scan"} /\ port \in 0..MaxPorts /\ tries \in Int
        /\ stage # "waitStart"
    BY HcsNat DEF DriverInit, Stages, Early, AtPort
  <2>4. portsc \in [Ports -> PortSc] /\ copy \in PortSc
    BY PowerStates DEF DriverInit
  <2>5. parsed \in BOOLEAN /\ ready \in BOOLEAN /\ asked \in Nat /\ enabled = {} /\ devices = {} /\ gaveUp = {}
    BY DEF DriverInit
  <2> QED BY <2>1, <2>2, <2>3, <2>4, <2>5 DEF BringUpTypes
<1>3. RulesInv
  BY DEF DriverInit, RulesInv
<1>4. SlotInv
  <2>1. dcbaa[0] = -1 /\ -1 \notin Ports
    BY HcsNat DEF DriverInit, None, Ports
  <2> QED BY <2>1 DEF DriverInit, SlotInv, SlotsDistinct
<1>5. PortInv
  BY PowerStates DEF DriverInit, PortInv, PortShape, ChangesKept, Scanned
<1> QED BY <1>2, <1>3, <1>4, <1>5 DEF BringUpInv

LEMMA RulesStep ==
    ASSUME BringUpInv, [DriverNext]_driverVars
    PROVE  RulesInv'
<1> USE DEF RulesInv, Early, Goto
<1>1. BringUpTypes /\ RulesInv
  BY DEF BringUpInv
<1>2. CASE UNCHANGED driverVars \/ Stop
  BY <1>1, <1>2 DEF driverVars, flow, known, ctrl, Stop
<1>3. CASE Controller
  <2>1. CASE Halt \/ BecomesReady \/ Starts
    BY <1>1, <2>1 DEF Halt, BecomesReady, Starts, flow, known, BringUpTypes
  <2>2. CASE ResetEnds
    BY <1>1, <2>2 DEF ResetEnds, flow, known
  <2>3. CASE Answer \/ PortEvents \/ (\E p \in Ports : Connect(p) \/ Disconnect(p) \/ PowerLost(p) \/ PortResetEnds(p))
    <3>1. UNCHANGED <<flow, known, ctrl>>
      BY <2>3 DEF Answer, PortEvents, Connect, Disconnect, PowerLost, PortResetEnds
    <3> QED BY <1>1, <3>1 DEF flow, known, ctrl
  <2> QED BY <1>3, <2>1, <2>2, <2>3 DEF Controller
<1>4. CASE \E bar \in Bars : FindFails(bar) \/ FindDevice(bar)
  BY <1>1, <1>4 DEF FindFails, FindDevice, ctrl, known
<1>5. CASE ClearRun \/ WaitHalt \/ SetReset
  BY <1>1, <1>5 DEF ClearRun, WaitHalt, SetReset, ctrl, known, BringUpTypes
<1>6. CASE WaitReset \/ CheckRegs
  BY <1>1, <1>6 DEF WaitReset, CheckRegs, Resetting, ctrl, known
<1>7. CASE Configure \/ ConfigureRuntime
  BY <1>1, <1>7 DEF Configure, ConfigureRuntime, ctrl, known
<1>8. CASE StartDevice
  <2> DEFINE later == {"start", "waitStart", "scan", "done"} \cup AtPort \cup {"crashed", "hang"}
  <2>1. stage \in later /\ stage' \in later
    <3>1. CASE StartController \/ WaitStartBlind \/ WaitStart
      <4>1. CASE WaitStart
        <5>1. tries \in Nat /\ sts.hch \in BOOLEAN /\ stage = "waitStart"
          BY <1>1, <4>1 DEF BringUpTypes, WaitStart
        <5> QED BY <4>1, <5>1, WaitStartNext
      <4> QED BY <3>1, <4>1 DEF StartController, WaitStartBlind
    <3>2. NextPort \in {"done", "scan"}
      BY DEF NextPort
    <3>3. CASE ScanPort \/ SendUnready \/ SendEnableSlot \/ TakeAnswer
      BY <3>2, <3>3 DEF ScanPort, SendUnready, SendEnableSlot, TakeAnswer, CreateDevice, GiveUp, Skip, AtPort
    <3>4. CASE ResetPort
      BY <3>2, <3>4 DEF ResetPort, PowerPort, ReadPort, ClearChanges, StartPortReset, WaitPort, PortTimeout, SettlePort,
         CheckPort, GiveUp, Skip, AtPort
    <3> QED BY <1>8, <3>1, <3>3, <3>4 DEF StartDevice
  <2>2. UNCHANGED <<ready, regs, erst, sts>> /\ cmd'.hcreset = cmd.hcreset
    BY <1>1, <1>8 DEF StartDevice, ResetPort, StartController, WaitStartBlind, WaitStart, ScanPort,
         PowerPort, ReadPort, ClearChanges, StartPortReset, WaitPort, PortTimeout, SettlePort,
         CheckPort, SendUnready, SendEnableSlot, TakeAnswer, ctrl, known, BringUpTypes
  <2>3. stage' \in {"start", "waitStart"} => stage \in {"start", "waitStart"} /\ port' = port
    <3>1. CASE StartController \/ WaitStartBlind \/ WaitStart
      BY <3>1 DEF StartController, WaitStartBlind, WaitStart
    <3>2. NextPort \in {"done", "scan"}
      BY DEF NextPort
    <3>3. CASE ScanPort \/ SendUnready \/ SendEnableSlot \/ TakeAnswer
      BY <3>2, <3>3 DEF ScanPort, SendUnready, SendEnableSlot, TakeAnswer, CreateDevice, GiveUp, Skip
    <3>4. CASE ResetPort
      BY <3>2, <3>4 DEF ResetPort, PowerPort, ReadPort, ClearChanges, StartPortReset, WaitPort, PortTimeout, SettlePort,
         CheckPort, GiveUp, Skip
    <3> QED BY <1>8, <3>1, <3>3, <3>4 DEF StartDevice
  <2>4. stage' \notin Early /\ stage' \notin {"waitHalt", "setReset", "checkRegs", "configure", "runtime"}
    BY <2>1 DEF AtPort
  <2> QED BY <1>1, <2>2, <2>3, <2>4
<1> QED BY <1>2, <1>3, <1>4, <1>5, <1>6, <1>7, <1>8 DEF DriverNext, InitDevice

LEMMA TypesStep ==
    ASSUME BringUpInv, [DriverNext]_driverVars
    PROVE  BringUpTypes'
<1>1. BringUpTypes
  BY DEF BringUpInv
<1> DEFINE Unmoved == UNCHANGED <<stage, tries, port>>
<1> DEFINE Registers ==
      /\ (parsed \in BOOLEAN /\ ready \in BOOLEAN)'
      /\ (cmd \in [run : BOOLEAN, hcreset : BOOLEAN, inte : BOOLEAN])'
      /\ (sts \in [hch : BOOLEAN, cnr : BOOLEAN])'
<1> DEFINE PortRegisters == (portsc \in [Ports -> PortSc] /\ copy \in PortSc)'
<1> DEFINE Tables ==
      /\ (dcbaa \in [0..MaxDeviceSlots -> Int])'
      /\ (asked \in Nat /\ answers \in Seq(0..MaxDeviceSlots))'
      /\ (enabled \subseteq 1..MaxDeviceSlots)'
      /\ (devices \subseteq [port : Ports, slot : 1..MaxDeviceSlots])'
      /\ (gaveUp \subseteq Ports)'
<1> DEFINE Place ==
      /\ (stage \in Stages /\ port \in 0..MaxPorts)'
      /\ (tries \in Int /\ (stage = "waitStart" => tries \in Nat))'
      /\ (stage \in AtPort \cup {"scan"} => port \in Ports)'
<1>2. Registers
  <2>1. CASE InitDevice
    BY <1>1, <2>1 DEF BringUpTypes, InitDevice, FindFails, FindDevice, ClearRun, WaitHalt, SetReset, WaitReset,
       CheckRegs, Configure, ConfigureRuntime, known, ctrl
  <2>2. CASE StartDevice
    BY <1>1, <2>2 DEF BringUpTypes, StartDevice, ResetPort, StartController, WaitStartBlind, WaitStart, ScanPort,
       PowerPort, ReadPort, ClearChanges, StartPortReset, WaitPort, PortTimeout, SettlePort,
       CheckPort, SendUnready, SendEnableSlot, TakeAnswer, known, ctrl
  <2>3. CASE Controller
    <3>1. CASE Halt \/ BecomesReady \/ Starts \/ ResetEnds
      <4>1. CASE Halt \/ BecomesReady \/ Starts
        BY <1>1, <4>1 DEF BringUpTypes, Halt, BecomesReady, Starts, known
      <4>2. CASE ResetEnds
        BY <1>1, <4>2 DEF BringUpTypes, ResetEnds, known
      <4> QED BY <3>1, <4>1, <4>2
    <3>2. CASE UNCHANGED <<known, ctrl>>
      BY <1>1, <3>2 DEF BringUpTypes, known, ctrl
    <3> QED BY <2>3, <3>1, <3>2 DEF Controller, Answer, PortEvents, Connect, Disconnect, PowerLost, PortResetEnds
  <2>4. CASE Stop \/ UNCHANGED driverVars
    BY <1>1, <2>4 DEF BringUpTypes, Stop, driverVars, known, ctrl
  <2> QED BY <2>1, <2>2, <2>3, <2>4 DEF DriverNext
<1>3. PortRegisters
  <2>1. CASE Halt \/ BecomesReady \/ Starts \/ Answer \/ PortEvents \/ InitDevice
    BY <1>1, <2>1 DEF BringUpTypes, Halt, BecomesReady, Starts, Answer, PortEvents, flow, InitDevice, FindFails, FindDevice,
       ClearRun, WaitHalt, SetReset, WaitReset, CheckRegs, Configure, ConfigureRuntime
  <2>2. CASE ResetEnds
    BY <1>1, <2>2, PowerStates DEF BringUpTypes, ResetEnds, flow
  <2>3. ASSUME NEW p \in Ports, Connect(p) \/ Disconnect(p) \/ PowerLost(p) \/ PortResetEnds(p)
        PROVE  PortRegisters
    <3>1. portsc[p] \in PortSc /\ (p \in Usb3Ports) \in BOOLEAN
      BY <1>1, <2>3 DEF BringUpTypes
    <3>2. CASE Connect(p)
      BY <1>1, <3>1, <3>2 DEF Connect, BringUpTypes, PortSc, flow
    <3>3. CASE Disconnect(p)
      <4>1. copy' \in PortSc
        BY <1>1, <3>3 DEF Disconnect, BringUpTypes, flow
      <4>2. [portsc[p] EXCEPT !.ccs = FALSE, !.csc = TRUE, !.ped = FALSE] \in PortSc
        BY <3>1 DEF PortSc
      <4>3. portsc' \in [Ports -> PortSc]
        BY <1>1, <3>3, <4>2 DEF Disconnect, BringUpTypes
      <4> QED BY <4>1, <4>3
    <3>4. CASE PowerLost(p)
      BY <1>1, <3>4, PowerStates DEF PowerLost, BringUpTypes, flow
    <3>5. CASE PortResetEnds(p)
      <4>1. copy' \in PortSc
        BY <1>1, <3>5 DEF PortResetEnds, BringUpTypes, flow
      <4>2. [portsc[p] EXCEPT !.pr = FALSE, !.prc = TRUE, !.wrc = p \in Usb3Ports, !.ped = portsc[p].ccs] \in PortSc
        BY <3>1 DEF PortSc
      <4>3. portsc' \in [Ports -> PortSc]
        BY <1>1, <3>5, <4>2 DEF PortResetEnds, BringUpTypes
      <4> QED BY <4>1, <4>3
    <3> QED BY <2>3, <3>2, <3>3, <3>4, <3>5
  <2>4. CASE StartController \/ WaitStartBlind \/ WaitStart \/ SendUnready \/ SendEnableSlot \/ TakeAnswer \/ PortTimeout
    BY <1>1, <2>4 DEF BringUpTypes, StartController, WaitStartBlind, WaitStart, SendUnready, SendEnableSlot, TakeAnswer, PortTimeout
  <2>5. CASE ScanPort \/ ReadPort \/ WaitPort \/ CheckPort
    BY <1>1, <2>5 DEF BringUpTypes, ScanPort, ReadPort, WaitPort, CheckPort, AtPort, Goto
  <2>6. CASE PowerPort
    <3>1. port \in Ports
      BY <1>1, <2>6 DEF BringUpTypes, PowerPort, AtPort
    <3>2. PICK on \in BOOLEAN : portsc' = [portsc EXCEPT ![port] = Powered(on)] /\ copy' = portsc'[port]
      BY <2>6 DEF PowerPort
    <3>3. portsc' \in [Ports -> PortSc]
      <4>1. Powered(on) \in PortSc
        BY DEF Powered, PortSc
      <4> QED BY <1>1, <3>2, <4>1 DEF BringUpTypes
    <3> QED BY <3>1, <3>2, <3>3
  <2>7. CASE ClearChanges \/ StartPortReset \/ SettlePort
    <3>1. port \in Ports /\ portsc[port] \in PortSc /\ copy \in PortSc
      BY <1>1, <2>7 DEF BringUpTypes, ClearChanges, StartPortReset, SettlePort, AtPort, Goto
    <3>2. /\ Changed(copy) \in PortSc /\ Settled(copy) \in PortSc
          /\ [copy EXCEPT !.pr = TRUE] \in PortSc
      BY <3>1 DEF Changed, Settled, PortSc
    <3>3. PortShape(portsc[port])
      BY <3>1 DEF BringUpInv, PortInv
    <3>5. \A v \in PortSc : Written(portsc[port], v) \in PortSc
      BY <3>1, <3>3, WrittenPort
    <3>6. \A v \in PortSc : [portsc EXCEPT ![port] = Written(portsc[port], v)] \in [Ports -> PortSc]
      BY <1>1, <3>5 DEF BringUpTypes
    <3>7. CASE ClearChanges
      BY <3>2, <3>6, <3>7 DEF ClearChanges
    <3>8. CASE StartPortReset
      BY <1>1, <3>2, <3>6, <3>8 DEF StartPortReset, BringUpTypes
    <3>9. CASE SettlePort
      BY <1>1, <3>2, <3>6, <3>9 DEF SettlePort, BringUpTypes
    <3> QED BY <2>7, <3>7, <3>8, <3>9
  <2>8. CASE Stop \/ UNCHANGED driverVars
    BY <1>1, <2>8 DEF BringUpTypes, Stop, driverVars, flow
  <2> QED BY <2>1, <2>2, <2>3, <2>4, <2>5, <2>6, <2>7, <2>8 DEF DriverNext, Controller, StartDevice, ResetPort
<1>4. Tables
  <2>1. CASE UNCHANGED <<dcbaa, asked, answers, enabled, devices, gaveUp>>
    BY <1>1, <2>1 DEF BringUpTypes
  <2>2. CASE ResetEnds \/ Configure \/ SendEnableSlot
    <3>1. CASE ResetEnds
      BY <1>1, <3>1 DEF ResetEnds, BringUpTypes, outside
    <3>2. CASE Configure
      <4>1. dcbaa' \in [0..MaxDeviceSlots -> Int]
        <5> DEFINE c == IF MaxScratchpadBuffers > 0 THEN Scratchpads ELSE None
        <5>1. c \in Int
          BY DEF None, Scratchpads
        <5>2. dcbaa' = [dcbaa EXCEPT ![0] = c]
          BY <3>2 DEF Configure
        <5> HIDE DEF c
        <5> QED BY <1>1, <5>1, <5>2 DEF BringUpTypes
      <4> QED BY <1>1, <3>2, <4>1 DEF Configure, BringUpTypes, outside
    <3>3. CASE SendEnableSlot
      BY <1>1, <3>3 DEF SendEnableSlot, BringUpTypes, outside
    <3> QED BY <2>2, <3>1, <3>2, <3>3
  <2>3. CASE Answer
    <3>1. PICK slot \in 0..MaxDeviceSlots : enabled' = enabled \cup ({slot} \ {0}) /\ answers' = Append(answers, slot)
      <4> DEFINE slot == IF Free = {} THEN 0 ELSE CHOOSE s \in Free : \A t \in Free : s <= t
      <4>1. Free # {} => \E s \in Free : \A t \in Free : s <= t
        BY FreeLeast
      <4>2. slot \in 0..MaxDeviceSlots
        BY <4>1, HcsNat DEF Free
      <4>3. enabled' = enabled \cup ({slot} \ {0}) /\ answers' = Append(answers, slot)
        BY <2>3 DEF Answer
      <4> HIDE DEF slot
      <4> QED BY <4>2, <4>3
    <3>2. answers' \in Seq(0..MaxDeviceSlots)
      BY <1>1, <3>1 DEF BringUpTypes
    <3>3. enabled' \subseteq 1..MaxDeviceSlots
      BY <1>1, <3>1 DEF BringUpTypes
    <3>4. asked' \in Nat /\ UNCHANGED <<dcbaa, devices, gaveUp>>
      BY <1>1, <2>3 DEF Answer, BringUpTypes, outside
    <3> QED BY <1>1, <3>2, <3>3, <3>4 DEF BringUpTypes
  <2>4. CASE TakeAnswer
    <3>1. port \in Ports /\ UNCHANGED <<asked, enabled>> /\ answers' = <<>>
      BY <1>1, <2>4 DEF TakeAnswer, Taken, BringUpTypes, AtPort
    <3>2. answers # <<>> => Head(answers) \in 0..MaxDeviceSlots
      <4>1. answers \in Seq(0..MaxDeviceSlots)
        BY <1>1 DEF BringUpTypes
      <4> QED BY <4>1, HeadTyped
    <3>3. /\ dcbaa' = dcbaa /\ devices' = devices /\ gaveUp' \subseteq gaveUp \cup {port}
          \/ \E s \in 1..MaxDeviceSlots :
                /\ dcbaa' = [dcbaa EXCEPT ![s] = port]
                /\ devices' = devices \cup {[port |-> port, slot |-> s]} /\ gaveUp' = gaveUp
      BY <2>4, <3>2 DEF TakeAnswer, CreateDevice, GiveUp
    <3>4. dcbaa' \in [0..MaxDeviceSlots -> Int]
      BY <1>1, <3>1, <3>3 DEF BringUpTypes, Ports
    <3>5. devices' \subseteq [port : Ports, slot : 1..MaxDeviceSlots]
      BY <1>1, <3>1, <3>3 DEF BringUpTypes
    <3>6. gaveUp' \subseteq Ports
      BY <1>1, <3>1, <3>3 DEF BringUpTypes
    <3>7. answers' \in Seq(0..MaxDeviceSlots)
      BY <3>1
    <3> QED BY <1>1, <3>1, <3>4, <3>5, <3>6, <3>7 DEF BringUpTypes
  <2>5. CASE PowerPort \/ CheckPort \/ PortTimeout
    BY <1>1, <2>5 DEF PowerPort, CheckPort, PortTimeout, GiveUp, BringUpTypes, AtPort, slots
  <2>6. CASE InitDevice /\ ~Configure
    BY <2>1, <2>6 DEF InitDevice, FindFails, FindDevice, ClearRun, WaitHalt, SetReset, WaitReset, CheckRegs, ConfigureRuntime, slots, outside
  <2>7. CASE Controller /\ ~ResetEnds /\ ~Answer
    BY <2>1, <2>7 DEF Controller, Halt, BecomesReady, Starts, PortEvents, Connect, Disconnect, PowerLost, PortResetEnds, slots, outside
  <2>8. CASE StartController \/ WaitStartBlind \/ WaitStart \/ ScanPort \/ SendUnready
    BY <2>1, <2>8 DEF StartController, WaitStartBlind, WaitStart, ScanPort, SendUnready, slots, outside
  <2>9. CASE ReadPort \/ ClearChanges \/ StartPortReset \/ WaitPort \/ SettlePort
    BY <2>1, <2>9 DEF ReadPort, ClearChanges, StartPortReset, WaitPort, SettlePort, slots, outside
  <2>10. CASE Stop \/ UNCHANGED driverVars
    BY <2>1, <2>10 DEF Stop, driverVars, slots, outside
  <2> QED BY <2>2, <2>3, <2>4, <2>5, <2>6, <2>7, <2>8, <2>9, <2>10 DEF DriverNext, StartDevice, ResetPort
<1>5. Place
  <2>1. CASE Unmoved
    BY <1>1, <2>1 DEF BringUpTypes
  <2>2. CASE Controller \/ Stop \/ UNCHANGED driverVars
    BY <2>1, <2>2 DEF Controller, Halt, ResetEnds, BecomesReady, Starts, Answer, PortEvents,
       Connect, Disconnect, PowerLost, PortResetEnds, Stop, driverVars, flow
  <2>3. CASE InitDevice
    <3>1. stage' \in Early \cup {"start", "hang"} /\ port' = port /\ tries' \in Int
      BY <1>1, <2>3, TriesAssumption DEF InitDevice, FindFails, FindDevice, ClearRun, WaitHalt, SetReset, WaitReset, CheckRegs,
         Configure, ConfigureRuntime, Goto, Early, BringUpTypes
    <3> QED BY <1>1, <3>1 DEF BringUpTypes, Stages, Early, AtPort, Scanning
  <2>4. CASE StartController \/ WaitStartBlind
    BY <1>1, <2>4, TriesAssumption DEF StartController, WaitStartBlind, Goto, BringUpTypes, Stages, Scanning, AtPort
  <2>5. CASE WaitStart
    <3>1. tries \in Nat /\ sts.hch \in BOOLEAN /\ port' = port
      BY <1>1, <2>5 DEF BringUpTypes, WaitStart
    <3>2. port = 0
      BY <2>5 DEF BringUpInv, RulesInv, WaitStart
    <3>3. 0 \in Ports /\ 0 \in 0..MaxPorts
      BY HcsNat DEF Ports
    <3>4. stage' \in {"done", "scan", "waitStart"} /\ (stage' = "waitStart" => tries > 0)
      BY <2>5, <3>1, WaitStartNext
    <3>5. tries' \in Int /\ (tries > 0 => tries' \in Nat)
      BY <2>5, <3>1 DEF WaitStart
    <3> QED BY <3>1, <3>2, <3>3, <3>4, <3>5 DEF Stages, Scanning, AtPort
  <2>6. ASSUME port \in Ports, tries' \in Int, (stage' \in AtPort /\ port' = port) \/ Skip PROVE Place
    <3>1. CASE stage' \in AtPort /\ port' = port
      <4>1. stage' \in Stages /\ stage' # "waitStart"
        BY <3>1 DEF Stages, AtPort
      <4>2. port' \in 0..MaxPorts
        BY <2>6, <3>1, HcsNat DEF Ports
      <4> QED BY <2>6, <3>1, <4>1, <4>2
    <3>2. CASE Skip
      <4>1. stage' \in {"done", "scan"} /\ (stage' = "scan" => port' \in Ports) /\ port' \in 0..MaxPorts
        BY <2>6, <3>2, NextPortIs DEF Skip
      <4> QED BY <2>6, <4>1 DEF Stages, Scanning, AtPort
    <3> QED BY <2>6, <3>1, <3>2
  <2>7. CASE ScanPort
    BY <1>1, <2>6, <2>7 DEF ScanPort, BringUpTypes, AtPort
  <2>8. CASE ResetPort
    BY <1>1, <2>6, <2>8, TriesAssumption DEF ResetPort, PowerPort, ReadPort, ClearChanges, StartPortReset, WaitPort, PortTimeout,
       SettlePort, CheckPort, GiveUp, PortTurn, Goto, BringUpTypes, AtPort
  <2>9. CASE SendUnready \/ SendEnableSlot
    BY <1>1, <2>9 DEF SendUnready, SendEnableSlot, Goto, BringUpTypes, Stages, Scanning, AtPort
  <2>10. CASE TakeAnswer
    <3>1. port \in Ports /\ tries' \in Int
      BY <1>1, <2>10 DEF TakeAnswer, BringUpTypes, AtPort
    <3>2. Skip \/ (stage' = "hang" /\ port' = port)
      BY <2>10 DEF TakeAnswer, CreateDevice, GiveUp
    <3> QED BY <1>1, <2>6, <3>1, <3>2 DEF BringUpTypes, Stages, AtPort
  <2> QED BY <2>2, <2>3, <2>4, <2>5, <2>7, <2>8, <2>9, <2>10 DEF DriverNext, StartDevice
<1> QED BY <1>2, <1>3, <1>4, <1>5 DEF BringUpTypes

LEMMA SlotStep ==
    ASSUME BringUpInv, [DriverNext]_driverVars
    PROVE  SlotInv'
<1>1. BringUpTypes /\ RulesInv /\ SlotInv
  BY DEF BringUpInv
<1>2. CASE UNCHANGED <<ready, dcbaa, asked, answers, enabled, devices>>
  BY <1>1, <1>2 DEF SlotInv, SlotsDistinct
<1>3. CASE ResetEnds
  <2>1. ~ready /\ UNCHANGED <<ready, dcbaa, asked, answers, devices>>
    BY <1>1, <1>3 DEF ResetEnds, RulesInv, known
  <2> QED BY <1>1, <2>1 DEF SlotInv, SlotsDistinct
<1>4. CASE Answer
  <2>1. ready /\ UNCHANGED <<ready, dcbaa, devices>>
    BY <1>1, <1>4 DEF Answer, SlotInv, known
  <2>2. PICK slot \in {0} \cup Free : enabled' = enabled \cup ({slot} \ {0}) /\ answers' = Append(answers, slot)
    <3> DEFINE slot == IF Free = {} THEN 0 ELSE CHOOSE s \in Free : \A t \in Free : s <= t
    <3>1. Free # {} => \E s \in Free : \A t \in Free : s <= t
      BY FreeLeast
    <3>2. slot \in {0} \cup Free
      BY <3>1
    <3>3. enabled' = enabled \cup ({slot} \ {0}) /\ answers' = Append(answers, slot)
      BY <1>4 DEF Answer
    <3> HIDE DEF slot
    <3> QED BY <3>2, <3>3
  <2>3. SlotsDistinct'
    BY <1>1, <2>1, <2>2 DEF SlotInv, SlotsDistinct
  <2>4. ASSUME NEW i \in DOMAIN answers', answers'[i] # 0
        PROVE  answers'[i] \in enabled' /\ \A d \in devices' : d.slot # answers'[i]
    <3>1. answers \in Seq(0..MaxDeviceSlots)
      BY <1>1 DEF BringUpTypes
    <3>2. CASE i = Len(answers) + 1
      <4>1. answers'[i] = slot
        BY <2>2, <3>1, <3>2
      <4> QED BY <1>1, <2>1, <2>2, <2>4, <4>1 DEF Free, SlotInv, SlotsDistinct
    <3>3. CASE i # Len(answers) + 1
      <4>1. i \in DOMAIN answers /\ answers'[i] = answers[i]
        BY <2>2, <2>4, <3>1, <3>3
      <4> QED BY <1>1, <2>1, <2>2, <2>4, <4>1 DEF SlotInv
    <3> QED BY <3>2, <3>3
  <2> QED BY <2>1, <2>3, <2>4 DEF SlotInv
<1>5. CASE Configure
  <2>1. ~ready /\ UNCHANGED <<ready, asked, answers, devices, enabled>>
    BY <1>1, <1>5 DEF Configure, RulesInv, Early, known
  <2>2. dcbaa'[0] \in {-1, -2}
    BY <1>1, <1>5, HcsNat DEF Configure, BringUpTypes, None, Scratchpads
  <2>3. dcbaa'[0] \notin Ports
    BY <2>2, HcsNat DEF Ports
  <2> QED BY <1>1, <2>1, <2>3 DEF SlotInv, SlotsDistinct
<1>6. CASE ConfigureRuntime
  BY <1>1, <1>6 DEF ConfigureRuntime, slots, SlotInv, SlotsDistinct
<1>7. CASE SendEnableSlot
  BY <1>1, <1>7 DEF SendEnableSlot, known, SlotInv, SlotsDistinct
<1>8. CASE TakeAnswer
  <2>1. answers' = <<>> /\ UNCHANGED <<ready, asked, enabled>> /\ port \in Ports
    BY <1>1, <1>8 DEF TakeAnswer, Taken, known, BringUpTypes, AtPort
  <2>2. CASE UNCHANGED <<dcbaa, devices>>
    BY <1>1, <2>1, <2>2 DEF SlotInv, SlotsDistinct
  <2>3. CASE ~UNCHANGED <<dcbaa, devices>>
    <3>1. PICK s : /\ answers # <<>> /\ s = Head(answers) /\ s # 0
                   /\ dcbaa' = [dcbaa EXCEPT ![s] = port]
                   /\ devices' = devices \cup {[port |-> port, slot |-> s]}
      BY <1>8, <2>3 DEF TakeAnswer, CreateDevice, GiveUp
    <3>2. 1 \in DOMAIN answers /\ s = answers[1]
      BY <1>1, <3>1 DEF BringUpTypes
    <3>3. s \in enabled /\ (\A d \in devices : d.slot # s) /\ s \in 1..MaxDeviceSlots /\ ready
      BY <1>1, <3>1, <3>2 DEF SlotInv, BringUpTypes
    <3>4. dcbaa \in [0..MaxDeviceSlots -> Int] /\ devices \subseteq [port : Ports, slot : 1..MaxDeviceSlots]
      BY <1>1 DEF BringUpTypes
    <3>5. SlotsDistinct'
      <4>1. ASSUME NEW d \in devices' PROVE d.slot \in enabled' /\ dcbaa'[d.slot] = d.port
        BY <1>1, <2>1, <3>1, <3>3, <3>4 DEF SlotInv, SlotsDistinct
      <4>2. ASSUME NEW c \in devices', NEW d \in devices', c.slot = d.slot PROVE c = d
        BY <1>1, <3>1, <3>3, <4>2 DEF SlotInv, SlotsDistinct
      <4>3. dcbaa'[0] \notin Ports
        BY <1>1, <3>1, <3>3, <3>4, HcsNat DEF SlotInv, SlotsDistinct
      <4> QED BY <4>1, <4>2, <4>3 DEF SlotsDistinct
    <3> QED BY <2>1, <3>3, <3>5 DEF SlotInv
  <2> QED BY <2>2, <2>3
<1>9. CASE PortEvents
  BY <1>2, <1>9 DEF PortEvents, known
<1>10. CASE Controller /\ ~ResetEnds /\ ~Answer /\ ~PortEvents
  BY <1>2, <1>10 DEF Controller, Halt, BecomesReady, Starts, Connect, Disconnect, PowerLost, PortResetEnds, known, slots
<1>11. CASE InitDevice /\ ~Configure /\ ~ConfigureRuntime
  BY <1>2, <1>11 DEF InitDevice, FindFails, FindDevice, ClearRun, WaitHalt, SetReset, WaitReset, CheckRegs, known, slots
<1>12. CASE StartDevice /\ ~SendEnableSlot /\ ~TakeAnswer
  BY <1>2, <1>12 DEF StartDevice, ResetPort, StartController, WaitStartBlind, WaitStart, ScanPort,
     PowerPort, ReadPort, ClearChanges, StartPortReset, WaitPort, PortTimeout, SettlePort, CheckPort, SendUnready, known, slots
<1>13. CASE Stop \/ UNCHANGED driverVars
  BY <1>2, <1>13 DEF Stop, driverVars, known, slots
<1> QED BY <1>3, <1>4, <1>5, <1>6, <1>7, <1>8, <1>9, <1>10, <1>11, <1>12, <1>13 DEF DriverNext

(* Nothing a port's history depends on has changed. *)
LEMMA PortsKept ==
    ASSUME BringUpInv, UNCHANGED <<port, ready, portsc, devices, gaveUp>>,
           stage' \in Early \cup Scanning => stage \in Early \cup Scanning,
           stage' \in {"enable", "wait"} => stage \in {"enable", "wait"}
    PROVE  PortInv'
<1>1. PortInv
  BY DEF BringUpInv
<1> QED BY <1>1 DEF PortInv, Untouched, ChangesKept, Scanned

(* What happens at a port keeps the driver's view of it, or sets its       *)
(* change bit, or takes its power.                                         *)
LEMMA PortMoves ==
    ASSUME BringUpInv, NEW p \in Ports, NEW v \in PortSc, PortShape(v),
           portsc' = [portsc EXCEPT ![p] = v],
           v.pp => v.csc \/ (portsc[p].pp /\ v.ccs = portsc[p].ccs /\ v.csc = portsc[p].csc),
           UNCHANGED <<stage, port, ready, devices, gaveUp>>
    PROVE  PortInv'
<1>1. BringUpTypes /\ PortInv
  BY DEF BringUpInv
<1>2. \A q \in Ports : portsc'[q] = IF q = p THEN v ELSE portsc[q]
  BY <1>1 DEF BringUpTypes
<1>3. ~v.pp => ~v.ccs
  BY PowerStates DEF PortShape
<1>4. ASSUME NEW q \in Ports
      PROVE  PortShape(portsc[q])' /\ (Untouched(q)' /\ portsc[q].ccs' => portsc[q].csc')
  <2>1. CASE q = p
    BY <1>1, <1>2, <1>3, <2>1 DEF PortInv, Untouched, PortSc, PortShape
  <2>2. CASE q # p
    BY <1>1, <1>2, <2>2 DEF PortInv, Untouched, PortShape
  <2> QED BY <2>1, <2>2
<1>5. stage \in {"enable", "wait"} => port \in Ports
  BY <1>1 DEF BringUpTypes, AtPort
<1>6. (stage \in {"enable", "wait"} /\ ready /\ portsc[port].pp => portsc[port].ccs \/ portsc[port].csc)'
  BY <1>1, <1>2, <1>5 DEF PortInv, PortSc
<1>7. ChangesKept'
  <2> SUFFICES ASSUME NEW q \in Ports, Scanned(q)', portsc'[q].pp, q \notin gaveUp',
                      portsc'[q].ccs # (\E d \in devices' : d.port = q)
               PROVE  portsc'[q].csc
    BY DEF ChangesKept
  <2>1. Scanned(q)
    BY DEF Scanned
  <2>2. CASE q = p
    BY <1>1, <1>2, <2>1, <2>2 DEF PortInv, ChangesKept
  <2>3. CASE q # p
    BY <1>1, <1>2, <2>1, <2>3 DEF PortInv, ChangesKept
  <2> QED BY <2>2, <2>3
<1> QED BY <1>1, <1>4, <1>6, <1>7 DEF PortInv

(* A port is left: given up, without a device, or with its device.         *)
LEMMA PortLeft ==
    ASSUME BringUpInv, port \in Ports, Skip, ready' = ready, portsc' \in [Ports -> PortSc],
           \A q \in Ports : q # port => portsc'[q] = portsc[q],
           PortShape(portsc'[port]),
           \/ gaveUp' = gaveUp \cup {port} /\ devices' = devices
           \/ /\ gaveUp' = gaveUp /\ devices' = devices
              /\ portsc' = portsc /\ (portsc[port].pp => ~portsc[port].ccs)
           \/ /\ gaveUp' = gaveUp /\ portsc' = portsc
              /\ \E s \in 1..MaxDeviceSlots : devices' = devices \cup {[port |-> port, slot |-> s]}
              /\ ready /\ portsc[port].pp => portsc[port].ccs \/ portsc[port].csc
    PROVE  PortInv'
<1>1. BringUpTypes /\ PortInv
  BY DEF BringUpInv
<1>2. port' = port + 1 /\ port \in Nat /\ Ports \subseteq Nat /\ stage' \in {"done", "scan"}
  BY NextPortIs, HcsNat DEF Skip, Ports
<1>3. ASSUME NEW d \in devices' PROVE d.port < port'
  <2>1. CASE d \in devices
    <3>1. d.port \in Nat /\ d.port < port
      BY <1>1, <1>2, <2>1 DEF PortInv, BringUpTypes
    <3> QED BY <1>2, <3>1
  <2>2. CASE d \notin devices
    <3>1. d.port = port
      BY <1>3, <2>2
    <3> QED BY <1>2, <3>1
  <2> QED BY <2>1, <2>2
<1>4. ASSUME NEW q \in gaveUp' PROVE q < port'
  <2>1. CASE q \in gaveUp
    <3>1. q \in Nat /\ q < port
      BY <1>1, <1>2, <2>1 DEF PortInv, BringUpTypes
    <3> QED BY <1>2, <3>1
  <2>2. CASE q \notin gaveUp
    <3>1. q = port
      BY <1>4, <2>2
    <3> QED BY <1>2, <3>1
  <2> QED BY <2>1, <2>2
<1>5. ASSUME NEW q \in Ports
      PROVE  PortShape(portsc'[q]) /\ (Untouched(q)' /\ portsc'[q].ccs => portsc'[q].csc)
  <2>1. Untouched(q)' => q > port
    BY <1>2 DEF Untouched
  <2>2. CASE q = port
    BY <1>2, <2>1, <2>2
  <2>3. CASE q # port
    BY <1>1, <2>1, <2>3 DEF PortInv, Untouched
  <2> QED BY <2>2, <2>3
<1>6. ChangesKept'
  <2> SUFFICES ASSUME NEW q \in Ports, Scanned(q)', portsc'[q].pp, q \notin gaveUp',
                      portsc'[q].ccs # (\E d \in devices' : d.port = q)
               PROVE  portsc'[q].csc
    BY DEF ChangesKept
  <2>1. ready /\ q < port + 1
    BY <1>2 DEF Scanned
  <2>2. CASE q = port
    <3>1. ~(\E d \in devices : d.port = port)
      BY <1>1, <1>2 DEF PortInv, BringUpTypes
    <3>2. portsc'[port].ccs \in BOOLEAN
      BY DEF PortSc
    <3>3. CASE gaveUp' = gaveUp \cup {port}
      BY <2>2, <3>3
    <3>4. CASE devices' = devices /\ portsc' = portsc /\ (portsc[port].pp => ~portsc[port].ccs)
      BY <2>2, <3>1, <3>2, <3>4
    <3>5. CASE /\ portsc' = portsc
               /\ \E s \in 1..MaxDeviceSlots : devices' = devices \cup {[port |-> port, slot |-> s]}
               /\ ready /\ portsc[port].pp => portsc[port].ccs \/ portsc[port].csc
      <4>1. \E d \in devices' : d.port = port
        <5>1. PICK s \in 1..MaxDeviceSlots : devices' = devices \cup {[port |-> port, slot |-> s]}
          BY <3>5
        <5>2. [port |-> port, slot |-> s] \in devices' /\ [port |-> port, slot |-> s].port = port
          BY <5>1
        <5> QED BY <5>2
      <4>2. ~portsc[port].ccs
        BY <2>2, <3>2, <3>5, <4>1
      <4> QED BY <2>1, <2>2, <3>5, <4>2
    <3> QED BY <3>3, <3>4, <3>5
  <2>3. CASE q # port
    <3>1. Scanned(q) /\ portsc'[q] = portsc[q] /\ q \notin gaveUp
      <4>1. q < port
        <5>1. q \in Nat /\ port \in Nat /\ q < port + 1 /\ q # port
          BY <1>2, <2>1, <2>3
        <5> QED BY <5>1
      <4>2. gaveUp \subseteq gaveUp' /\ portsc'[q] = portsc[q]
        BY <2>3
      <4> QED BY <2>1, <4>1, <4>2 DEF Scanned
    <3>2. (\E d \in devices' : d.port = q) <=> (\E d \in devices : d.port = q)
      BY <2>3
    <3> QED BY <1>1, <3>1, <3>2 DEF PortInv, ChangesKept
  <2> QED BY <2>2, <2>3
<1> QED BY <1>2, <1>3, <1>4, <1>5, <1>6 DEF PortInv

(* The driver writes the register of the port it is at.                    *)
LEMMA PortWritten ==
    ASSUME BringUpInv, port \in Ports, NEW v \in PortSc, PortShape(v),
           portsc' = [portsc EXCEPT ![port] = v],
           UNCHANGED <<port, ready, devices, gaveUp>>,
           stage' \in AtPort \ {"enable", "wait"}
    PROVE  PortInv'
<1>1. BringUpTypes /\ PortInv
  BY DEF BringUpInv
<1>2. \A q \in Ports : portsc'[q] = IF q = port THEN v ELSE portsc[q]
  BY <1>1 DEF BringUpTypes
<1>3. stage' \notin Early \cup Scanning \cup {"enable", "wait"} /\ port \in Nat /\ Ports \subseteq Nat
  BY HcsNat DEF AtPort, Early, Scanning, Ports
<1>4. ASSUME NEW q \in Ports
      PROVE  PortShape(portsc'[q]) /\ (Untouched(q)' /\ portsc'[q].ccs => portsc'[q].csc)
  <2>1. Untouched(q)' => q > port
    BY <1>3 DEF Untouched
  <2> QED BY <1>1, <1>2, <1>3, <2>1 DEF PortInv, Untouched
<1>5. ChangesKept'
  <2> SUFFICES ASSUME NEW q \in Ports, Scanned(q)', portsc'[q].pp, q \notin gaveUp',
                      portsc'[q].ccs # (\E d \in devices' : d.port = q)
               PROVE  portsc'[q].csc
    BY DEF ChangesKept
  <2>1. Scanned(q) /\ q # port
    BY <1>3 DEF Scanned
  <2>2. portsc'[q] = portsc[q]
    BY <1>2, <2>1
  <2> QED BY <1>1, <2>1, <2>2 DEF PortInv, ChangesKept
<1> QED BY <1>1, <1>3, <1>4, <1>5 DEF PortInv

LEMMA PortStep ==
    ASSUME BringUpInv, [DriverNext]_driverVars
    PROVE  PortInv'
<1>1. BringUpTypes /\ RulesInv /\ SlotInv /\ PortInv
  BY DEF BringUpInv
<1>2. CASE Halt \/ BecomesReady \/ Starts \/ Answer \/ PortEvents \/ Stop \/ UNCHANGED driverVars
  BY <1>2, PortsKept DEF Halt, BecomesReady, Starts, Answer, PortEvents, Stop, driverVars, flow, known, slots, outside
<1>3. CASE InitDevice /\ ~ConfigureRuntime
  <2>1. UNCHANGED <<port, ready, portsc, devices, gaveUp>> /\ stage \in Early
        /\ stage' \notin {"enable", "wait"}
    BY <1>3 DEF InitDevice, FindFails, FindDevice, ClearRun, WaitHalt, SetReset, WaitReset, CheckRegs, Configure,
       known, slots, outside, Early, Goto
  <2> QED BY <2>1, PortsKept
<1>4. CASE ConfigureRuntime
  <2>1. port = 0 /\ UNCHANGED <<port, portsc, devices, gaveUp>> /\ stage = "runtime" /\ stage' = "start"
    BY <1>1, <1>4 DEF ConfigureRuntime, Goto, RulesInv, Early, slots, outside
  <2>2. ChangesKept'
    BY <2>1, HcsNat DEF ChangesKept, Scanned, Ports
  <2> QED BY <1>1, <2>1, <2>2 DEF PortInv, Untouched, Early, Scanning
<1>5. CASE ResetEnds
  <2>1. ~ready' /\ UNCHANGED <<port, devices, gaveUp>> /\ portsc' \in [Ports -> {PortOn, PortOff}]
    BY <1>1, <1>5 DEF ResetEnds, RulesInv, known, flow, outside
  <2>2. \A q \in Ports : PortShape(portsc'[q]) /\ ~portsc'[q].ccs
    BY <2>1, PowerStates DEF PortShape
  <2>3. ChangesKept'
    BY <2>1 DEF ChangesKept, Scanned
  <2> QED BY <1>1, <2>1, <2>2, <2>3 DEF PortInv
<1>6. ASSUME NEW p \in Ports, Connect(p) \/ Disconnect(p) \/ PowerLost(p) \/ PortResetEnds(p)
      PROVE  PortInv'
  <2>1. UNCHANGED <<stage, port, ready, devices, gaveUp>>
    BY <1>6 DEF Connect, Disconnect, PowerLost, PortResetEnds, flow, known, slots, outside
  <2>2. portsc[p] \in PortSc /\ PortShape(portsc[p])
    BY <1>1 DEF BringUpTypes, PortInv
  <2>3. CASE Connect(p)
    <3> DEFINE v == [portsc[p] EXCEPT !.ccs = TRUE, !.csc = TRUE, !.ped = p \in Usb3Ports]
    <3>1. portsc' = [portsc EXCEPT ![p] = v] /\ portsc[p].pp
      BY <2>3 DEF Connect
    <3>2. v \in PortSc /\ v.csc /\ v.pp = portsc[p].pp /\ v.ccs
      <4>1. (p \in Usb3Ports) \in BOOLEAN
        OBVIOUS
      <4> QED BY <2>2, <4>1 DEF PortSc
    <3>3. PortShape(v)
      BY <3>1, <3>2 DEF PortShape
    <3> HIDE DEF v
    <3> QED BY <2>1, <3>1, <3>2, <3>3, PortMoves
  <2>4. CASE Disconnect(p)
    <3> DEFINE v == [portsc[p] EXCEPT !.ccs = FALSE, !.csc = TRUE, !.ped = FALSE]
    <3>1. portsc' = [portsc EXCEPT ![p] = v] /\ portsc[p].ccs
      BY <2>4 DEF Disconnect
    <3>2. v \in PortSc /\ v.csc /\ v.pp = portsc[p].pp /\ ~v.ped
      BY <2>2 DEF PortSc
    <3>3. PortShape(v)
      BY <2>2, <3>1, <3>2, PowerStates DEF PortShape
    <3> HIDE DEF v
    <3> QED BY <2>1, <3>1, <3>2, <3>3, PortMoves
  <2>5. CASE PowerLost(p)
    <3>1. portsc' = [portsc EXCEPT ![p] = PortOff]
      BY <2>5 DEF PowerLost
    <3>2. PortShape(PortOff)
      BY PowerStates DEF PortShape
    <3> QED BY <2>1, <3>1, <3>2, PowerStates, PortMoves
  <2>6. CASE PortResetEnds(p)
    <3> DEFINE v == [portsc[p] EXCEPT !.pr = FALSE, !.prc = TRUE, !.wrc = p \in Usb3Ports, !.ped = portsc[p].ccs]
    <3>1. portsc' = [portsc EXCEPT ![p] = v] /\ portsc[p].pr
      BY <2>6 DEF PortResetEnds
    <3>2. v \in PortSc /\ v.csc = portsc[p].csc /\ v.pp = portsc[p].pp /\ v.ccs = portsc[p].ccs /\ v.ped = v.ccs
      <4>1. (p \in Usb3Ports) \in BOOLEAN /\ portsc[p].ccs \in BOOLEAN
        BY <2>2 DEF PortSc
      <4>2. v \in PortSc
        BY <2>2, <4>1 DEF PortSc
      <4>3. v.csc = portsc[p].csc /\ v.pp = portsc[p].pp /\ v.ccs = portsc[p].ccs /\ v.ped = portsc[p].ccs
        BY <2>2 DEF PortSc
      <4> QED BY <4>2, <4>3
    <3>3. portsc[p].pp
      BY <2>2, <3>1, PowerStates DEF PortShape
    <3>4. PortShape(v)
      BY <3>2, <3>3 DEF PortShape
    <3> HIDE DEF v
    <3> QED BY <2>1, <3>1, <3>2, <3>3, <3>4, PortMoves
  <2> QED BY <1>6, <2>3, <2>4, <2>5, <2>6
<1>7. CASE StartController \/ WaitStartBlind \/ WaitStart
  <2>1. UNCHANGED <<port, ready, portsc, devices, gaveUp>> /\ stage \in Early \cup Scanning
    BY <1>7 DEF StartController, WaitStartBlind, WaitStart, Goto, Scanning, known, slots, outside
  <2>2. stage' \notin {"enable", "wait"}
    <3>1. CASE WaitStart
      BY <1>1, <3>1, WaitStartNext DEF BringUpTypes, WaitStart
    <3> QED BY <1>7, <3>1 DEF StartController, WaitStartBlind, Goto
  <2> QED BY <2>1, <2>2, PortsKept
<1>8. CASE ReadPort \/ WaitPort \/ SendUnready \/ SendEnableSlot
  <2>1. UNCHANGED <<port, ready, portsc, devices, gaveUp>>
    BY <1>8 DEF ReadPort, WaitPort, SendUnready, SendEnableSlot, known, slots, outside
  <2>2. /\ stage' \notin Early \cup Scanning
        /\ stage' \in {"enable", "wait"} => stage \in {"enable", "wait"}
    BY <1>8 DEF ReadPort, WaitPort, SendUnready, SendEnableSlot, Goto, Early, Scanning
  <2> QED BY <2>1, <2>2, PortsKept
<1>9. CASE ScanPort
  <2>1. port \in Ports /\ UNCHANGED <<ready, portsc, devices, gaveUp>> /\ stage = "scan"
    BY <1>1, <1>9 DEF ScanPort, BringUpTypes, known, slots, outside
  <2>2. CASE portsc[port].csc /\ portsc[port].ccs
    <3>1. stage' = "reset" /\ port' = port
      BY <1>9, <2>2 DEF ScanPort
    <3> QED BY <2>1, <3>1, PortsKept DEF Early, Scanning
  <2>3. CASE ~(portsc[port].csc /\ portsc[port].ccs)
    <3>1. Skip
      BY <1>9, <2>3 DEF ScanPort
    <3>2. ~portsc[port].ccs
      BY <1>1, <2>1, <2>3 DEF PortInv, Untouched, Scanning
    <3>3. PortShape(portsc[port]) /\ portsc \in [Ports -> PortSc]
      BY <1>1, <2>1 DEF PortInv, BringUpTypes
    <3> QED BY <2>1, <3>1, <3>2, <3>3, PortLeft
  <2> QED BY <2>2, <2>3
<1>10. CASE PowerPort \/ ClearChanges \/ StartPortReset \/ SettlePort \/ PortTimeout \/ CheckPort \/ TakeAnswer
  <2>1. port \in Ports /\ ready' = ready
    BY <1>1, <1>10 DEF PowerPort, ClearChanges, StartPortReset, SettlePort, PortTimeout, CheckPort, TakeAnswer,
       BringUpTypes, AtPort, Goto, known
  <2>2. portsc[port] \in PortSc /\ PortShape(portsc[port]) /\ portsc \in [Ports -> PortSc] /\ copy \in PortSc
    BY <1>1, <2>1 DEF BringUpTypes, PortInv
  <2>3. CASE PowerPort
    <3>1. PICK on \in BOOLEAN : /\ portsc' = [portsc EXCEPT ![port] = Powered(on)]
                                /\ IF on THEN stage' = "clearChanges" /\ UNCHANGED <<port, gaveUp>> ELSE GiveUp
      BY <2>3 DEF PowerPort
    <3>2. portsc[port] = PortOff /\ devices' = devices
      BY <2>2, <2>3 DEF PowerPort, PortShape, slots
    <3>4. Powered(on) \in PortSc /\ PortShape(Powered(on))
      BY DEF Powered, PortSc, PortShape, PortOff
    <3>5. CASE on
      BY <2>1, <3>1, <3>2, <3>4, <3>5, PortWritten DEF AtPort
    <3>6. CASE ~on
      <4>1. Skip /\ gaveUp' = gaveUp \cup {port}
        BY <3>1, <3>6 DEF GiveUp
      <4>2. portsc' \in [Ports -> PortSc] /\ portsc'[port] = Powered(on) /\ \A q \in Ports : q # port => portsc'[q] = portsc[q]
        BY <2>1, <2>2, <3>1, <3>4
      <4> QED BY <2>1, <3>2, <3>4, <4>1, <4>2, PortLeft
    <3> QED BY <3>5, <3>6
  <2>4. CASE ClearChanges \/ StartPortReset \/ SettlePort
    <3>1. PICK v \in PortSc : portsc' = [portsc EXCEPT ![port] = Written(portsc[port], v)]
      <4>1. /\ Changed(copy) \in PortSc /\ Settled(copy) \in PortSc
            /\ [copy EXCEPT !.pr = TRUE] \in PortSc
        BY <2>2 DEF Changed, Settled, PortSc
      <4> QED BY <2>4, <4>1 DEF ClearChanges, StartPortReset, SettlePort
    <3>2. Written(portsc[port], v) \in PortSc /\ PortShape(Written(portsc[port], v))
      BY <2>2, WrittenPort
    <3>3. UNCHANGED <<port, devices, gaveUp>> /\ stage' \in AtPort \ {"enable", "wait"}
      BY <2>4 DEF ClearChanges, StartPortReset, SettlePort, Goto, slots, outside, AtPort
    <3> QED BY <2>1, <3>1, <3>2, <3>3, PortWritten
  <2>5. CASE PortTimeout
    BY <2>1, <2>2, <2>5, PortLeft DEF PortTimeout, GiveUp, slots
  <2>6. CASE CheckPort
    <3>1. UNCHANGED <<portsc, devices>>
      BY <2>6 DEF CheckPort, slots
    <3>2. CASE portsc[port].ped
      <4>1. stage' = "enable" /\ UNCHANGED <<port, gaveUp>>
        BY <2>6, <3>2 DEF CheckPort, PortEnabled
      <4>2. portsc[port].ccs
        BY <2>2, <3>2 DEF PortShape
      <4>3. stage' \notin Early \cup Scanning
        BY <4>1 DEF Early, Scanning
      <4> QED BY <1>1, <2>1, <3>1, <4>1, <4>2, <4>3 DEF PortInv, Untouched, ChangesKept, Scanned
    <3>3. CASE ~portsc[port].ped
      BY <2>1, <2>2, <2>6, <3>1, <3>3, PortLeft DEF CheckPort, PortEnabled, GiveUp
    <3> QED BY <3>2, <3>3
  <2>7. CASE TakeAnswer
    <3>1. stage = "wait" /\ portsc' = portsc
      BY <2>7 DEF TakeAnswer
    <3>2. answers # <<>> => Head(answers) \in 0..MaxDeviceSlots
      BY <1>1, HeadTyped DEF BringUpTypes
    <3>3. \/ GiveUp /\ devices' = devices
          \/ /\ Skip /\ gaveUp' = gaveUp
             /\ \E s \in 1..MaxDeviceSlots : devices' = devices \cup {[port |-> port, slot |-> s]}
          \/ stage' = "hang" /\ UNCHANGED <<port, devices, gaveUp>>
      BY <2>7, <3>2 DEF TakeAnswer, CreateDevice
    <3>4. CASE GiveUp /\ devices' = devices
      BY <2>1, <2>2, <3>1, <3>4, PortLeft DEF GiveUp
    <3>5. CASE /\ Skip /\ gaveUp' = gaveUp
               /\ \E s \in 1..MaxDeviceSlots : devices' = devices \cup {[port |-> port, slot |-> s]}
      <4>1. ready /\ portsc[port].pp => portsc[port].ccs \/ portsc[port].csc
        BY <1>1, <3>1 DEF PortInv
      <4> QED BY <2>1, <2>2, <3>1, <3>5, <4>1, PortLeft
    <3>6. CASE stage' = "hang" /\ UNCHANGED <<port, devices, gaveUp>>
      BY <2>1, <3>1, <3>6, PortsKept DEF Early, Scanning
    <3> QED BY <3>3, <3>4, <3>5, <3>6
  <2> QED BY <1>10, <2>3, <2>4, <2>5, <2>6, <2>7
<1> QED BY <1>2, <1>3, <1>4, <1>5, <1>6, <1>7, <1>8, <1>9, <1>10
        DEF DriverNext, InitDevice, StartDevice, ResetPort, Controller

LEMMA BringUpAlways == DriverSpec => []BringUpInv
<1>1. DriverInit => BringUpInv
  BY BringUpStart
<1>2. BringUpInv /\ [DriverNext]_driverVars => BringUpInv'
  BY TypesStep, RulesStep, SlotStep, PortStep DEF BringUpInv
<1> QED BY <1>1, <1>2, PTL DEF DriverSpec

(* Every device has an enabled slot and a context of its own, for every    *)
(* number of ports and slots, with answers that come late or not at all.   *)
THEOREM SlotsDistinctTheorem == DriverSpec => []SlotsDistinct
<1>1. BringUpInv => SlotsDistinct
  BY DEF BringUpInv, SlotInv
<1> QED BY <1>1, BringUpAlways, PTL

(* No change of a port behind the scan is cleared unread, however devices  *)
(* are plugged and unplugged.                                              *)
THEOREM ChangesKeptTheorem == DriverSpec => []ChangesKept
<1>1. BringUpInv => ChangesKept
  BY DEF BringUpInv, PortInv
<1> QED BY <1>1, BringUpAlways, PTL

(* The controller is reset when it stands still, programmed when it is     *)
(* ready, and started with everything in place.                            *)
THEOREM RegisterRulesTheorem == DriverSpec => RegisterRules
<1> DEFINE Rules ==
      /\ (cmd'.hcreset /\ ~cmd.hcreset) => sts.hch
      /\ (regs' # regs /\ regs' # {}) => ~cmd.hcreset /\ ~sts.cnr /\ ~cmd.run
      /\ (cmd'.run /\ ~cmd.run /\ ready) => regs = OpRegs /\ erst /\ ~sts.cnr /\ ~cmd.hcreset
<1>1. ASSUME BringUpInv, [DriverNext]_driverVars PROVE [Rules]_driverVars
  <2>1. BringUpTypes /\ RulesInv
    BY <1>1 DEF BringUpInv
  <2>2. CASE UNCHANGED <<cmd, regs>>
    BY <2>2
  <2>3. CASE ClearRun \/ StartController
    <3>1. cmd'.hcreset = cmd.hcreset /\ regs' = regs /\ (cmd'.run => StartController)
      BY <2>1, <2>3 DEF ClearRun, StartController, BringUpTypes
    <3> QED BY <2>1, <3>1 DEF RulesInv
  <2>4. CASE SetReset
    <3>1. stage = "setReset" /\ cmd'.run = cmd.run /\ regs' = regs
      BY <2>1, <2>4 DEF SetReset, Goto, BringUpTypes
    <3> QED BY <2>1, <3>1 DEF RulesInv
  <2>5. CASE Configure
    <3>1. stage = "configure" /\ cmd' = cmd
      BY <2>5 DEF Configure
    <3> QED BY <2>1, <3>1 DEF RulesInv
  <2>6. CASE ResetEnds
    <3>1. ~cmd'.run /\ ~cmd'.hcreset /\ regs' = {}
      BY <2>6 DEF ResetEnds
    <3> QED BY <3>1
  <2>7. CASE Controller /\ ~ResetEnds
    BY <2>2, <2>7 DEF Controller, Halt, BecomesReady, Starts, Answer, PortEvents,
       Connect, Disconnect, PowerLost, PortResetEnds, ctrl
  <2>8. CASE InitDevice /\ ~ClearRun /\ ~SetReset /\ ~Configure
    BY <2>2, <2>8 DEF InitDevice, FindFails, FindDevice, WaitHalt, WaitReset, CheckRegs, ConfigureRuntime, ctrl
  <2>9. CASE StartDevice /\ ~StartController
    BY <2>2, <2>9 DEF StartDevice, ResetPort, WaitStartBlind, WaitStart, ScanPort,
       PowerPort, ReadPort, ClearChanges, StartPortReset, WaitPort, PortTimeout, SettlePort, CheckPort,
       SendUnready, SendEnableSlot, TakeAnswer, ctrl
  <2>10. CASE Stop \/ UNCHANGED driverVars
    BY <2>2, <2>10 DEF Stop, driverVars, ctrl
  <2> QED BY <1>1, <2>3, <2>4, <2>5, <2>6, <2>7, <2>8, <2>9, <2>10 DEF DriverNext
<1>2. BringUpInv /\ [DriverNext]_driverVars => [Rules]_driverVars
  BY <1>1
<1> QED BY <1>2, BringUpAlways, PTL DEF DriverSpec, RegisterRules
=============================================================================

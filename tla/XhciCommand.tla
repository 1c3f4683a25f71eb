---------------------------- MODULE XhciCommand ----------------------------
(***************************************************************************)
(* Commands to the xHCI host controller (Drivers/USB/xHCI): the driver     *)
(* writes a command into the command ring and polls a flag, the controller *)
(* answers with an event in the event ring, and the interrupt handler      *)
(* moves the events to the driver.  Both rings are read without a count: a *)
(* cycle bit tells a new entry from an old one.                            *)
(*                                                                         *)
(* The handler runs with interrupts off: the driver stands still, the      *)
(* controller does not.  The driver gives up waiting after 200 ms, which   *)
(* has no relation to the speed of the controller, and sends its next      *)
(* command with the answer to the last one still to come.                  *)
(***************************************************************************)
EXTENDS Integers, Sequences

CONSTANTS CommandTrbs,   \* XHCI_COMMAND_RING_TRB_COUNT, the link included
          EventTrbs,     \* XHCI_EVENT_RING_TRB_COUNT
          MaxCommands,   \* bound: commands sent
          MaxPortEvents  \* bound: events that answer no command

ASSUME RingAssumption == CommandTrbs \in Nat \ {0, 1} /\ EventTrbs \in Nat \ {0, 1}
ASSUME BoundAssumption == MaxCommands \in Nat /\ MaxPortEvents \in Nat

Bit == {0, 1}
Link == CommandTrbs - 1
NoTrb == -1
PortEvent == 0            \* an event that answers no command

VARIABLES
    pc,           \* _send_command_trb
    sent,         \* commands enqueued so far: they are numbered from 1
    late,         \* has a command been given up before its answer came?
    completions,  \* m_command_completion_events: places in the ring
    flag,         \* m_command_irq_completion
    taken,        \* completion_trb
    cRing,        \* the TRBs of the command ring: [cmd, cycle]
    cEnq, cRcs,   \* its m_enqueue_ptr and m_rcs_bit
    eRing,        \* the TRBs of the event ring: [cmd, cycle]
    eDeq, eRcs,   \* its m_dequeue_ptr and m_rcs_bit
    isr, events,  \* the handler and its local vector of places
    found,        \* its command_completion_status
    running,      \* the controller is fetching commands
    hcDeq, hcCcs, \* its place in the command ring and the cycle bit it expects
    hcEnq, hcPcs, \* its place in the event ring and the cycle bit it writes
    erdp, ehb,    \* the event ring dequeue pointer register and its busy flag
    ip, irr,      \* IMAN.IP, and the vector latched in the local APIC
    msi,          \* PCI::install_interrupt found an MSI capability
    executed,     \* commands answered
    posted, seen, \* events written by the controller, and dequeued
    ports,        \* port events among them
    overwritten,  \* has an event been written over one still pointed to?
    answered      \* the latest command of which a call has read the completion

driver == <<pc, sent, late, taken>>
mailbox == <<completions, flag>>
cmdRing == <<cRing, cEnq, cRcs>>
handler == <<isr, events, found, eDeq, eRcs, seen>>
fetch == <<running, hcDeq, hcCcs, executed>>
post == <<eRing, hcEnq, hcPcs, posted, ports, overwritten>>
lines == <<erdp, ehb, ip, irr>>
vars == <<driver, mailbox, cmdRing, handler, fetch, post, lines, msi, answered>>

(* The rings as their constructors leave them.                             *)
Init ==
    /\ pc = "idle" /\ sent = 0 /\ late = FALSE /\ taken = <<>>
    /\ completions = <<>> /\ flag = 0
    /\ cRing = [i \in 0..Link |-> [cmd |-> 0, cycle |-> IF i = Link THEN 1 ELSE 0]]
    /\ cEnq = 0 /\ cRcs = 1
    /\ eRing = [i \in 0..EventTrbs - 1 |-> [cmd |-> 0, cycle |-> 0]]
    /\ eDeq = 0 /\ eRcs = 1 /\ isr = "out" /\ events = <<>> /\ found = 0 /\ seen = 0
    /\ running = FALSE /\ hcDeq = 0 /\ hcCcs = 1 /\ executed = 0
    /\ hcEnq = 0 /\ hcPcs = 1 /\ posted = 0 /\ ports = 0 /\ overwritten = FALSE
    /\ erdp = 0 /\ ehb = FALSE /\ ip = FALSE /\ irr = FALSE
    /\ msi \in BOOLEAN /\ answered = 0

----------------------------------------------------------------------------
(* The host controller. *)

(* An interrupt: a message, which clears IP by itself, or the level of IP. *)
Raise ==
    /\ ehb' = TRUE
    /\ irr' = (irr \/ msi)
    /\ ip' = (ip \/ ~msi)

NextEvent(i) == IF i + 1 = EventTrbs THEN 0 ELSE i + 1

(* The handler and the driver keep pointers into the ring, not copies.     *)
Pointers ==
    {events[i] : i \in DOMAIN events} \cup {completions[i] : i \in DOMAIN completions}
      \cup {taken[i] : i \in DOMAIN taken}

(* An event is written unless the ring is full, and interrupts unless the  *)
(* handler is busy.  Entries the handler has given back count as free,     *)
(* whoever still points to them.                                           *)
Post(cmd) ==
    /\ NextEvent(hcEnq) # erdp
    /\ eRing' = [eRing EXCEPT ![hcEnq] = [cmd |-> cmd, cycle |-> hcPcs]]
    /\ hcEnq' = NextEvent(hcEnq)
    /\ hcPcs' = IF hcEnq' = 0 THEN 1 - hcPcs ELSE hcPcs
    /\ posted' = posted + 1
    /\ overwritten' = (overwritten \/ hcEnq \in Pointers)
    /\ IF ehb THEN UNCHANGED <<ehb, ip, irr>> ELSE Raise
    /\ UNCHANGED <<driver, mailbox, cmdRing, handler, erdp, msi, answered>>

Valid == running /\ cRing[hcDeq].cycle = hcCcs

HcExecute ==
    /\ Valid /\ hcDeq # Link
    /\ hcDeq' = hcDeq + 1 /\ executed' = cRing[hcDeq].cmd
    /\ Post(cRing[hcDeq].cmd)
    /\ UNCHANGED <<running, hcCcs, ports>>

HcLink ==
    /\ Valid /\ hcDeq = Link
    /\ hcDeq' = 0 /\ hcCcs' = 1 - hcCcs
    /\ UNCHANGED <<driver, mailbox, cmdRing, handler, running, executed, post, lines, msi, answered>>

HcIdle ==
    /\ running /\ ~Valid
    /\ running' = FALSE
    /\ UNCHANGED <<driver, mailbox, cmdRing, handler, hcDeq, hcCcs, executed, post, lines, msi, answered>>

HcPort ==
    /\ ports < MaxPortEvents
    /\ ports' = ports + 1
    /\ Post(PortEvent)
    /\ UNCHANGED fetch

----------------------------------------------------------------------------
(* _xhci_irq_handler. *)

HasUnprocessedEvents == eRing[eDeq].cycle = eRcs

IsrEnter ==
    /\ isr = "out" /\ IF msi THEN irr ELSE ip
    /\ irr' = FALSE
    /\ isr' = IF HasUnprocessedEvents THEN "dequeue" ELSE "process"
    /\ events' = <<>> /\ found' = 0
    /\ UNCHANGED <<driver, mailbox, cmdRing, eDeq, eRcs, seen, fetch, post, erdp, ehb, ip, msi, answered>>

(* MUTANT: the cycle bit does not turn over with the ring. *)
IsrDequeueNoToggle ==
    /\ isr = "dequeue" /\ HasUnprocessedEvents
    /\ events' = Append(events, eDeq)
    /\ eDeq' = NextEvent(eDeq)
    /\ seen' = seen + 1
    /\ UNCHANGED <<driver, mailbox, cmdRing, isr, found, eRcs, fetch, post, lines, msi, answered>>

(* One turn of dequeue_events: a pointer into the ring is kept.            *)
IsrDequeue ==
    /\ isr = "dequeue" /\ HasUnprocessedEvents
    /\ events' = Append(events, eDeq)
    /\ eDeq' = NextEvent(eDeq)
    /\ eRcs' = IF eDeq' = 0 THEN 1 - eRcs ELSE eRcs
    /\ seen' = seen + 1
    /\ UNCHANGED <<driver, mailbox, cmdRing, isr, found, fetch, post, lines, msi, answered>>

(* _update_erdp gives the entries back to the controller.                  *)
IsrUpdateErdp ==
    /\ isr = "dequeue" /\ ~HasUnprocessedEvents
    /\ erdp' = eDeq
    /\ isr' = "ehb"
    /\ UNCHANGED <<driver, mailbox, cmdRing, events, found, eDeq, eRcs, seen, fetch, post, ehb, ip, irr, msi, answered>>

(* MUTANT: the busy flag is read back, not written as 1. *)
IsrKeepBusy ==
    /\ isr = "ehb"
    /\ isr' = "process"
    /\ UNCHANGED <<driver, mailbox, cmdRing, events, found, eDeq, eRcs, seen, fetch, post, lines, msi, answered>>

(* EHB is cleared; the controller interrupts again if it has more.         *)
IsrClearBusy ==
    /\ isr = "ehb"
    /\ isr' = "process"
    /\ IF erdp # hcEnq THEN Raise ELSE ehb' = FALSE /\ UNCHANGED <<ip, irr>>
    /\ UNCHANGED <<driver, mailbox, cmdRing, events, found, eDeq, eRcs, seen, fetch, post, erdp, msi, answered>>

(* MUTANT: every event is taken for a command completion. *)
IsAnyEvent(e) == TRUE

IsCompletion(e) == eRing[e].cmd # PortEvent

(* _process_events: completions go to the driver, and the flag says        *)
(* whether this interrupt brought one.                                     *)
IsrProcess ==
    /\ isr = "process" /\ events # <<>>
    /\ LET e == Head(events)
       IN  IF IsCompletion(e)
           THEN completions' = Append(completions, e) /\ found' = 1
           ELSE UNCHANGED <<completions, found>>
    /\ events' = Tail(events)
    /\ UNCHANGED <<driver, flag, cmdRing, isr, eDeq, eRcs, seen, fetch, post, lines, msi, answered>>

IsrSetFlag ==
    /\ isr = "process" /\ events = <<>>
    /\ flag' = found
    /\ isr' = "acknowledge"
    /\ UNCHANGED <<driver, completions, cmdRing, events, found, eDeq, eRcs, seen, fetch, post, lines, msi, answered>>

IsrAcknowledge ==
    /\ isr = "acknowledge"
    /\ ip' = FALSE
    /\ isr' = "out"
    /\ UNCHANGED <<driver, mailbox, cmdRing, events, found, eDeq, eRcs, seen, fetch, post, erdp, ehb, irr, msi, answered>>

----------------------------------------------------------------------------
(* _send_command_trb. *)

NextCommand(i) == IF i + 1 = Link THEN 0 ELSE i + 1

(* MUTANT: the link is given the cycle bit of the next round. *)
EnqueueLinkLate(cmd) ==
    /\ cEnq' = NextCommand(cEnq)
    /\ cRcs' = IF cEnq' = 0 THEN 1 - cRcs ELSE cRcs
    /\ cRing' = [i \in 0..Link |->
                   IF i = cEnq THEN [cmd |-> cmd, cycle |-> cRcs]
                   ELSE IF i = Link /\ cEnq' = 0 THEN [cRing[i] EXCEPT !.cycle = cRcs']
                   ELSE cRing[i]]

(* xhci_command_ring::enqueue: the link TRB gets the cycle bit of the      *)
(* round it ends, then the bit turns over.                                 *)
Enqueue(cmd) ==
    /\ cEnq' = NextCommand(cEnq)
    /\ cRcs' = IF cEnq' = 0 THEN 1 - cRcs ELSE cRcs
    /\ cRing' = [i \in 0..Link |->
                   IF i = cEnq THEN [cmd |-> cmd, cycle |-> cRcs]
                   ELSE IF i = Link /\ cEnq' = 0 THEN [cRing[i] EXCEPT !.cycle = cRcs]
                   ELSE cRing[i]]

(* The ring has no check for overflow: a bound keeps one of its entries    *)
(* free.  The kernel sends one command for each port with a device, to a   *)
(* ring of 255 entries.                                                    *)
Room == sent - executed < Link - 1

Send ==
    /\ isr = "out" /\ pc = "idle" /\ sent < MaxCommands /\ Room
    /\ sent' = sent + 1
    /\ Enqueue(sent + 1)
    /\ pc' = "doorbell"
    /\ UNCHANGED <<late, taken, mailbox, handler, fetch, post, lines, msi, answered>>

RingDoorbell ==
    /\ isr = "out" /\ pc = "doorbell"
    /\ running' = TRUE
    /\ pc' = "wait"
    /\ UNCHANGED <<sent, late, taken, mailbox, cmdRing, handler, hcDeq, hcCcs, executed, post, lines, msi, answered>>

Completed ==
    /\ isr = "out" /\ pc = "wait" /\ flag # 0
    /\ pc' = "take"
    /\ UNCHANGED <<sent, late, taken, mailbox, cmdRing, handler, fetch, post, lines, msi, answered>>

(* The flag has stayed 0, or a later interrupt has set it back: the wait   *)
(* ends after 20 turns, with or without an answer.                         *)
Timeout ==
    /\ isr = "out" /\ pc = "wait" /\ flag = 0
    /\ late' = (late \/ completions = <<>>)
    /\ pc' = "take"
    /\ UNCHANGED <<sent, taken, mailbox, cmdRing, handler, fetch, post, lines, msi, answered>>

Take ==
    /\ isr = "out" /\ pc = "take"
    /\ taken' = IF completions # <<>> THEN <<Head(completions)>> ELSE <<>>
    /\ pc' = "clear"
    /\ UNCHANGED <<sent, late, mailbox, cmdRing, handler, fetch, post, lines, msi, answered>>

(* What a late interrupt has added since is dropped with the rest.         *)
Clear ==
    /\ isr = "out" /\ pc = "clear"
    /\ completions' = <<>>
    /\ pc' = "reset"
    /\ UNCHANGED <<sent, late, taken, flag, cmdRing, handler, fetch, post, lines, msi, answered>>

Reset ==
    /\ isr = "out" /\ pc = "reset"
    /\ flag' = 0
    /\ pc' = "examine"
    /\ UNCHANGED <<sent, late, taken, completions, cmdRing, handler, fetch, post, lines, msi, answered>>

(* Only now is the event behind the pointer read, by this function and by  *)
(* its caller.                                                             *)
Examine ==
    /\ isr = "out" /\ pc = "examine"
    /\ answered' = IF taken # <<>> /\ ~overwritten THEN eRing[taken[1]].cmd ELSE answered
    /\ taken' = <<>>
    /\ pc' = "idle"
    /\ UNCHANGED <<sent, late, mailbox, cmdRing, handler, fetch, post, lines, msi>>

----------------------------------------------------------------------------
Hc == HcExecute \/ HcLink \/ HcIdle \/ HcPort

Isr ==
    \/ IsrEnter \/ IsrDequeue \/ IsrUpdateErdp \/ IsrClearBusy
    \/ IsrProcess \/ IsrSetFlag \/ IsrAcknowledge

Driver ==
    \/ Send \/ RingDoorbell \/ Completed \/ Timeout
    \/ Take \/ Clear \/ Reset \/ Examine

Next == Hc \/ Isr \/ Driver

Spec == Init /\ [][Next]_vars

(* The handler runs when its interrupt is pending; nothing is promised of  *)
(* the controller or of the driver.                                        *)
FairSpec == Spec /\ WF_vars(Isr)

----------------------------------------------------------------------------
Places == 0..EventTrbs - 1

(* Every variable keeps its type, and what the handler has collected are   *)
(* entries of the ring.                                                    *)
TypeOK ==
    /\ pc \in {"idle", "doorbell", "wait", "take", "clear", "reset", "examine"}
    /\ sent \in 0..MaxCommands /\ late \in BOOLEAN /\ overwritten \in BOOLEAN /\ flag \in Bit
    /\ completions \in Seq(Places) /\ taken \in Seq(Places) /\ Len(taken) <= 1
    /\ cRing \in [0..Link -> [cmd : 0..MaxCommands, cycle : Bit]]
    /\ cEnq \in 0..Link - 1 /\ cRcs \in Bit
    /\ eRing \in [0..EventTrbs - 1 -> [cmd : 0..MaxCommands, cycle : Bit]]
    /\ eDeq \in 0..EventTrbs - 1 /\ eRcs \in Bit
    /\ isr \in {"out", "dequeue", "ehb", "process", "acknowledge"}
    /\ events \in Seq(Places) /\ found \in Bit
    /\ running \in BOOLEAN /\ hcDeq \in 0..Link /\ hcCcs \in Bit
    /\ hcEnq \in 0..EventTrbs - 1 /\ hcPcs \in Bit /\ erdp \in 0..EventTrbs - 1
    /\ ehb \in BOOLEAN /\ ip \in BOOLEAN /\ irr \in BOOLEAN /\ msi \in BOOLEAN
    /\ executed \in 0..MaxCommands /\ answered \in 0..MaxCommands
    /\ ports \in 0..MaxPortEvents /\ posted \in Nat /\ seen \in Nat

(* The event ring is a queue: has_unprocessed_events answers yes exactly   *)
(* when the controller has written an event the handler has not dequeued,  *)
(* however often the ring and its cycle bit have turned over.              *)
EventsCounted == HasUnprocessedEvents <=> seen < posted

(* The controller runs the commands in the order they were sent, each      *)
(* once, and leaves none it was told of.                                   *)
CommandsInOrder ==
    /\ Valid /\ hcDeq # Link => cRing[hcDeq].cmd = executed + 1
    /\ ~running /\ pc # "doorbell" => executed = sent

(* A call takes the completion of its own command, as long as no earlier   *)
(* command has been given up: the completion's command_trb_pointer is      *)
(* never compared.  No completion serves two commands, even after one has  *)
(* been given up: two ports never get the same device slot.  An event that *)
(* is overwritten while a pointer to it is kept may be read as another.    *)
OwnCompletion ==
    pc = "examine" =>
        /\ ~late => taken # <<>>
        /\ taken # <<>> /\ ~overwritten =>
             LET answers == eRing[taken[1]].cmd
             IN answers > answered /\ (~late => answers = sent)

(* A wait that ends by the flag finds a completion.                        *)
FlagHasCompletion == pc = "wait" /\ isr = "out" /\ flag = 1 => completions # <<>>

(* With message signalled interrupts every event reaches the handler.      *)
EventsServed == msi /\ seen < posted ~> seen >= posted
=============================================================================

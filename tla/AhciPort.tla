------------------------------ MODULE AhciPort ------------------------------
(***************************************************************************)
(* One port of the AHCI controller (Drivers/achi/ahci_port.cpp): the       *)
(* thread that reads and writes sectors by polling, the interrupt handler  *)
(* that recovers from errors, and the host bus adapter (HBA) both talk to  *)
(* through the port's registers.                                           *)
(*                                                                         *)
(* The handler runs with interrupts off: the thread stands still, the HBA  *)
(* does not.  Polling loops give up after a number of turns that has no    *)
(* relation to the speed of the device, so they may give up at any turn.   *)
(* A call that gave up leaves its command with the HBA, which is how more  *)
(* than one command comes to be outstanding.                               *)
(***************************************************************************)
EXTENDS Integers, FiniteSets

CONSTANTS NumSlots,   \* num_command_slots
          MaxNoise,   \* bound: interrupts that are no command's (hot plug, PHY)
          GivesUp     \* FALSE: the device is quick enough for every polling loop

ASSUME SlotsAssumption == NumSlots \in 1..32
ASSUME NoiseAssumption == MaxNoise \in Nat
ASSUME GivesUpAssumption == GivesUp \in BOOLEAN

Slots == 0..NumSlots - 1

VARIABLES
    ci,         \* PxCI: the slots the HBA still owns
    ccs,        \* PxCMD.CCS: the slot it is working on (or 0)
    hba,        \* "idle", "running", "posting" a completion, "fatal" error,
                \* "halting" (ST is clear, CR or FR not yet) or "stopped"
    busy,       \* PxTFD.BSY or PxTFD.DRQ
    is,         \* PxIS: "dhr" (register FIS), "fatal" or "other" events
    gis,        \* the port's bit of the HBA's IS, and with it the interrupt
    noise,      \* events that were no command's
    error,      \* command_slots[].error
    received,   \* has_received_command_data
    pc, slot,   \* the thread, and the slot of its command
    verdict,    \* what the last call returned
    isr, isv,   \* the handler, and the interrupt status it has read
    errorSlot,  \* error_slot, the slot whose command failed
    todo,       \* pending: the slots the recovery has yet to issue again
    civ,        \* what the recovery has read of PxCI
    cmd         \* the command of each slot: "issued", "done", or "none" that is
                \* still to be carried out: there was none, or it failed

recovery == <<errorSlot, todo, civ>>
adapter == <<ci, ccs, hba, busy, is, gis, noise>>
thread == <<pc, slot, verdict>>
isrVars == <<isr, isv, recovery>>
portVars == <<adapter, error, received, thread, isrVars, cmd>>

(* ahci_port::configure: the port is started with no command issued. *)
PortInit ==
    /\ ci = {} /\ ccs = 0 /\ hba = "idle" /\ busy = FALSE
    /\ is = {} /\ gis = FALSE /\ noise = 0
    /\ error = [s \in Slots |-> FALSE] /\ received = FALSE
    /\ pc = "idle" /\ slot = 0 /\ verdict = "none"
    /\ isr = "out" /\ isv = {}
    /\ errorSlot = 0 /\ todo = {} /\ civ = {}
    /\ cmd = [s \in Slots |-> "none"]

----------------------------------------------------------------------------
(* The host bus adapter and its device. *)

Raise(event) == is' = is \cup {event} /\ gis' = TRUE

HbaFetch(s) ==
    /\ hba = "idle" /\ ~busy /\ s \in ci
    /\ hba' = "running" /\ ccs' = s /\ busy' = TRUE
    /\ UNCHANGED <<ci, is, gis, noise, error, received, thread, isrVars, cmd>>

(* The bit in PxCI goes first, the register FIS is reported after it. *)
HbaComplete ==
    /\ hba = "running"
    /\ hba' = "posting" /\ busy' = FALSE /\ ci' = ci \ {ccs}
    /\ cmd' = [cmd EXCEPT ![ccs] = "done"]
    /\ UNCHANGED <<ccs, is, gis, noise, error, received, thread, isrVars>>

HbaPost ==
    /\ hba = "posting"
    /\ hba' = "idle" /\ ccs' = 0 /\ Raise("dhr")
    /\ UNCHANGED <<ci, busy, noise, error, received, thread, isrVars, cmd>>

(* The PIO commands end without a register FIS. *)
HbaPostNothing ==
    /\ hba = "posting"
    /\ hba' = "idle" /\ ccs' = 0
    /\ UNCHANGED <<ci, busy, is, gis, noise, error, received, thread, isrVars, cmd>>

(* After a fatal error the HBA leaves PxCI as it is and does nothing more  *)
(* until software stops the port.                                          *)
HbaFail ==
    /\ hba = "running"
    /\ hba' = "fatal" /\ busy' \in BOOLEAN /\ Raise("fatal")
    /\ cmd' = [cmd EXCEPT ![ccs] = "none"]
    /\ UNCHANGED <<ci, ccs, noise, error, received, thread, isrVars>>

(* A device that came out of the reset late. *)
HbaReady ==
    /\ hba = "idle" /\ busy
    /\ busy' = FALSE
    /\ UNCHANGED <<ci, ccs, hba, is, gis, noise, error, received, thread, isrVars, cmd>>

HbaNoise ==
    /\ noise < MaxNoise
    /\ noise' = noise + 1 /\ Raise("other")
    /\ UNCHANGED <<ci, ccs, hba, busy, error, received, thread, isrVars, cmd>>

----------------------------------------------------------------------------
(* ahci::on_interrupt and ahci_port::on_interrupt. *)

(* The port's bit is cleared in IS, which sets it again while PxIS is not  *)
(* empty, and PxIS is read.                                                *)
IsrRead ==
    /\ isr = "out" /\ gis
    /\ isr' = "read" /\ isv' = is /\ gis' = (is # {})
    /\ UNCHANGED <<ci, ccs, hba, busy, is, noise, error, received, thread, recovery, cmd>>

(* clear_interrupt_errors clears all of PxIS, what came since the read     *)
(* included; the flags are set from the value read.                        *)
IsrClear ==
    /\ isr = "read"
    /\ is' = {}
    /\ received' = (received \/ "dhr" \in isv)
    /\ isr' = IF "fatal" \in isv THEN "recover" ELSE "out"
    /\ isv' = {}
    /\ UNCHANGED <<ci, ccs, hba, busy, gis, noise, error, thread, recovery, cmd>>

(* MUTANT: the pending commands are read after the port has been stopped. *)
IsrStopPendingLate ==
    /\ isr = "recover"
    /\ errorSlot' = ccs /\ todo' = {}
    /\ ci' = {} /\ ccs' = 0 /\ hba' = "halting"
    /\ isr' = "stopping"
    /\ UNCHANGED <<busy, is, gis, noise, error, received, thread, isv, civ, cmd>>

(* Error recovery: CCS and PxCI are read and ST is cleared, with which the *)
(* HBA forgets its commands.                                               *)
IsrStop ==
    /\ isr = "recover"
    /\ errorSlot' = ccs /\ todo' = ci \ {ccs}
    /\ ci' = {} /\ ccs' = 0 /\ hba' = "halting"
    /\ isr' = "stopping"
    /\ UNCHANGED <<busy, is, gis, noise, error, received, thread, isv, civ, cmd>>

(* CR and FR are clear at last, or never: stop() and start() poll them     *)
(* without a bound.                                                        *)
HbaHalt ==
    /\ hba = "halting"
    /\ hba' = "stopped"
    /\ UNCHANGED <<ci, ccs, busy, is, gis, noise, error, received, thread, isrVars, cmd>>

(* comreset() gives up on a device that stays busy. *)
Comreset == busy' \in {FALSE, busy}

(* The port is reset when the device is busy, and started; the failed      *)
(* command is flagged for the thread.                                      *)
IsrRestart ==
    /\ isr = "stopping" /\ hba = "stopped"
    /\ is' = {} /\ Comreset /\ hba' = "idle"
    /\ error' = [error EXCEPT ![errorSlot] = TRUE] /\ errorSlot' = 0
    /\ isr' = "reissue"
    /\ UNCHANGED <<ci, ccs, gis, noise, received, thread, isv, todo, civ, cmd>>

(* `command_issue |= 1 << i` for each pending command, on a port that runs *)
(* again: PxCI is read, and written with one slot more.  A bit that is     *)
(* written as 1 is set; one the HBA has cleared since the read is set      *)
(* anew, and its command runs a second time.                               *)
IsrReissueRead ==
    /\ isr = "reissue" /\ todo # {}
    /\ civ' = ci
    /\ isr' = "write"
    /\ UNCHANGED <<adapter, error, received, thread, isv, errorSlot, todo, cmd>>

IsrReissueWrite ==
    /\ isr = "write"
    /\ \E s \in todo :
        /\ \A t \in todo : s <= t
        /\ ci' = ci \cup civ \cup {s}
        /\ todo' = todo \ {s}
    /\ civ' = {}
    /\ isr' = "reissue"
    /\ UNCHANGED <<ccs, hba, busy, is, gis, noise, error, received, thread, isv, errorSlot, cmd>>

IsrRecovered ==
    /\ isr = "reissue" /\ todo = {}
    /\ isr' = "out"
    /\ UNCHANGED <<adapter, error, received, thread, isv, recovery, cmd>>

----------------------------------------------------------------------------
(* The thread: identify, read and write differ in the command they put     *)
(* into the slot only.                                                     *)

Return(v) == pc' = "idle" /\ verdict' = v

(* clear_interrupt_errors at the start of each of the three. *)
Begin ==
    /\ isr = "out" /\ pc = "idle"
    /\ is' = {}
    /\ pc' = "slot" /\ verdict' = "none"
    /\ UNCHANGED <<ci, ccs, hba, busy, gis, noise, error, received, slot, isrVars, cmd>>

(* MUTANT: the first slot, whether the HBA owns it or not. *)
FreeSlotsUnchecked == Slots

(* get_command_slot: a slot the HBA does not own, the lowest one. *)
FreeSlots == Slots \ ci

GetCommandSlot ==
    /\ isr = "out" /\ pc = "slot"
    /\ \E s \in FreeSlots :
        /\ \A t \in FreeSlots : s <= t
        /\ slot' = s
    /\ pc' = "wait_port"
    /\ UNCHANGED <<adapter, error, received, verdict, isrVars, cmd>>

NoCommandSlot ==
    /\ isr = "out" /\ pc = "slot" /\ FreeSlots = {}
    /\ Return("failed")
    /\ UNCHANGED <<adapter, error, received, slot, isrVars, cmd>>

(* A transfer of more than MAX_PRDT_SIZE regions is refused. *)
TooManyRegions ==
    /\ isr = "out" /\ pc = "slot" /\ FreeSlots # {}
    /\ Return("failed")
    /\ UNCHANGED <<adapter, error, received, slot, isrVars, cmd>>

WaitForPort ==
    /\ isr = "out" /\ pc = "wait_port" /\ ~busy
    /\ pc' = "issue"
    /\ UNCHANGED <<adapter, error, received, slot, verdict, isrVars, cmd>>

PortHung ==
    /\ isr = "out" /\ pc = "wait_port" /\ busy /\ GivesUp
    /\ Return("failed")
    /\ UNCHANGED <<adapter, error, received, slot, isrVars, cmd>>

IssueCommand ==
    /\ isr = "out" /\ pc = "issue"
    /\ ci' = ci \cup {slot}
    /\ cmd' = [cmd EXCEPT ![slot] = "issued"]
    /\ pc' = "check_error"
    /\ UNCHANGED <<ccs, hba, busy, is, gis, noise, error, received, slot, verdict, isrVars>>

(* One turn of wait_for_port_completion: the error flag, then PxCI. *)
CommandFailed ==
    /\ isr = "out" /\ pc = "check_error" /\ error[slot]
    /\ error' = [error EXCEPT ![slot] = FALSE]
    /\ Return("failed")
    /\ UNCHANGED <<adapter, received, slot, isrVars, cmd>>

NoError ==
    /\ isr = "out" /\ pc = "check_error" /\ ~error[slot]
    /\ pc' = "check_ci"
    /\ UNCHANGED <<adapter, error, received, slot, verdict, isrVars, cmd>>

(* MUTANT: a register FIS is taken for the end of this command. *)
CommandGoneOnReceived ==
    /\ isr = "out" /\ pc = "check_ci" /\ (slot \notin ci \/ received)
    /\ pc' = "drain"
    /\ UNCHANGED <<adapter, error, received, slot, verdict, isrVars, cmd>>

CommandGone ==
    /\ isr = "out" /\ pc = "check_ci" /\ slot \notin ci
    /\ pc' = "drain"
    /\ UNCHANGED <<adapter, error, received, slot, verdict, isrVars, cmd>>

PollAgain ==
    /\ isr = "out" /\ pc = "check_ci" /\ slot \in ci
    /\ pc' = "check_error"
    /\ UNCHANGED <<adapter, error, received, slot, verdict, isrVars, cmd>>

(* MUTANT: the completion is waited for without a limit. *)
TimedOutNever == FALSE /\ UNCHANGED portVars

TimedOut ==
    /\ isr = "out" /\ pc = "check_ci" /\ slot \in ci /\ GivesUp
    /\ error' = [error EXCEPT ![slot] = FALSE]
    /\ Return("failed")
    /\ UNCHANGED <<adapter, received, slot, isrVars, cmd>>

(* The wait for the register FIS, which the code survives missing. *)
DataReceived ==
    /\ isr = "out" /\ pc = "drain" /\ received
    /\ received' = FALSE
    /\ Return("ok")
    /\ UNCHANGED <<adapter, error, slot, isrVars, cmd>>

DataNotReported ==
    /\ isr = "out" /\ pc = "drain" /\ ~received
    /\ Return("ok")
    /\ UNCHANGED <<adapter, error, received, slot, isrVars, cmd>>

----------------------------------------------------------------------------
Hba ==
    \/ \E s \in Slots : HbaFetch(s)
    \/ HbaComplete \/ HbaPost \/ HbaPostNothing \/ HbaFail
    \/ HbaReady \/ HbaNoise \/ HbaHalt

Isr ==
    \/ IsrRead \/ IsrClear
    \/ IsrStop \/ IsrRestart \/ IsrReissueRead \/ IsrReissueWrite \/ IsrRecovered

Call ==
    \/ GetCommandSlot \/ NoCommandSlot \/ TooManyRegions
    \/ WaitForPort \/ PortHung \/ IssueCommand
    \/ CommandFailed \/ NoError \/ CommandGone \/ PollAgain \/ TimedOut
    \/ DataReceived \/ DataNotReported

PortNext == Hba \/ Isr \/ Begin \/ Call

PortSpec == PortInit /\ [][PortNext]_portVars

(* The thread and the handler run whenever they can.  The three polling    *)
(* loops are bounded, so that one that is entered again and again gives up *)
(* in the end; nothing is promised about the device, not even that it halts. *)
Fairness ==
    /\ WF_portVars(Isr) /\ WF_portVars(Call)
    /\ SF_portVars(TimedOut) /\ SF_portVars(PortHung) /\ SF_portVars(DataNotReported)

FairSpec == PortSpec /\ Fairness

----------------------------------------------------------------------------
(* Every variable keeps its type; the HBA works on a slot it owns, is      *)
(* halted exactly when it has failed that slot, and the handler stops only *)
(* a halted HBA.                                                           *)
TypeOK ==
    /\ ci \subseteq Slots /\ ccs \in Slots /\ busy \in BOOLEAN
    /\ hba \in {"idle", "running", "posting", "fatal", "halting", "stopped"}
    /\ is \subseteq {"dhr", "fatal", "other"} /\ gis \in BOOLEAN
    /\ noise \in 0..MaxNoise
    /\ error \in [Slots -> BOOLEAN] /\ received \in BOOLEAN
    /\ pc \in {"idle", "slot", "wait_port", "issue", "check_error", "check_ci", "drain"}
    /\ slot \in Slots /\ verdict \in {"none", "ok", "failed"}
    /\ isr \in {"out", "read", "recover", "stopping", "reissue", "write"}
    /\ isv \subseteq {"dhr", "fatal", "other"}
    /\ errorSlot \in Slots /\ todo \subseteq Slots /\ civ \subseteq Slots
    /\ cmd \in [Slots -> {"none", "issued", "done"}]
    /\ hba \in {"running", "fatal"} => ccs \in ci
    /\ isr = "recover" => hba = "fatal"
    /\ isr = "stopping" <=> hba \in {"halting", "stopped"}

(* From the choice of a slot to the issue of its command the HBA does not  *)
(* own it, and no recovery is about to hand it to the HBA: neither an      *)
(* older command nor a recovery running in between makes the HBA read the  *)
(* command table while it is being filled.                                 *)
SlotIsFree == pc \in {"wait_port", "issue"} => slot \notin ci \cup civ \cup todo

(* No command is lost: what was issued and neither done nor failed is with *)
(* the HBA, or the recovery under way is still to issue it again; and the  *)
(* command the thread waits for is there, done, or flagged as the one that *)
(* failed, at the latest when the port is started again.                   *)
NoCommandLost ==
    /\ \A s \in Slots : cmd[s] = "issued" => s \in ci \/ (isr # "out" /\ s \in todo)
    /\ pc \in {"check_error", "check_ci"} =>
          \/ slot \in ci \/ (isr # "out" /\ slot \in todo)
          \/ cmd[slot] = "done" \/ error[slot]
          \/ isr = "stopping" /\ slot = errorSlot

(* When the wait ends well the HBA has let go of the caller's buffer and   *)
(* no recovery hands the command to it again.                              *)
QuietOnSuccess ==
    pc = "drain" =>
        /\ slot \notin ci \cup civ \cup todo
        /\ ~(hba = "running" /\ ccs = slot)

(* Every call of identify, read and write returns, whatever the device     *)
(* does and however many interrupts are lost, unless the HBA never halts   *)
(* for a recovery: then the handler polls it for ever, and nothing else    *)
(* runs.                                                                   *)
Returns == (pc # "idle" ~> pc = "idle") \/ <>[](isr = "stopping" /\ hba = "halting")

(* What the code means by a failed command (`command_slots[slot].error`,   *)
(* "Command failed."): a call that returns true had its command done.      *)
SuccessIsReal == verdict = "ok" => cmd[slot] = "done"

=============================================================================

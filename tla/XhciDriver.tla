----------------------------- MODULE XhciDriver -----------------------------
(***************************************************************************)
(* Bring-up of the xHCI controller (Drivers/USB/xHCI/xHCI.cpp):            *)
(* init_device resets and programs the controller, start_device starts it, *)
(* resets every port with a new device and gives the device a slot.        *)
(* systemPL::Init calls the one after the other.                           *)
(*                                                                         *)
(* The driver takes one step per register it reads or writes and polls     *)
(* with bounded loops, between whose turns it sleeps; the controller, its  *)
(* ports and their devices move at any time.  A command is one step to     *)
(* send and one to take the answer; XhciCommand has what is between them.  *)
(***************************************************************************)
EXTENDS Integers, Sequences, FiniteSets, SequencesExt

CONSTANTS
    Hcs,        \* capability registers: maxSlots, maxPorts, scratchHi, scratchLo, csz
    ExtCaps,    \* the list of extended capabilities: id, major, offset, count
    HaltTries, ResetTries, StartTries, PortTries,  \* turns of the polling loops
    MaxHotplug, \* bound: devices plugged and unplugged
    MaxChanges  \* bound: port events that interrupt the wait for an answer

(* What an entry of the device context array may point to besides the      *)
(* context of a port's device.                                             *)
None == -1
Scratchpads == -2
PageSize == 4096

(* _parse_capability_registers.  The scratchpad count has ten bits, and    *)
(* the driver keeps eight of them.                                         *)
MaxDeviceSlots == Hcs.maxSlots % 256
MaxPorts == Hcs.maxPorts % 256
MaxScratchpadBuffers == (32 * Hcs.scratchHi + Hcs.scratchLo) % 256
Ports == 0..MaxPorts - 1

(* _parse_extended_capability_registers: supported protocols are numbered  *)
(* from 1, ports of the driver from 0.                                     *)
SupportedProtocol == 2
CapPorts(cap) == cap.offset - 1..cap.offset + cap.count - 2
Usb3Ports ==
    UNION {CapPorts(cap) : cap \in
             {c \in Range(ExtCaps) : c.id = SupportedProtocol /\ c.major = 3}}

(* Sizes of what the controller reads in memory, in bytes. *)
TransferRingSize == 16 * 256
SlotContextSize == IF Hcs.csz = 1 THEN 64 ELSE 32
EndpointContextSize == IF Hcs.csz = 1 THEN 64 ELSE 32
InputControlContextSize == IF Hcs.csz = 1 THEN 64 ELSE 32
DeviceContextSize == SlotContextSize + 31 * EndpointContextSize
InputContextSize == InputControlContextSize + DeviceContextSize
DeviceMemory == {DeviceContextSize, InputContextSize, PageSize, TransferRingSize}
DcbaaSize == 8 * (MaxDeviceSlots + 1)
ScratchpadArraySize == 8 * MaxScratchpadBuffers
(* alloc_xhci_memory hangs where malloc_boundry refuses: a block wider     *)
(* than the boundary it may not cross, here always a page.                 *)
Allocates(size) == size > 0 /\ size <= PageSize

ASSUME HcsAssumption ==
    Hcs \in [maxSlots : 1..255, maxPorts : 1..255, scratchHi : 0..31, scratchLo : 0..31,
             csz : {0, 1}]
ASSUME TriesAssumption ==
    {HaltTries, ResetTries, StartTries, PortTries, MaxHotplug, MaxChanges} \subseteq Nat \ {0}
ASSUME CapsAssumption ==
    \A i \in DOMAIN ExtCaps :
      ExtCaps[i].id = SupportedProtocol => CapPorts(ExtCaps[i]) \subseteq Ports

VARIABLES
    stage, tries,    \* the driver, and the turns left in its loop
    port,            \* the port start_device is at
    parsed, ready,   \* have the registers been found, did init_device succeed?
    cmd, sts,        \* USBCMD and USBSTS
    regs,            \* operational registers with a value other than 0
    erst,            \* has interrupter 0 its event ring and its enable bit?
    portsc,          \* the ports' registers
    copy,            \* the driver's copy of one of them
    dcbaa,           \* what the device context array points to
    asked,           \* Enable Slot commands the controller has not answered
    answers, irqCompletion,  \* the driver's list of answers and its flag
    enabled,         \* slots the controller has enabled
    devices,         \* devices set up: port, slot, speed
    gaveUp,          \* ports with a failure the driver has reported
    hotplug, changes \* for the bounds

flow == <<stage, tries, port, copy>>
known == <<parsed, ready>>
ctrl == <<cmd, sts, regs, erst>>
slots == <<dcbaa, asked, answers, irqCompletion, enabled, devices>>
outside == <<gaveUp, hotplug, changes>>
driverVars == <<flow, known, ctrl, portsc, slots, outside>>

OpRegs == {"dnctrl", "config", "dcbaap", "crcr"}

PortSc == [ccs : BOOLEAN, ped : BOOLEAN, pr : BOOLEAN, pp : BOOLEAN,
           csc : BOOLEAN, prc : BOOLEAN, wrc : BOOLEAN]
Powered(on) == [ccs |-> FALSE, ped |-> FALSE, pr |-> FALSE, pp |-> on,
                csc |-> FALSE, prc |-> FALSE, wrc |-> FALSE]
PortOff == Powered(FALSE)
PortOn == Powered(TRUE)

(* The firmware may have left the controller running. *)
DriverInit ==
    /\ stage = "find" /\ tries = 0 /\ port = 0
    /\ parsed = FALSE /\ ready = FALSE
    /\ \E firmware \in BOOLEAN :
         /\ cmd = [run |-> firmware, hcreset |-> FALSE, inte |-> firmware]
         /\ sts = [hch |-> ~firmware, cnr |-> FALSE]
         /\ regs = IF firmware THEN OpRegs ELSE {}
    /\ erst = FALSE
    /\ portsc = [p \in Ports |-> PortOn] /\ copy = PortOff
    /\ dcbaa = [s \in 0..MaxDeviceSlots |-> None]
    /\ asked = 0 /\ answers = <<>> /\ irqCompletion = FALSE
    /\ enabled = {} /\ devices = {} /\ gaveUp = {}
    /\ hotplug = 0 /\ changes = 0

----------------------------------------------------------------------------
(* The controller and its ports, as xHCI_common.hpp and xHCI_regs.hpp have *)
(* them from the xHCI specification.                                       *)

Halt ==
    /\ ~cmd.run /\ ~sts.hch
    /\ sts' = [sts EXCEPT !.hch = TRUE]
    /\ UNCHANGED <<flow, known, cmd, regs, erst, portsc, slots, outside>>

(* A reset takes all registers back to their initial values, and the       *)
(* ports with them.                                                        *)
ResetEnds ==
    /\ cmd.hcreset
    /\ cmd' = [run |-> FALSE, hcreset |-> FALSE, inte |-> FALSE]
    /\ sts' = [hch |-> TRUE, cnr |-> TRUE]
    /\ regs' = {} /\ erst' = FALSE
    /\ portsc' \in [Ports -> {PortOn, PortOff}]
    /\ enabled' = {}
    /\ UNCHANGED <<flow, known, dcbaa, asked, answers, irqCompletion, devices, outside>>

BecomesReady ==
    /\ sts.cnr /\ sts' = [sts EXCEPT !.cnr = FALSE]
    /\ UNCHANGED <<flow, known, cmd, regs, erst, portsc, slots, outside>>

Starts ==
    /\ cmd.run /\ sts.hch /\ ~sts.cnr /\ ~cmd.hcreset
    /\ sts' = [sts EXCEPT !.hch = FALSE]
    /\ UNCHANGED <<flow, known, cmd, regs, erst, portsc, slots, outside>>

(* The link of a USB 3 port trains by itself, that of a USB 2 port needs a *)
(* reset.                                                                  *)
Connect(p) ==
    /\ hotplug < MaxHotplug /\ hotplug' = hotplug + 1
    /\ portsc[p].pp /\ ~portsc[p].ccs /\ ~cmd.hcreset
    /\ portsc' = [portsc EXCEPT ![p] = [@ EXCEPT !.ccs = TRUE, !.csc = TRUE, !.ped = p \in Usb3Ports]]
    /\ UNCHANGED <<flow, known, ctrl, slots, gaveUp, changes>>

Disconnect(p) ==
    /\ hotplug < MaxHotplug /\ hotplug' = hotplug + 1
    /\ portsc[p].ccs
    /\ portsc' = [portsc EXCEPT ![p] = [@ EXCEPT !.ccs = FALSE, !.csc = TRUE, !.ped = FALSE]]
    /\ UNCHANGED <<flow, known, ctrl, slots, gaveUp, changes>>

(* An overcurrent takes the port's power, and all its bits with it. *)
PowerLost(p) ==
    /\ hotplug < MaxHotplug /\ hotplug' = hotplug + 1
    /\ portsc[p].ccs
    /\ portsc' = [portsc EXCEPT ![p] = PortOff]
    /\ UNCHANGED <<flow, known, ctrl, slots, gaveUp, changes>>

PortResetEnds(p) ==
    /\ portsc[p].pr
    /\ portsc' = [portsc EXCEPT ![p] = [@ EXCEPT !.pr = FALSE, !.prc = TRUE,
                                                  !.wrc = p \in Usb3Ports, !.ped = portsc[p].ccs]]
    /\ UNCHANGED <<flow, known, ctrl, slots, outside>>

(* A write of PORTSC: change bits and PED are cleared by a 1, a reset is   *)
(* started by one; a port may fail to power.                               *)
Written(old, v) ==
    IF ~old.pp THEN IF v.pp THEN PortOn ELSE PortOff
    ELSE [ccs |-> old.ccs, pp |-> old.pp, ped |-> old.ped /\ ~v.ped, pr |-> old.pr \/ v.pr,
          csc |-> old.csc /\ ~v.csc, prc |-> old.prc /\ ~v.prc, wrc |-> old.wrc /\ ~v.wrc]

Free == (1..MaxDeviceSlots) \ enabled

Interrupting == cmd.inte /\ erst

(* Enable Slot is answered with the lowest free slot, or with an error. *)
Answer ==
    /\ asked > 0 /\ ~sts.hch /\ Interrupting
    /\ asked' = asked - 1
    /\ LET slot == IF Free = {} THEN 0
                   ELSE CHOOSE s \in Free : \A t \in Free : s <= t
       IN /\ enabled' = enabled \cup ({slot} \ {0})
          /\ answers' = Append(answers, slot)
    /\ irqCompletion' = TRUE
    /\ UNCHANGED <<flow, known, ctrl, portsc, dcbaa, devices, outside>>

(* _process_events for an interrupt with port events only.  *)
PortEvents ==
    /\ changes < MaxChanges /\ changes' = changes + 1
    /\ stage = "wait" /\ irqCompletion
    /\ irqCompletion' = FALSE
    /\ UNCHANGED <<flow, known, ctrl, portsc, dcbaa, asked, answers, enabled, devices,
                   gaveUp, hotplug>>

----------------------------------------------------------------------------
(* init_device. *)

Goto(from, to) == stage = from /\ stage' = to

(* The bus has no controller, or one behind I/O ports. *)
Bars == {"none", "io", "mem32", "mem64"}
Mapped == {"mem32", "mem64"}

FindFails(bar) ==
    /\ bar \notin Mapped /\ Goto("find", "start")
    /\ UNCHANGED <<tries, port, copy, known, ctrl, portsc, slots, outside>>

FindDevice(bar) ==
    /\ bar \in Mapped /\ Goto("find", "clearRun") /\ parsed' = TRUE
    /\ UNCHANGED <<tries, port, copy, ready, ctrl, portsc, slots, outside>>

ClearRun ==
    /\ Goto("clearRun", "waitHalt") /\ tries' = HaltTries
    /\ cmd' = [cmd EXCEPT !.run = FALSE]
    /\ UNCHANGED <<port, copy, known, sts, regs, erst, portsc, slots, outside>>

(* The loops look, give up at the last turn, and sleep otherwise. *)
WaitHalt ==
    /\ stage = "waitHalt"
    /\ tries' = IF sts.hch THEN tries ELSE tries - 1
    /\ stage' = IF sts.hch THEN "setReset" ELSE IF tries = 1 THEN "start" ELSE "waitHalt"
    /\ UNCHANGED <<port, copy, known, ctrl, portsc, slots, outside>>

SetReset ==
    /\ Goto("setReset", "waitReset") /\ tries' = ResetTries
    /\ cmd' = [cmd EXCEPT !.hcreset = TRUE]
    /\ UNCHANGED <<port, copy, known, sts, regs, erst, portsc, slots, outside>>

(* MUTANT: the driver does not wait for CNR. *)
ResettingCnrIgnored == cmd.hcreset

Resetting == cmd.hcreset \/ sts.cnr

WaitReset ==
    /\ stage = "waitReset"
    /\ tries' = IF Resetting THEN tries - 1 ELSE tries
    /\ stage' = IF ~Resetting THEN "checkRegs" ELSE IF tries = 1 THEN "start" ELSE "waitReset"
    /\ UNCHANGED <<port, copy, known, ctrl, portsc, slots, outside>>

CheckRegs ==
    /\ Goto("checkRegs", IF regs = {} /\ ~cmd.run /\ ~cmd.inte THEN "configure" ELSE "start")
    /\ UNCHANGED <<tries, port, copy, known, ctrl, portsc, slots, outside>>

(* _configure_operational_register with _setup_dcbaa: entry 0 is for the   *)
(* scratchpad buffers.                                                     *)
Configure ==
    /\ stage = "configure"
    /\ stage' = IF /\ Allocates(DcbaaSize)
                /\ MaxScratchpadBuffers > 0 => Allocates(ScratchpadArraySize)
             THEN "runtime" ELSE "hang"
    /\ dcbaa' = [dcbaa EXCEPT ![0] = IF MaxScratchpadBuffers > 0 THEN Scratchpads ELSE None]
    /\ regs' = OpRegs
    /\ UNCHANGED <<tries, port, copy, known, cmd, sts, erst, portsc, asked, answers,
                   irqCompletion, enabled, devices, outside>>

(* _configure_runtime_registers, and the handler is installed. *)
ConfigureRuntime ==
    /\ Goto("runtime", "start")
    /\ erst' = TRUE /\ ready' = TRUE
    /\ UNCHANGED <<tries, port, copy, parsed, cmd, sts, regs, portsc, slots, outside>>

----------------------------------------------------------------------------
(* start_device, which systemPL::Init calls whatever init_device returned. *)

StartController ==
    /\ Goto("start", "waitStart") /\ tries' = StartTries
    /\ cmd' = IF parsed THEN [cmd EXCEPT !.run = TRUE, !.inte = TRUE] ELSE cmd
    /\ UNCHANGED <<port, copy, known, sts, regs, erst, portsc, slots, outside>>

(* Without a controller the registers are memory at address 0, of unknown  *)
(* contents, and the number of ports is 0.                                 *)
WaitStartBlind ==
    /\ stage = "waitStart" /\ ~parsed
    /\ stage' = "done"
    /\ UNCHANGED <<tries, port, copy, known, ctrl, portsc, slots, outside>>

WaitStart ==
    /\ stage = "waitStart" /\ parsed
    /\ tries' = IF sts.hch THEN tries - 1 ELSE tries
    /\ stage' = CASE sts.hch /\ tries = 0 -> "done"
               [] sts.hch /\ tries > 0 -> "waitStart"
               [] ~sts.hch             -> IF sts.cnr THEN "done" ELSE "scan"
    /\ UNCHANGED <<port, copy, known, ctrl, portsc, slots, outside>>

NextPort == IF port + 1 = MaxPorts THEN "done" ELSE "scan"
Skip == stage' = NextPort /\ port' = port + 1

ScanPort ==
    /\ stage = "scan"
    /\ copy' = portsc[port]
    /\ IF portsc[port].csc /\ portsc[port].ccs THEN stage' = "reset" /\ port' = port ELSE Skip
    /\ UNCHANGED <<tries, known, ctrl, portsc, slots, outside>>

(* The driver gives a port up and goes to the next. *)
GiveUp == Skip /\ gaveUp' = gaveUp \cup {port}

----------------------------------------------------------------------------
(* _reset_port. *)

(* A port that has lost its power since is switched on, which may fail. *)
PowerPort ==
    /\ stage = "reset" /\ ~portsc[port].pp
    /\ \E on \in BOOLEAN :
         /\ portsc' = [portsc EXCEPT ![port] = Powered(on)]
         /\ IF on THEN stage' = "clearChanges" /\ UNCHANGED <<port, gaveUp>> ELSE GiveUp
    /\ copy' = portsc'[port]
    /\ UNCHANGED <<tries, known, ctrl, slots, hotplug, changes>>

ReadPort ==
    /\ Goto("reset", "clearChanges") /\ portsc[port].pp
    /\ copy' = portsc[port]
    /\ UNCHANGED <<tries, port, known, ctrl, portsc, slots, outside>>

(* What was read is written back with the change bits set, so PED, if it   *)
(* was read as 1, is cleared.                                              *)
Changed(v) == [v EXCEPT !.csc = TRUE, !.prc = TRUE]

ClearChanges ==
    /\ Goto("clearChanges", "startReset")
    /\ portsc' = [portsc EXCEPT ![port] = Written(@, Changed(copy))]
    /\ copy' = Changed(copy)
    /\ UNCHANGED <<tries, port, known, ctrl, slots, outside>>

(* A warm reset for USB 3, an ordinary one for USB 2. *)
StartPortReset ==
    /\ Goto("startReset", "waitPort") /\ tries' = PortTries
    /\ portsc' = [portsc EXCEPT ![port] = Written(@, [copy EXCEPT !.pr = TRUE])]
    /\ UNCHANGED <<port, copy, known, ctrl, slots, outside>>

ResetSeen(v) == IF port \in Usb3Ports THEN v.wrc ELSE v.prc

(* MUTANT: the turns are not counted. *)
PortTurnUncounted == tries

PortTurn == tries - 1

(* The last turn of the loop sleeps and gives up without another look. *)
WaitPort ==
    /\ stage = "waitPort" /\ tries > 0
    /\ copy' = portsc[port]
    /\ tries' = IF ResetSeen(portsc[port]) THEN tries ELSE PortTurn
    /\ stage' = IF ResetSeen(portsc[port]) THEN "settle" ELSE "waitPort"
    /\ UNCHANGED <<port, known, ctrl, portsc, slots, outside>>

PortTimeout ==
    /\ stage = "waitPort" /\ tries = 0
    /\ GiveUp
    /\ UNCHANGED <<tries, copy, known, ctrl, portsc, slots, hotplug, changes>>

(* PED is left alone this time. *)
Settled(v) == [v EXCEPT !.prc = TRUE, !.wrc = TRUE, !.csc = TRUE, !.ped = FALSE]

SettlePort ==
    /\ Goto("settle", "check")
    /\ portsc' = [portsc EXCEPT ![port] = Written(@, Settled(copy))]
    /\ UNCHANGED <<tries, port, copy, known, ctrl, slots, outside>>

(* MUTANT: the port is not looked at again. *)
PortEnabledAssumed == TRUE

PortEnabled == portsc[port].ped

CheckPort ==
    /\ stage = "check"
    /\ copy' = portsc[port]
    /\ IF PortEnabled THEN stage' = "enable" /\ UNCHANGED <<port, gaveUp>> ELSE GiveUp
    /\ UNCHANGED <<tries, known, ctrl, portsc, slots, hotplug, changes>>

----------------------------------------------------------------------------
(* _setup_device. *)

(* _enable_device_slot: the command is put in the ring and the doorbell    *)
(* rung.  Without init_device there is no ring, and the driver writes      *)
(* through a null pointer.                                                 *)
SendUnready ==
    /\ Goto("enable", "crashed") /\ ~ready
    /\ UNCHANGED <<tries, port, copy, known, ctrl, portsc, slots, outside>>

SendEnableSlot ==
    /\ Goto("enable", "wait") /\ ready
    /\ asked' = asked + 1
    /\ UNCHANGED <<tries, port, copy, known, ctrl, portsc, dcbaa, answers, irqCompletion,
                   enabled, devices, outside>>

(* MUTANT: the oldest answer is left in the list. *)
TakenNotCleared == answers

Taken == <<>>

(* _create_device_context, and the xhci_device with its input context, its *)
(* transfer buffer and its transfer ring; entries are named by the port.   *)
CreateDevice(slot) ==
    IF \A size \in DeviceMemory : Allocates(size)
    THEN /\ Skip
         /\ dcbaa' = [dcbaa EXCEPT ![slot] = port]
         /\ devices' = devices \cup {[port |-> port, slot |-> slot]}
         /\ UNCHANGED gaveUp
    ELSE stage' = "hang" /\ UNCHANGED <<port, dcbaa, devices, gaveUp>>

(* After the flag, or 200 ms, the first answer is taken and the list is    *)
(* cleared; without one, or with an error, the port is given up.           *)
TakeAnswer ==
    /\ stage = "wait"
    /\ answers' = Taken /\ irqCompletion' = FALSE
    /\ LET slot == IF answers = <<>> THEN 0 ELSE Head(answers) IN
         IF slot = 0
         THEN GiveUp /\ UNCHANGED <<dcbaa, devices>>
         ELSE CreateDevice(slot)
    /\ UNCHANGED <<tries, copy, known, ctrl, portsc, asked, enabled, hotplug, changes>>
----------------------------------------------------------------------------
InitDevice ==
    \/ \E bar \in Bars : FindFails(bar) \/ FindDevice(bar)
    \/ ClearRun \/ WaitHalt \/ SetReset \/ WaitReset \/ CheckRegs
    \/ Configure \/ ConfigureRuntime

ResetPort ==
    \/ PowerPort \/ ReadPort \/ ClearChanges \/ StartPortReset \/ WaitPort \/ PortTimeout
    \/ SettlePort \/ CheckPort

StartDevice ==
    \/ StartController \/ WaitStartBlind \/ WaitStart \/ ScanPort \/ ResetPort
    \/ SendUnready \/ SendEnableSlot \/ TakeAnswer

Controller ==
    \/ Halt \/ ResetEnds \/ BecomesReady \/ Starts \/ Answer \/ PortEvents
    \/ \E p \in Ports : Connect(p) \/ Disconnect(p) \/ PowerLost(p) \/ PortResetEnds(p)

(* The kernel goes on with the rest of the system. *)
Over == stage \in {"done", "crashed", "hang"}
Stop == Over /\ UNCHANGED driverVars

DriverNext == InitDevice \/ StartDevice \/ Controller \/ Stop

DriverSpec == DriverInit /\ [][DriverNext]_driverVars

(* Nothing is assumed of the controller.                                   *)
DriverFairSpec == DriverSpec /\ WF_driverVars(InitDevice \/ StartDevice)

----------------------------------------------------------------------------

(* What the specification asks of software, where init_device has          *)
(* succeeded: a reset is begun only when the controller stands still, its  *)
(* registers are written only when it is ready, and it is started only     *)
(* with everything in place.                                               *)
RegisterRules ==
    [][/\ (cmd'.hcreset /\ ~cmd.hcreset) => sts.hch
       /\ (regs' # regs /\ regs' # {}) => ~cmd.hcreset /\ ~sts.cnr /\ ~cmd.run
       /\ (cmd'.run /\ ~cmd.run /\ ready) =>
            regs = OpRegs /\ erst /\ ~sts.cnr /\ ~cmd.hcreset]_driverVars

(* Every device has a slot of its own that the controller has enabled,     *)
(* and the slot's context is its own, although an answer may come after    *)
(* its command was given up and be taken for that of the next port's;      *)
(* entry 0 stays with the scratchpads.                                     *)
SlotsDistinct ==
    /\ \A d \in devices : d.slot \in enabled /\ dcbaa[d.slot] = d.port
    /\ \A c, d \in devices : c.slot = d.slot => c = d
    /\ dcbaa[0] \notin Ports

(* At a port behind the scan, whatever the driver does not know is still   *)
(* shown by the change bit that start_device goes by: a device it has not  *)
(* set up, or one it has and that is gone.                                 *)
Scanned(p) == p < port /\ ready
ChangesKept ==
    \A p \in Ports :
      /\ Scanned(p) /\ portsc[p].pp /\ p \notin gaveUp
      /\ portsc[p].ccs # (\E d \in devices : d.port = p)
      => portsc[p].csc

(* Bring-up ends whatever the controller does and does not do, without a   *)
(* hang for want of memory of the right shape.                             *)
BringUpEnds == <>(stage \in {"done", "crashed"})
=============================================================================

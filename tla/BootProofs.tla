----------------------------- MODULE BootProofs -----------------------------
(***************************************************************************)
(* What the boot does to its devices, for every computer that DisksAssump- *)
(* tion admits, and the safety of one AHCI port, for every number of       *)
(* command slots and of interrupts.                                        *)
(***************************************************************************)
EXTENDS Boot, AhciPort, SequenceTheorems, WellFoundedInduction, TLAPS

(* A fatal event stands for a halted HBA, until it is handled. *)
FatalIsHalted ==
    /\ "fatal" \in is => hba = "fatal"
    /\ isr = "read" /\ "fatal" \in isv => hba = "fatal"
    /\ isr = "recover" => "fatal" \notin is
    /\ hba = "fatal" => cmd[ccs] = "none"

(* What the recovery holds on to, it holds only while it runs. *)
RecoveryInv ==
    /\ isr \in {"out", "read", "recover"} => todo = {}
    /\ isr # "write" => civ = {}

IInv == TypeOK /\ FatalIsHalted /\ RecoveryInv /\ SlotIsFree /\ NoCommandLost /\ QuietOnSuccess

USE DEF Slots, adapter, thread, isrVars, recovery

(* The configured port, before its first command. *)
LEMMA InitIInv == PortInit => IInv
<1>1. 0 \in Slots /\ 0 \in 0..MaxNoise
  BY SlotsAssumption, NoiseAssumption
<1> HIDE DEF Slots
<1>2. PortInit => TypeOK
  BY <1>1 DEF PortInit, TypeOK
<1>3. PortInit => FatalIsHalted /\ RecoveryInv /\ SlotIsFree /\ NoCommandLost /\ QuietOnSuccess
  BY DEF PortInit, FatalIsHalted, RecoveryInv, SlotIsFree, NoCommandLost, QuietOnSuccess
<1> QED BY <1>2, <1>3 DEF IInv

(* The steps of the HBA. *)
LEMMA HbaStep == IInv /\ Hba => IInv'
<1> SUFFICES ASSUME IInv, Hba PROVE IInv'
  OBVIOUS
<1> USE DEF IInv, TypeOK, FatalIsHalted, RecoveryInv, SlotIsFree, NoCommandLost, QuietOnSuccess
<1>1. ASSUME NEW s \in Slots, HbaFetch(s) PROVE IInv'
  BY <1>1 DEF HbaFetch
<1>2. CASE HbaComplete
  <2>1. /\ hba = "running" /\ hba' = "posting" /\ busy' = FALSE /\ ci' = ci \ {ccs}
        /\ cmd' = [cmd EXCEPT ![ccs] = "done"]
        /\ UNCHANGED <<ccs, is, gis, noise, error, received, pc, slot, verdict, isr, isv, errorSlot, todo, civ>>
    BY <1>2 DEF HbaComplete, thread, isrVars, recovery
  <2>2. TypeOK'
    BY <2>1 DEF TypeOK
  <2>3. FatalIsHalted' /\ RecoveryInv'
    BY <2>1 DEF FatalIsHalted, RecoveryInv
  <2>4. SlotIsFree' /\ QuietOnSuccess'
    BY <2>1 DEF SlotIsFree, QuietOnSuccess
  <2>5. NoCommandLost'
    BY <2>1 DEF NoCommandLost, TypeOK
  <2> QED BY <2>2, <2>3, <2>4, <2>5 DEF IInv
<1>3. CASE HbaPost
  BY <1>3, SlotsAssumption DEF HbaPost, Raise
<1>4. CASE HbaPostNothing
  BY <1>4, SlotsAssumption DEF HbaPostNothing
<1>5. CASE HbaFail
  BY <1>5 DEF HbaFail, Raise
<1>6. CASE HbaReady
  <2>1. busy' \in BOOLEAN
        /\ UNCHANGED <<ci, ccs, hba, is, gis, noise, error, received, pc, slot, verdict, isr, isv, errorSlot, todo, civ, cmd>>
    BY <1>6 DEF HbaReady
  <2>2. TypeOK'
    BY <2>1 DEF TypeOK
  <2>3. FatalIsHalted' /\ RecoveryInv'
    BY <2>1 DEF FatalIsHalted, RecoveryInv
  <2>4. SlotIsFree' /\ NoCommandLost' /\ QuietOnSuccess'
    BY <2>1 DEF SlotIsFree, NoCommandLost, QuietOnSuccess
  <2> QED BY <2>2, <2>3, <2>4 DEF IInv
<1>7. CASE HbaNoise
  BY <1>7, NoiseAssumption DEF HbaNoise, Raise
<1>8. CASE HbaHalt
  BY <1>8 DEF HbaHalt
<1> QED BY <1>1, <1>2, <1>3, <1>4, <1>5, <1>6, <1>7, <1>8 DEF Hba

(* The interrupt handler: it stops only a halted HBA, and what it does not *)
(* issue again is the command that failed.                                 *)
LEMMA IsrStep == IInv /\ Isr => IInv'
<1> SUFFICES ASSUME IInv, Isr PROVE IInv'
  OBVIOUS
<1> USE DEF IInv, TypeOK, FatalIsHalted, RecoveryInv, SlotIsFree, NoCommandLost, QuietOnSuccess
<1>1. CASE IsrRead
  BY <1>1 DEF IsrRead
<1>2. CASE IsrClear
  BY <1>2 DEF IsrClear
<1>3. CASE IsrStop
  <2>0. 0 \in Slots
    BY SlotsAssumption
  <2>1. TypeOK'
    <3> HIDE DEF Slots
    <3> QED BY <1>3, <2>0 DEF IsrStop
  <2>4. FatalIsHalted' /\ RecoveryInv'
    BY <1>3 DEF IsrStop
  <2>2. SlotIsFree' /\ QuietOnSuccess'
    BY <1>3 DEF IsrStop
  <2>3. NoCommandLost'
    BY <1>3 DEF IsrStop
  <2> QED BY <2>1, <2>2, <2>3, <2>4
<1>4. CASE IsrRestart
  <2>0. 0 \in Slots
    BY SlotsAssumption
  <2>1. TypeOK'
    <3> HIDE DEF Slots
    <3> QED BY <1>4, <2>0 DEF IsrRestart, Comreset
  <2>4. FatalIsHalted' /\ RecoveryInv'
    BY <1>4 DEF IsrRestart, Comreset
  <2>2. SlotIsFree' /\ QuietOnSuccess'
    BY <1>4 DEF IsrRestart, Comreset
  <2>3. NoCommandLost'
    BY <1>4 DEF IsrRestart, Comreset
  <2> QED BY <2>1, <2>2, <2>3, <2>4
<1>5. CASE IsrReissueRead
  BY <1>5 DEF IsrReissueRead
<1>6. CASE IsrReissueWrite
  BY <1>6 DEF IsrReissueWrite
<1>7. CASE IsrRecovered
  BY <1>7 DEF IsrRecovered
<1> QED BY <1>1, <1>2, <1>3, <1>4, <1>5, <1>6, <1>7 DEF Isr

(* The thread: it issues into a slot the HBA does not own. *)
LEMMA CallStep == IInv /\ (Begin \/ Call) => IInv'
<1> SUFFICES ASSUME IInv, Begin \/ Call PROVE IInv'
  OBVIOUS
<1> USE DEF IInv, TypeOK, FatalIsHalted, RecoveryInv, SlotIsFree, NoCommandLost, QuietOnSuccess
<1>1. CASE Begin
  BY <1>1 DEF Begin
<1>2. CASE GetCommandSlot
  BY <1>2 DEF GetCommandSlot, FreeSlots
<1>3. CASE NoCommandSlot \/ TooManyRegions \/ PortHung
  BY <1>3 DEF NoCommandSlot, TooManyRegions, PortHung, Return
<1>4. CASE WaitForPort
  BY <1>4 DEF WaitForPort
<1>5. CASE IssueCommand
  BY <1>5 DEF IssueCommand
<1>6. CASE CommandFailed \/ TimedOut
  BY <1>6 DEF CommandFailed, TimedOut, Return
<1>7. CASE NoError \/ CommandGone \/ PollAgain
  BY ZenonT(60), <1>7 DEF NoError, CommandGone, PollAgain
<1>8. CASE DataReceived \/ DataNotReported
  BY <1>8 DEF DataReceived, DataNotReported, Return
<1> QED BY <1>1, <1>2, <1>3, <1>4, <1>5, <1>6, <1>7, <1>8 DEF Call

(* Every step of the port, and a step that leaves it alone. *)
LEMMA StepIInv == IInv /\ [PortNext]_portVars => IInv'
<1>1. IInv /\ UNCHANGED portVars => IInv'
  BY DEF portVars, IInv, TypeOK, FatalIsHalted, RecoveryInv, SlotIsFree, NoCommandLost, QuietOnSuccess
<1> QED BY <1>1, HbaStep, IsrStep, CallStep DEF PortNext

(* The invariant holds in every state of the port. *)
THEOREM PortInvariant == PortSpec => []IInv
  BY InitIInv, StepIInv, PTL DEF PortSpec

(* No command is put into a slot the HBA owns, and none is filled while    *)
(* the HBA reads it (get_command_slot, issue_command, on_interrupt).       *)
THEOREM SlotIsFreeTheorem == PortSpec => []SlotIsFree
<1>1. IInv => SlotIsFree
  BY DEF IInv
<1> QED BY <1>1, PortInvariant, PTL

(* A recovery drops the failed command and no other, and flags that one    *)
(* for the thread that waits (on_interrupt, wait_for_port_completion).     *)
THEOREM NoCommandLostTheorem == PortSpec => []NoCommandLost
<1>1. IInv => NoCommandLost
  BY DEF IInv
<1> QED BY <1>1, PortInvariant, PTL

(* A buffer is given back to the caller of a successful call only when the *)
(* HBA has let go of it for good (issue_command).                          *)
THEOREM QuietOnSuccessTheorem == PortSpec => []QuietOnSuccess
<1>1. IInv => QuietOnSuccess
  BY DEF IInv
<1> QED BY <1>1, PortInvariant, PTL

HIDE DEF Slots, adapter, thread, isrVars, recovery

----------------------------------------------------------------------------
(* The script, line by line. *)
LEMMA ScriptAt ==
    /\ Len(Script) = 44 /\ Len(Reset(2)) = 3 /\ KeepLine = 31
    /\ Script[1] = <<"cli">> /\ Script[2] = <<"fadt">> /\ Script[3] = <<"resources">>
    /\ Script[4] = <<"8042">> /\ Script[5] = <<"command", 173>> /\ Script[6] = <<"command", 167>>
    /\ Script[7] = <<"flush">> /\ Script[8] = <<"readConfig">> /\ Script[9] = <<"quiet">>
    /\ Script[10] = <<"writeConfig">> /\ Script[11] = <<"readConfig">> /\ Script[12] = <<"command", 170>>
    /\ Script[13] = <<"read">> /\ Script[14] = <<"tested">> /\ Script[15] = <<"writeConfig">>
    /\ Script[16] = <<"command", 168>> /\ Script[17] = <<"readConfig">> /\ Script[18] = <<"second">>
    /\ Script[19] = <<"readConfig">> /\ Script[20] = <<"command", 174>> /\ Script[21] = <<"final">>
    /\ Script[22] = <<"writeConfig">>
  BY DEF Script, Setup, Reset, Identify, KeepLine

LEMMA ScriptAfter ==
    /\ Script[23] = <<"send", 1, 255>> /\ Script[24] = <<"read">> /\ Script[25] = <<"read">>
    /\ Script[26] = <<"send", 1, 245>> /\ Script[27] = <<"read">> /\ Script[28] = <<"send", 1, 242>>
    /\ Script[29] = <<"read">> /\ Script[30] = <<"read">> /\ Script[31] = <<"keepId">>
    /\ Script[32] = <<"read">> /\ Script[33] = <<"send", 1, 244>> /\ Script[34] = <<"read">>
    /\ Script[35] = <<"send", 1, 240>> /\ Script[36] = <<"send", 1, 1>> /\ Script[37] = <<"read">>
    /\ Script[38] = <<"install">> /\ Script[39] = <<"dual">> /\ Script[40] = <<"send", 2, 255>>
    /\ Script[41] = <<"read">> /\ Script[42] = <<"read">> /\ Script[43] = <<"sti">>
    /\ Script[44] = <<"flush">>
  BY DEF Script, Setup, Reset, Identify

----------------------------------------------------------------------------
Present == machine.first # <<>>
Between(first, last) == phase = "running" /\ first <= line /\ line <= last
Reached(first) == phase = "done" \/ (phase = "running" /\ first <= line)

Ps2Type ==
    /\ machine \in Machines /\ phase \in {"idle", "running", "done", "nodev"}
    /\ line \in 1..44 /\ flag \in BOOLEAN /\ keys \in Nat
    /\ got \in Bytes /\ id1 \in Bytes /\ out \in Seq(Bytes)
    /\ controller \in Configs /\ saved \in Configs
    /\ device1 \in [scanning : BOOLEAN, set : Bytes] /\ awaits \in Bytes
    /\ dual \in BOOLEAN /\ early \in BOOLEAN

(* Interrupts are off from the first line to the last but one. *)
FlagInv ==
    /\ phase # "running" => flag
    /\ Between(2, 43) => ~flag
    /\ Between(44, 44) => flag

(* Nothing is installed before its line; a probe runs once. *)
HandlerInv ==
    /\ phase = "idle" \/ Between(1, 38) => handler = <<>>
    /\ Reached(39) /\ ~early => handler = IF IsKeyboard THEN <<KeyboardIrq>> ELSE <<>>

(* Each answer is read as the answer to what it was asked with. *)
BufferInv ==
    ~early =>
        /\ Between(8, 12) \/ Between(14, 23) => out = <<>>
        /\ Between(13, 13) => out = <<machine.passes>>
        /\ Between(24, 24) /\ Present => out = <<ACK, BatPassed>>
        /\ Between(25, 25) /\ Present => out = <<BatPassed>>
        /\ Between(26, 26) \/ Between(28, 28) => out = <<>>
        /\ Between(27, 27) /\ Present => out = <<ACK>>
        /\ Between(29, 29) /\ Present => out = <<ACK>> \o machine.first
        /\ Between(30, 30) /\ Present => out = machine.first
        /\ Between(24, 31) /\ ~Present => out = <<>>
IdInv ==
    ~early =>
        /\ Between(15, 31) /\ ~Present => got # KeyboardId[1]
        /\ Between(31, 31) => (IsKeyboard <=> got = KeyboardId[1])
        /\ Between(32, 38) => (IsKeyboard <=> id1 = KeyboardId[1])

(* What the controller and the device have been set to. *)
ControllerInv ==
    ~early =>
        /\ Between(10, 10) \/ Reached(12) => saved.translation = 0
        /\ Reached(11) => controller.translation = 0
        /\ Between(22, 22) => saved.irq1 = 1 /\ saved.clock1 = 0
        /\ Reached(23) => controller.irq1 = 1 /\ controller.clock1 = 0
DeviceInv ==
    /\ phase = "idle" \/ Between(1, 35) => awaits = 0
    /\ Between(36, 36) => awaits = IF Present THEN 240 ELSE 0
    /\ Between(37, 44) => awaits = 0
    /\ Between(34, 36) /\ Present => device1.scanning
    /\ Between(37, 40) /\ Present => device1 = [scanning |-> TRUE, set |-> 1]
    /\ Reached(41) /\ Present /\ ~early /\ SecondKnown => device1 = [scanning |-> TRUE, set |-> 1]

(* A second port that is not there is not taken to be, if its clock showed *)
(* as off.                                                                 *)
Alone == ~machine.dual /\ machine.config.clock2 = 1
DualInv ==
    /\ Between(40, 42) => dual
    /\ ~early /\ Alone =>
         /\ phase = "idle" \/ Between(1, 18) => controller.clock2 = 1
         /\ Between(9, 10) \/ Between(12, 18) => saved.clock2 = 1
         /\ Reached(19) => ~dual

Ps2Inv ==
    Ps2Type /\ FlagInv /\ HandlerInv /\ BufferInv /\ IdInv /\ ControllerInv /\ DeviceInv /\ DualInv

(* A configuration is what its byte is read as, which is no keyboard. *)
LEMMA ConfigBytes ==
    ASSUME NEW c \in Configs
    PROVE  ByteOf(c) \in Bytes /\ ByteOf(c) # KeyboardId[1] /\ ConfigOf(ByteOf(c)) = c
<1>1. PICK i \in 0..1, j \in 0..1, k \in 0..1, m \in 0..1, t \in 0..1 :
        c = [irq1 |-> i, irq2 |-> j, clock1 |-> k, clock2 |-> m, translation |-> t]
  BY DEF Configs
<1>2. ByteOf(c) = i + 2 * j + 4 + 16 * k + 32 * m + 64 * t
  BY <1>1 DEF ByteOf
<1>3. PICK b \in Nat : b = i + 2 * j + 4 + 16 * k + 32 * m + 64 * t
  OBVIOUS
<1>4. b % 2 = i /\ (b \div 2) % 2 = j /\ (b \div 16) % 2 = k /\ (b \div 32) % 2 = m /\ (b \div 64) % 2 = t
  BY <1>3
<1>5. ConfigOf(b) = c
  BY <1>1, <1>4 DEF ConfigOf
<1>6. b <= 119
  BY <1>3
<1> QED BY <1>2, <1>3, <1>5, <1>6 DEF Bytes, KeyboardId
LEMMA ConfigRead ==
    ASSUME NEW b \in Bytes PROVE ConfigOf(b) \in Configs
  BY DEF ConfigOf, Configs, Bytes

(* The line a step of the script is at. *)
LEMMA RunningAt ==
    ASSUME line \in 1..44
    PROVE  /\ Running("cli") => line = 1
           /\ Running("fadt") \/ Running("resources") \/ Running("8042") => line \in 2..4
           /\ Running("tested") => line = 14
           /\ Running("command") => line \in {5, 6, 12, 16, 20}
           /\ Running("flush") => line \in {7, 44}
           /\ Running("readConfig") => line \in {8, 11, 17, 19}
           /\ Running("writeConfig") => line \in {10, 15, 22}
           /\ Running("quiet") => line = 9
           /\ Running("second") => line = 18
           /\ Running("final") => line = 21
           /\ Running("send") => line \in {23, 26, 28, 33, 35, 36, 40}
           /\ Running("read") => line \in {13, 24, 25, 27, 29, 30, 32, 34, 37, 41, 42}
           /\ Running("keepId") => line = 31
           /\ Running("install") => line = 38
           /\ Running("dual") => line = 39
           /\ Running("sti") => line = 43
<1> DEFINE op == Script[line][1]
<1>1. \A o : Running(o) => o = op
  BY DEF Running
<1>2. CASE line <= 11
  BY <1>1, <1>2, ScriptAt
<1>3. CASE 11 < line /\ line <= 22
  BY <1>1, <1>3, ScriptAt
<1>4. CASE 22 < line /\ line <= 33
  BY <1>1, <1>4, ScriptAfter
<1>5. CASE 33 < line
  BY <1>1, <1>5, ScriptAfter
<1> QED BY <1>2, <1>3, <1>4, <1>5
USE DEF Between, Reached

(* The probe is called for the first time. *)
LEMMA FirstProbeInv ==
    ASSUME Ps2Inv, probe, phase = "idle" PROVE Ps2Inv'
<1> USE DEF probe
<1>1. KeyBytes[1] \in Bytes
  <2>1. KeyBytes \in Seq(Bytes) /\ KeyBytes # <<>>
    BY KeysAssumption DEF Bytes
  <2>2. Len(KeyBytes) \in Nat /\ Len(KeyBytes) # 0
    BY <2>1
  <2>3. 1 \in 1..Len(KeyBytes)
    BY <2>2
  <2> QED BY <2>1, <2>3
<1>2. out' \in Seq(Bytes)
  BY <1>1 DEF Ps2Inv, Ps2Type
<1>a. Ps2Type'
  BY <1>2 DEF Ps2Inv, Ps2Type
<1>3. FlagInv' /\ HandlerInv'
  BY DEF Ps2Inv, FlagInv, HandlerInv
<1>4. BufferInv' /\ IdInv'
  BY DEF Ps2Inv, BufferInv, IdInv
<1>5. ControllerInv' /\ DeviceInv'
  BY DEF Ps2Inv, ControllerInv, DeviceInv
<1>6. DualInv'
  BY DEF Ps2Inv, DualInv, Alone
<1> QED BY <1>a, <1>3, <1>4, <1>5, <1>6 DEF Ps2Inv

(* The steps that read nothing. *)
LEMMA PlainInv ==
    ASSUME Ps2Inv,
           Cli \/ Sti \/ ResetSecond \/ Check("fadt", machine.fadt)
               \/ Check("resources", machine.resources) \/ Check("8042", machine.has8042)
               \/ Check("tested", got = 85)
    PROVE  Ps2Inv'
<1>1. UNCHANGED <<machine, keys, early, got, id1, controller, saved, out, device1, awaits, dual, handler>>
  BY DEF Cli, Sti, ResetSecond, Check, Same
<1>2. phase = "running" /\ line \in 1..44
  BY DEF Ps2Inv, Ps2Type, Cli, Sti, ResetSecond, Check, Running
<1>3. \/ line = 1 /\ line' = 2 /\ phase' = "running" /\ flag' = FALSE
      \/ line \in {2, 3, 4, 14} /\ line' = line + 1 /\ phase' = "running" /\ flag' = flag
           /\ (line = 14 => got = 85)
      \/ phase' = "nodev" /\ flag' = TRUE /\ line' = line
      \/ line = 39 /\ line' = (IF dual THEN 40 ELSE 43) /\ phase' = "running" /\ flag' = flag
      \/ line = 43 /\ line' = 44 /\ phase' = "running" /\ flag' = TRUE
  <2>1. ASSUME NEW op, NEW present, Check(op, present)
        PROVE  \/ phase' = "nodev" /\ flag' = TRUE /\ line' = line
               \/ present /\ line' = line + 1 /\ phase' = phase /\ flag' = flag
    BY <2>1 DEF Check, Goto, NoDevice
  <2>2. CASE Cli
    BY <1>2, <2>2, RunningAt DEF Cli, Goto
  <2>3. CASE Sti
    <3>1. line = 43
      BY <1>2, <2>3, RunningAt DEF Sti
    <3>2. line' = line + 1 /\ phase' = phase /\ flag' = TRUE
      BY <2>3 DEF Sti, Goto
    <3> QED BY <1>2, <3>1, <3>2
  <2>4. CASE ResetSecond
    <3>1. line = 39 /\ Len(Reset(2)) = 3
      BY <1>2, <2>4, RunningAt, ScriptAt DEF ResetSecond
    <3>2. line' = line + 1 + (IF dual THEN 0 ELSE 3) /\ phase' = phase /\ flag' = flag
      BY <2>4, <3>1 DEF ResetSecond, Goto
    <3>3. line' = IF dual THEN 40 ELSE 43
      BY <3>1, <3>2
    <3> QED BY <1>2, <3>1, <3>2, <3>3
  <2>5. CASE Check("fadt", machine.fadt) \/ Check("resources", machine.resources) \/ Check("8042", machine.has8042)
    <3>1. line \in 2..4
      BY <1>2, <2>5, RunningAt DEF Check
    <3>2. \/ phase' = "nodev" /\ flag' = TRUE /\ line' = line
          \/ line' = line + 1 /\ phase' = phase /\ flag' = flag
      BY <2>1, <2>5
    <3> QED BY <1>2, <3>1, <3>2
  <2>6. CASE Check("tested", got = 85)
    <3>1. line = 14
      BY <1>2, <2>6, RunningAt DEF Check
    <3> QED BY <1>2, <2>1, <2>6, <3>1
  <2> QED BY <2>2, <2>3, <2>4, <2>5, <2>6
<1>4. Ps2Type'
  <2>1. phase' \in {"running", "nodev"} /\ line' \in 1..44
    BY <1>2, <1>3
  <2>2. flag' \in BOOLEAN
    BY <1>3 DEF Ps2Inv, Ps2Type
  <2> QED BY <1>1, <2>1, <2>2 DEF Ps2Inv, Ps2Type
<1>5. FlagInv'
  BY <1>1, <1>2, <1>3 DEF Ps2Inv, FlagInv
<1>6. HandlerInv'
  BY <1>1, <1>2, <1>3 DEF Ps2Inv, HandlerInv, IsKeyboard, KeyboardIrq
<1>7. BufferInv'
  BY <1>1, <1>2, <1>3 DEF Ps2Inv, BufferInv, Present
<1>8. IdInv'
  BY <1>1, <1>2, <1>3 DEF Ps2Inv, IdInv, IsKeyboard, Present, KeyboardId
<1>9. ControllerInv'
  BY <1>1, <1>2, <1>3 DEF Ps2Inv, ControllerInv
<1>10. DeviceInv' /\ DualInv'
  BY <1>1, <1>2, <1>3 DEF Ps2Inv, DeviceInv, DualInv, Alone, SecondKnown, Present
<1> QED BY <1>4, <1>5, <1>6, <1>7, <1>8, <1>9, <1>10 DEF Ps2Inv

(* The commands to the controller. *)
LEMMA CommandInv ==
    ASSUME Ps2Inv, Command PROVE Ps2Inv'
<1>1. phase = "running" /\ line \in {5, 6, 12, 16, 20} /\ phase' = "running" /\ line' = line + 1
  BY RunningAt DEF Ps2Inv, Ps2Type, Command, Running, Goto
<1>2. UNCHANGED <<machine, keys, early, flag, got, id1, saved, device1, awaits, dual, handler>>
  BY DEF Command, Same
<1>0. PICK byte : /\ byte = Script[line][2]
                  /\ byte \in {173, 167, 170, 168, 174} /\ (byte = 170 <=> line = 12)
  <2>1. Script[line][2] \in {173, 167, 170, 168, 174} /\ (Script[line][2] = 170 <=> line = 12)
    BY <1>1, ScriptAt
  <2> QED BY <2>1
<1>3. /\ line = 12 => out' = out \o <<machine.passes>>
      /\ line # 12 => out' = out
  <2>1. IF byte = 170 THEN Answer(<<machine.passes>>) ELSE out' = out
    BY <1>0 DEF Command
  <2> QED BY <1>0, <2>1 DEF Answer
<1>4. /\ controller' \in Configs
      /\ controller'.translation = controller.translation
      /\ Alone => controller'.clock2 = controller.clock2
  <2>1. controller \in Configs /\ machine.dual \in BOOLEAN
    BY DEF Ps2Inv, Ps2Type, Machines
  <2>2. \E c \in 0..1 : \/ controller' = [controller EXCEPT !.clock1 = c]
                        \/ controller' = [controller EXCEPT !.clock2 = c] /\ machine.dual
                        \/ controller' = controller
    <3>1. /\ byte = 173 => controller' = [controller EXCEPT !.clock1 = 1]
          /\ byte = 174 => controller' = [controller EXCEPT !.clock1 = 0]
          /\ byte = 167 /\ machine.dual => controller' = [controller EXCEPT !.clock2 = 1]
          /\ byte = 168 /\ machine.dual => controller' = [controller EXCEPT !.clock2 = 0]
          /\ byte = 170 \/ (byte \in {167, 168} /\ ~machine.dual) => controller' = controller
      BY <1>0 DEF Command
    <3> QED BY <1>0, <2>1, <3>1
  <2>3. ASSUME NEW c \in 0..1
        PROVE  /\ [controller EXCEPT !.clock1 = c] \in Configs /\ [controller EXCEPT !.clock2 = c] \in Configs
               /\ [controller EXCEPT !.clock1 = c].translation = controller.translation
               /\ [controller EXCEPT !.clock2 = c].translation = controller.translation
               /\ [controller EXCEPT !.clock1 = c].clock2 = controller.clock2
    BY <2>1 DEF Configs
  <2>4. PICK c \in 0..1 : \/ controller' = [controller EXCEPT !.clock1 = c]
                          \/ controller' = [controller EXCEPT !.clock2 = c] /\ machine.dual
                          \/ controller' = controller
    BY <2>2
  <2>5. CASE controller' = [controller EXCEPT !.clock1 = c]
    BY <2>3, <2>5
  <2>6. CASE controller' = [controller EXCEPT !.clock2 = c] /\ machine.dual
    BY <2>3, <2>6 DEF Alone
  <2>7. CASE controller' = controller
    BY <2>1, <2>7
  <2> QED BY <2>4, <2>5, <2>6, <2>7
<1>5. out' \in Seq(Bytes)
  <2>1. out \in Seq(Bytes) /\ machine.passes \in Bytes
    BY DEF Ps2Inv, Ps2Type, Machines, Bytes
  <2> QED BY <1>3, <2>1
<1>6. Ps2Type'
  BY <1>1, <1>2, <1>4, <1>5 DEF Ps2Inv, Ps2Type
<1>7. FlagInv'
  BY <1>1, <1>2, <1>4 DEF Ps2Inv, FlagInv
<1>8. HandlerInv'
  BY <1>1, <1>2, <1>4 DEF Ps2Inv, HandlerInv, IsKeyboard, KeyboardIrq
<1>9. BufferInv'
  <2>1. ~early /\ line = 12 => out = <<>>
    BY <1>1 DEF Ps2Inv, BufferInv
  <2>2. ~early /\ line = 12 => out' = <<machine.passes>>
    BY <1>3, <2>1
  <2> QED BY <1>1, <1>2, <1>3, <2>2 DEF Ps2Inv, BufferInv, Present
<1>10. IdInv'
  BY <1>1, <1>2, <1>4 DEF Ps2Inv, IdInv, IsKeyboard, Present, KeyboardId
<1>11. ControllerInv'
  BY <1>1, <1>2, <1>4 DEF Ps2Inv, ControllerInv
<1>12. DeviceInv' /\ DualInv'
  BY <1>1, <1>2, <1>4 DEF Ps2Inv, DeviceInv, DualInv, Alone, SecondKnown, Present
<1> QED BY <1>6, <1>7, <1>8, <1>9, <1>10, <1>11, <1>12 DEF Ps2Inv

(* The controller is emptied, at the beginning and at the end. *)
LEMMA FlushInv ==
    ASSUME Ps2Inv, Flush PROVE Ps2Inv'
<1>1. phase = "running" /\ line \in {7, 44}
  BY RunningAt DEF Ps2Inv, Ps2Type, Flush, FlushThen, Running
<1>2. UNCHANGED <<machine, keys, early, flag, got, id1, controller, saved, device1, awaits, dual, handler>>
  BY DEF Flush, FlushThen, Same
<1>3. \/ out # <<>> /\ out' = Tail(out) /\ phase' = "running" /\ line' = line
      \/ line = 7 /\ line' = 8 /\ phase' = "running" /\ out' = out /\ out = <<>>
      \/ line = 44 /\ line' = 44 /\ phase' = "done" /\ out' = out
  <2>1. CASE out # <<>>
    BY <1>1, <2>1 DEF Flush, FlushThen
  <2>2. CASE out = <<>>
    <3>1. IF line < 44 THEN Goto(line + 1) /\ out' = out ELSE phase' = "done" /\ line' = line /\ out' = out
      BY <2>2, ScriptAt DEF Flush, FlushThen
    <3> QED BY <1>1, <2>2, <3>1 DEF Goto
  <2> QED BY <2>1, <2>2
<1>4. out' \in Seq(Bytes)
  BY <1>3 DEF Ps2Inv, Ps2Type
<1>5. Ps2Type'
  <2>1. line' \in 1..44 /\ phase' \in {"running", "done"}
    <3>1. line' \in {line, line + 1} /\ (line = 44 => line' = 44) /\ phase' \in {"running", "done"}
      BY <1>3
    <3> QED BY <1>1, <3>1
  <2> QED BY <1>2, <1>4, <2>1 DEF Ps2Inv, Ps2Type
<1>6. FlagInv'
  BY <1>1, <1>2, <1>3 DEF Ps2Inv, FlagInv
<1>7. HandlerInv'
  BY <1>1, <1>2, <1>3 DEF Ps2Inv, HandlerInv, IsKeyboard, KeyboardIrq
<1>8. BufferInv'
  BY <1>1, <1>2, <1>3 DEF Ps2Inv, BufferInv, Present
<1>9. IdInv'
  BY <1>1, <1>2, <1>3 DEF Ps2Inv, IdInv, IsKeyboard, Present, KeyboardId
<1>10. ControllerInv'
  BY <1>1, <1>2, <1>3 DEF Ps2Inv, ControllerInv
<1>11. DeviceInv' /\ DualInv'
  BY <1>1, <1>2, <1>3 DEF Ps2Inv, DeviceInv, DualInv, Alone, SecondKnown, Present
<1> QED BY <1>5, <1>6, <1>7, <1>8, <1>9, <1>10, <1>11 DEF Ps2Inv

(* The configuration is read, changed and written back. *)
LEMMA ReadConfigInv ==
    ASSUME Ps2Inv, ReadConfig PROVE Ps2Inv'
<1>1. phase = "running" /\ line \in {8, 11, 17, 19} /\ phase' = "running" /\ line' = line + 1
  BY RunningAt DEF Ps2Inv, Ps2Type, ReadConfig, Running, Goto
<1>2. UNCHANGED <<machine, keys, early, flag, id1, controller, device1, awaits, dual, handler>>
  BY DEF ReadConfig, Same
<1>3. PICK b \in Bytes : b = ByteOf(controller) /\ b # KeyboardId[1] /\ ConfigOf(b) = controller
  BY ConfigBytes DEF Ps2Inv, Ps2Type
<1>4. out \in Seq(Bytes)
  BY DEF Ps2Inv, Ps2Type
<1>5. /\ out' = Tail(out \o <<b>>) /\ got' = Head(out \o <<b>>)
      /\ saved' = ConfigOf(Head(out \o <<b>>))
  BY <1>3 DEF ReadConfig
<1>6. out' \in Seq(Bytes) /\ got' \in Bytes /\ saved' \in Configs
  <2>1. out \o <<b>> \in Seq(Bytes) /\ out \o <<b>> # <<>>
    BY <1>4
  <2> QED BY <1>5, <2>1, ConfigRead
<1>7. ~early => out' = <<>> /\ got' = b /\ saved' = controller
  <2>1. ~early => out = <<>>
    BY <1>1 DEF Ps2Inv, BufferInv
  <2>2. ~early => out \o <<b>> = <<b>>
    BY <2>1
  <2> QED BY <1>3, <1>5, <2>2
<1>8. Ps2Type'
  BY <1>1, <1>2, <1>6 DEF Ps2Inv, Ps2Type
<1>9. FlagInv'
  BY <1>1, <1>2 DEF Ps2Inv, FlagInv
<1>10. HandlerInv'
  BY <1>1, <1>2 DEF Ps2Inv, HandlerInv, IsKeyboard, KeyboardIrq
<1>11. BufferInv'
  BY <1>1, <1>2, <1>7 DEF Ps2Inv, BufferInv
<1>12. IdInv'
  BY <1>1, <1>2, <1>3, <1>7 DEF Ps2Inv, IdInv
<1>13. ControllerInv'
  BY <1>1, <1>2, <1>7 DEF Ps2Inv, ControllerInv
<1>14. DeviceInv' /\ DualInv'
  BY <1>1, <1>2, <1>7 DEF Ps2Inv, DeviceInv, DualInv, Alone, SecondKnown, Present
<1> QED BY <1>8, <1>9, <1>10, <1>11, <1>12, <1>13, <1>14 DEF Ps2Inv

LEMMA ConfigInv ==
    ASSUME Ps2Inv, WriteConfig \/ Quiet \/ SecondPort \/ Final PROVE Ps2Inv'
<1>1. phase = "running" /\ phase' = "running" /\ line' = line + 1 /\ line \in {9, 10, 15, 18, 21, 22}
  BY RunningAt DEF Ps2Inv, Ps2Type, WriteConfig, Quiet, SecondPort, Final, Running, Goto
<1>2. UNCHANGED <<machine, keys, early, flag, got, id1, out, device1, awaits, handler>>
  BY DEF WriteConfig, Quiet, SecondPort, Final, Same
<1>3. controller \in Configs /\ saved \in Configs
  BY DEF Ps2Inv, Ps2Type
<1>4. /\ dual' \in BOOLEAN /\ controller' \in Configs /\ saved' \in Configs
      /\ line = 9 => saved'.translation = 0 /\ saved'.clock2 = saved.clock2 /\ controller' = controller
      /\ line = 18 => (dual' <=> saved.clock2 = 0)
      /\ line # 18 => dual' = dual
      /\ line \in {10, 15, 22} => controller' = saved /\ saved' = saved
      /\ line = 18 => saved' = saved /\ (controller'.translation = 0 \/ controller' = controller \/ saved.translation # 0)
      /\ line = 21 => /\ controller' = controller /\ saved'.translation = saved.translation
                      /\ saved'.irq1 = 1 /\ saved'.clock1 = 0
  <2>1. CASE WriteConfig
    <3>1. line \in {10, 15, 22} /\ controller' = saved /\ saved' = saved /\ dual' = dual
      BY <2>1, RunningAt DEF Ps2Inv, Ps2Type, WriteConfig
    <3> QED BY <1>3, <3>1 DEF Ps2Inv, Ps2Type
  <2>2. CASE Quiet
    <3>1. /\ line = 9 /\ controller' = controller /\ dual' = dual
          /\ saved' = [saved EXCEPT !.irq1 = 0, !.irq2 = 0, !.translation = 0, !.clock1 = 0]
      BY <2>2, RunningAt DEF Ps2Inv, Ps2Type, Quiet
    <3>2. PICK c \in 0..1 : c = saved.clock2
      BY <1>3 DEF Configs
    <3>3. saved' = [irq1 |-> 0, irq2 |-> 0, clock1 |-> 0, clock2 |-> c, translation |-> 0]
      BY <1>3, <3>1, <3>2 DEF Configs
    <3>4. saved' \in Configs /\ saved'.translation = 0 /\ saved'.clock2 = saved.clock2
      BY <3>2, <3>3 DEF Configs
    <3> QED BY <1>3, <3>1, <3>4 DEF Ps2Inv, Ps2Type
  <2>3. CASE SecondPort
    <3>1. /\ line = 18 /\ saved' = saved /\ dual' \in BOOLEAN /\ (dual' <=> saved.clock2 = 0)
          /\ controller' \in {[saved EXCEPT !.irq2 = 0], controller}
      BY <2>3, RunningAt DEF Ps2Inv, Ps2Type, SecondPort
    <3>2. /\ [saved EXCEPT !.irq2 = 0] \in Configs
          /\ [saved EXCEPT !.irq2 = 0].translation = saved.translation
      BY <1>3 DEF Configs
    <3>3. CASE controller' = controller
      BY <1>3, <3>1, <3>3
    <3>4. CASE controller' = [saved EXCEPT !.irq2 = 0]
      BY <1>3, <3>1, <3>2, <3>4 DEF Configs
    <3> QED BY <3>1, <3>3, <3>4
  <2>4. CASE Final
    <3>1. /\ line = 21 /\ controller' = controller /\ dual' = dual
          /\ saved' \in {[saved EXCEPT !.irq1 = 1, !.clock1 = 0, !.irq2 = 1, !.clock2 = 0],
                         [saved EXCEPT !.irq1 = 1, !.clock1 = 0]}
      BY <2>4, RunningAt DEF Ps2Inv, Ps2Type, Final
    <3>2. PICK i \in 0..1, c \in 0..1, t \in 0..1 :
            /\ t = saved.translation
            /\ saved' = [irq1 |-> 1, irq2 |-> i, clock1 |-> 0, clock2 |-> c, translation |-> t]
      <4>1. PICK i \in 0..1, c \in 0..1, t \in 0..1 :
              i = saved.irq2 /\ c = saved.clock2 /\ t = saved.translation
        BY <1>3 DEF Configs
      <4>2. CASE saved' = [saved EXCEPT !.irq1 = 1, !.clock1 = 0]
        <5>1. saved' = [irq1 |-> 1, irq2 |-> i, clock1 |-> 0, clock2 |-> c, translation |-> t]
          BY <1>3, <4>1, <4>2 DEF Configs
        <5> QED BY <4>1, <5>1
      <4>3. CASE saved' = [saved EXCEPT !.irq1 = 1, !.clock1 = 0, !.irq2 = 1, !.clock2 = 0]
        <5>1. saved' = [irq1 |-> 1, irq2 |-> 1, clock1 |-> 0, clock2 |-> 0, translation |-> t]
          BY <1>3, <4>1, <4>3 DEF Configs
        <5> QED BY <4>1, <5>1
      <4> QED BY <3>1, <4>2, <4>3
    <3>3. /\ saved' \in Configs /\ saved'.translation = saved.translation
          /\ saved'.irq1 = 1 /\ saved'.clock1 = 0
      BY <3>2 DEF Configs
    <3> QED BY <1>3, <3>1, <3>3 DEF Ps2Inv, Ps2Type
  <2> QED BY <2>1, <2>2, <2>3, <2>4
<1>5. Ps2Type'
  BY <1>1, <1>2, <1>4 DEF Ps2Inv, Ps2Type
<1>6. FlagInv'
  BY <1>1, <1>2 DEF Ps2Inv, FlagInv
<1>7. HandlerInv'
  BY <1>1, <1>2 DEF Ps2Inv, HandlerInv, IsKeyboard, KeyboardIrq
<1>8. BufferInv'
  BY <1>1, <1>2 DEF Ps2Inv, BufferInv, Present
<1>9. IdInv'
  BY <1>1, <1>2 DEF Ps2Inv, IdInv, IsKeyboard, Present, KeyboardId
<1>10. ControllerInv'
  BY <1>1, <1>2, <1>4 DEF Ps2Inv, ControllerInv
<1>11. DeviceInv'
  BY <1>1, <1>2 DEF Ps2Inv, DeviceInv, SecondKnown, Present
<1>12. DualInv'
  <2>1. (Alone' <=> Alone) /\ phase' # "idle"
    BY <1>1, <1>2 DEF Alone
  <2>2. ~Between(40, 42)' /\ (Between(1, 18)' => line \in {9, 10, 15}) /\ (Reached(19)' => line \in {18, 21, 22})
    BY <1>1
  <2>3. ASSUME ~early, Alone
        PROVE  /\ line \in {9, 10, 15} => controller'.clock2 = 1
               /\ line \in {9, 15} => saved'.clock2 = 1
               /\ line \in {18, 21, 22} => ~dual'
    BY <1>1, <1>4, <2>3 DEF Ps2Inv, DualInv
  <2>4. (Between(9, 10)' => line = 9) /\ (Between(12, 18)' => line = 15)
    BY <1>1
  <2> QED BY <1>2, <2>1, <2>2, <2>3, <2>4 DEF DualInv
<1> QED BY <1>5, <1>6, <1>7, <1>8, <1>9, <1>10, <1>11, <1>12 DEF Ps2Inv

(* The first byte of the identification is kept, and decides. *)
LEMMA KeepIdInv ==
    ASSUME Ps2Inv, KeepId PROVE Ps2Inv'
<1>1. phase = "running" /\ line = 31 /\ phase' = "running" /\ line' = 32
  BY RunningAt DEF Ps2Inv, Ps2Type, KeepId, Running, Goto
<1>2. UNCHANGED <<machine, keys, early, flag, got, controller, saved, out, device1, awaits, dual, handler>> /\ id1' = got
  BY DEF KeepId, Same
<1>3. Ps2Type'
  BY <1>1, <1>2 DEF Ps2Inv, Ps2Type
<1>4. FlagInv'
  BY <1>1, <1>2 DEF Ps2Inv, FlagInv
<1>5. HandlerInv'
  BY <1>1, <1>2 DEF Ps2Inv, HandlerInv, IsKeyboard, KeyboardIrq
<1>6. BufferInv'
  BY <1>1, <1>2 DEF Ps2Inv, BufferInv, Present
<1>7. IdInv'
  BY <1>1, <1>2 DEF Ps2Inv, IdInv, IsKeyboard, Present, KeyboardId
<1>8. ControllerInv'
  BY <1>1, <1>2 DEF Ps2Inv, ControllerInv
<1>9. DeviceInv' /\ DualInv'
  BY <1>1, <1>2 DEF Ps2Inv, DeviceInv, DualInv, Alone, SecondKnown, Present
<1> QED BY <1>3, <1>4, <1>5, <1>6, <1>7, <1>8, <1>9 DEF Ps2Inv

LEMMA InstallInv ==
    ASSUME Ps2Inv, Install PROVE Ps2Inv'
<1>1. phase = "running" /\ line = 38 /\ phase' = "running" /\ line' = 39
  BY RunningAt DEF Ps2Inv, Ps2Type, Install, Running, Goto
<1>2. UNCHANGED <<machine, keys, early, flag, got, id1, controller, saved, out, device1, awaits, dual>>
  BY DEF Install, Same
<1>3. handler' = IF id1 = KeyboardId[1] THEN <<KeyboardIrq>> ELSE <<>>
  <2>1. handler = <<>>
    BY <1>1 DEF Ps2Inv, HandlerInv
  <2> QED BY <2>1 DEF Install
<1>4. Ps2Type'
  BY <1>1, <1>2 DEF Ps2Inv, Ps2Type
<1>5. FlagInv'
  BY <1>1, <1>2 DEF Ps2Inv, FlagInv
<1>6. HandlerInv'
  <2>1. ~early => (IsKeyboard <=> id1 = KeyboardId[1])
    BY <1>1 DEF Ps2Inv, IdInv
  <2>2. (IsKeyboard' <=> IsKeyboard) /\ KeyboardIrq' = KeyboardIrq
    BY <1>2 DEF IsKeyboard, KeyboardIrq
  <2> QED BY <1>1, <1>2, <1>3, <2>1, <2>2 DEF HandlerInv
<1>7. BufferInv'
  BY <1>1, <1>2 DEF Ps2Inv, BufferInv, Present
<1>8. IdInv'
  BY <1>1, <1>2 DEF Ps2Inv, IdInv, IsKeyboard, Present, KeyboardId
<1>9. ControllerInv'
  BY <1>1, <1>2 DEF Ps2Inv, ControllerInv
<1>10. DeviceInv' /\ DualInv'
  BY <1>1, <1>2 DEF Ps2Inv, DeviceInv, DualInv, Alone, SecondKnown, Present
<1> QED BY <1>4, <1>5, <1>6, <1>7, <1>8, <1>9, <1>10 DEF Ps2Inv

(* A key, after which no more is claimed if it is early; and the handler,  *)
(* which does not run before it has been installed.                        *)
LEMMA KeyHitInv ==
    ASSUME Ps2Inv, KeyHit PROVE Ps2Inv'
<1>1. UNCHANGED <<machine, phase, line, flag, got, id1, controller, saved, device1, awaits, dual, handler>>
  BY DEF KeyHit
<1>2. keys' \in Nat /\ early' \in BOOLEAN /\ (early' <=> early \/ line <= 31)
  <2>1. keys' = keys + 1 /\ early' = (early \/ line <= 31)
    BY ScriptAt DEF KeyHit
  <2>2. early' \in BOOLEAN /\ (early' <=> early \/ line <= 31)
    BY <2>1, Zenon
  <2> QED BY <2>1, <2>2 DEF Ps2Inv, Ps2Type
<1>3. out' \in Seq(Bytes)
  <2>1. out \in Seq(Bytes) /\ KeyBytes \in Seq(Bytes)
    BY KeysAssumption DEF Ps2Inv, Ps2Type, Bytes
  <2> QED BY <2>1 DEF KeyHit, Answer
<1>4. Ps2Type'
  BY <1>1, <1>2, <1>3 DEF Ps2Inv, Ps2Type
<1>5. FlagInv'
  BY <1>1, <1>2 DEF Ps2Inv, FlagInv
<1>6. HandlerInv'
  BY <1>1, <1>2 DEF Ps2Inv, HandlerInv, IsKeyboard, KeyboardIrq
<1>7. BufferInv'
  <2>1. line \in 1..44 /\ line' = line
    BY <1>1 DEF Ps2Inv, Ps2Type
  <2>2. ~early' => line' > 31
    BY <1>2, <2>1
  <2> QED BY <2>1, <2>2 DEF BufferInv
<1>8. IdInv'
  BY <1>1, <1>2 DEF Ps2Inv, IdInv, IsKeyboard, Present, KeyboardId
<1>9. ControllerInv'
  BY <1>1, <1>2 DEF Ps2Inv, ControllerInv
<1>10. DeviceInv' /\ DualInv'
  BY <1>1, <1>2 DEF Ps2Inv, DeviceInv, DualInv, Alone, SecondKnown, Present
<1> QED BY <1>4, <1>5, <1>6, <1>7, <1>8, <1>9, <1>10 DEF Ps2Inv

LEMMA KeyboardInterruptInv ==
    ASSUME Ps2Inv, KeyboardInterrupt PROVE Ps2Inv'
<1>1. UNCHANGED <<machine, phase, line, flag, got, id1, controller, saved, device1, awaits, dual, handler, keys, early>>
  BY DEF KeyboardInterrupt, Same
<1>2. out' \in Seq(Bytes)
  BY DEF Ps2Inv, Ps2Type, KeyboardInterrupt
<1>3. line \in 1..44 /\ ~Between(1, 43)
  BY DEF KeyboardInterrupt, Ps2Inv, FlagInv, HandlerInv, Ps2Type
<1>4. Ps2Type'
  BY <1>1, <1>2 DEF Ps2Inv, Ps2Type
<1>5. FlagInv'
  BY <1>1, <1>2, <1>3 DEF Ps2Inv, FlagInv
<1>6. HandlerInv'
  BY <1>1, <1>2, <1>3 DEF Ps2Inv, HandlerInv, IsKeyboard, KeyboardIrq
<1>7. BufferInv'
  BY <1>1, <1>2, <1>3 DEF Ps2Inv, BufferInv, Present
<1>8. IdInv'
  BY <1>1, <1>2, <1>3 DEF Ps2Inv, IdInv, IsKeyboard, Present, KeyboardId
<1>9. ControllerInv'
  BY <1>1, <1>2, <1>3 DEF Ps2Inv, ControllerInv
<1>10. DeviceInv' /\ DualInv'
  BY <1>1, <1>2, <1>3 DEF Ps2Inv, DeviceInv, DualInv, Alone, SecondKnown, Present
<1> QED BY <1>4, <1>5, <1>6, <1>7, <1>8, <1>9, <1>10 DEF Ps2Inv

(* What the device makes of a byte. *)
LEMMA Device1Is ==
    ASSUME NEW byte \in Bytes, Device1(byte), device1 \in [scanning : BOOLEAN, set : Bytes]
    PROVE  /\ ~Present => UNCHANGED <<out, device1, awaits>>
           /\ Present /\ awaits # 0 =>
                out' = out \o <<ACK>> /\ awaits' = 0 /\ device1' = [device1 EXCEPT !.set = byte]
           /\ Present /\ awaits = 0 =>
                /\ out' = out \o (CASE byte = 255 -> <<ACK, BatPassed>>
                                    [] byte = 242 -> <<ACK>> \o machine.first
                                    [] OTHER -> <<ACK>>)
                /\ awaits' = IF byte = 240 THEN 240 ELSE 0
                /\ device1' \in [scanning : BOOLEAN, set : Bytes]
                /\ byte = 244 => device1'.scanning
                /\ byte = 240 => device1' = device1
<1>1. ASSUME ~Present PROVE UNCHANGED <<out, device1, awaits>>
  BY <1>1 DEF Device1, Present
<1>2. ASSUME Present, awaits # 0
      PROVE  out' = out \o <<ACK>> /\ awaits' = 0 /\ device1' = [device1 EXCEPT !.set = byte]
  BY <1>2 DEF Device1, Present, Answer
<1>3. ASSUME Present, awaits = 0
      PROVE  /\ byte = 255 => Answer(<<ACK, BatPassed>>) /\ awaits' = awaits /\ device1' = [scanning |-> TRUE, set |-> 2]
             /\ byte = 242 => Answer(<<ACK>> \o machine.first) /\ awaits' = awaits /\ device1' = device1
             /\ byte = 240 => Answer(<<ACK>>) /\ awaits' = 240 /\ device1' = device1
             /\ byte \notin {255, 242, 240} =>
                  /\ Answer(<<ACK>>) /\ awaits' = awaits
                  /\ device1' = [device1 EXCEPT !.scanning = (byte = 244)]
  BY <1>3 DEF Device1, Present
<1>4. ASSUME NEW b \in BOOLEAN
      PROVE  /\ [device1 EXCEPT !.scanning = b] \in [scanning : BOOLEAN, set : Bytes]
             /\ [device1 EXCEPT !.scanning = b].scanning = b
  OBVIOUS
<1>5. [scanning |-> TRUE, set |-> 2] \in [scanning : BOOLEAN, set : Bytes]
  BY DEF Bytes
<1>6. ASSUME Present, awaits = 0
      PROVE  /\ out' = out \o (CASE byte = 255 -> <<ACK, BatPassed>>
                                    [] byte = 242 -> <<ACK>> \o machine.first
                                    [] OTHER -> <<ACK>>)
             /\ awaits' = IF byte = 240 THEN 240 ELSE 0
  <2>1. CASE byte = 255
    BY <1>3, <1>6, <2>1 DEF Answer
  <2>2. CASE byte = 242
    BY <1>3, <1>6, <2>2 DEF Answer
  <2>3. CASE byte \notin {255, 242}
    BY <1>3, <1>6, <2>3 DEF Answer
  <2> QED BY <2>1, <2>2, <2>3
<1>7. ASSUME Present, awaits = 0
      PROVE  /\ device1' \in [scanning : BOOLEAN, set : Bytes]
             /\ byte = 244 => device1'.scanning
             /\ byte = 240 => device1' = device1
  <2>1. PICK b \in BOOLEAN : b = (byte = 244)
    OBVIOUS
  <2>2. CASE byte \notin {255, 242, 240}
    <3>1. device1' = [device1 EXCEPT !.scanning = b]
      BY <1>3, <1>7, <2>1, <2>2
    <3> QED BY <1>4, <2>1, <2>2, <3>1
  <2>3. CASE byte \in {255, 242, 240}
    <3>1. device1' \in {[scanning |-> TRUE, set |-> 2], device1} /\ byte # 244 /\ (byte = 240 => device1' = device1)
      BY <1>3, <1>7, <2>3
    <3> QED BY <1>5, <3>1
  <2> QED BY <2>2, <2>3
<1> QED BY <1>1, <1>2, <1>6, <1>7

LEMMA SendInv ==
    ASSUME Ps2Inv, Send PROVE Ps2Inv'
<1>1. phase = "running" /\ phase' = "running" /\ line' = line + 1 /\ line \in {23, 26, 28, 33, 35, 36, 40}
  BY RunningAt DEF Ps2Inv, Ps2Type, Send, Running, Goto
<1>2. UNCHANGED <<machine, keys, early, flag, got, id1, controller, saved, dual, handler>>
  BY DEF Send, Same
<1>3. /\ machine.first \in Seq(Bytes) /\ out \in Seq(Bytes) /\ awaits \in Bytes
      /\ device1 \in [scanning : BOOLEAN, set : Bytes]
      /\ ACK \in Bytes /\ BatPassed \in Bytes
  BY DEF Ps2Inv, Ps2Type, Machines, Bytes, ACK, BatPassed
<1>4. CASE line = 40
  <2>1. PICK byte \in Bytes : byte = 255 /\ Device2(byte)
    <3>1. Script[line][2] # 1 /\ Script[line][3] = 255 /\ 255 \in Bytes
      BY <1>4, ScriptAfter DEF Bytes
    <3> QED BY <3>1 DEF Send
  <2>2. awaits = 0 /\ dual
    BY <1>1, <1>4 DEF Ps2Inv, DeviceInv, DualInv
  <2>3. \/ machine.dual /\ out' = out \o (<<ACK, BatPassed>> \o MouseId) /\ UNCHANGED <<device1, awaits>>
        \/ UNCHANGED <<out, device1, awaits>>
        \/ /\ ~machine.dual /\ out' = out \o <<ACK, BatPassed>>
           /\ awaits' = 0 /\ device1' \in [scanning : BOOLEAN, set : Bytes]
    <3>1. CASE machine.dual /\ Answer(<<ACK, BatPassed>> \o MouseId) /\ UNCHANGED <<device1, awaits>>
      BY <3>1 DEF Answer
    <3>2. CASE ~machine.dual /\ Device1(byte)
      <4>1. CASE ~Present
        BY <1>3, <3>2, <4>1, Device1Is
      <4>2. CASE Present
        <5>1. /\ out' = out \o (CASE byte = 255 -> <<ACK, BatPassed>>
                                    [] byte = 242 -> <<ACK>> \o machine.first
                                    [] OTHER -> <<ACK>>)
              /\ awaits' = IF byte = 240 THEN 240 ELSE 0
              /\ device1' \in [scanning : BOOLEAN, set : Bytes]
          BY <1>3, <2>2, <3>2, <4>2, Device1Is
        <5> QED BY <2>1, <3>2, <5>1
      <4> QED BY <4>1, <4>2
    <3> QED BY <2>1, <3>1, <3>2 DEF Device2
  <2>4. out' \in Seq(Bytes) /\ awaits' \in Bytes /\ awaits' = 0 /\ device1' \in [scanning : BOOLEAN, set : Bytes]
    <3>1. <<ACK, BatPassed>> \o MouseId \in Seq(Bytes) /\ <<ACK, BatPassed>> \in Seq(Bytes)
      BY <1>3 DEF MouseId, Bytes
    <3>2. \A answer \in Seq(Bytes) : out \o answer \in Seq(Bytes)
      BY <1>3
    <3>3. out' \in Seq(Bytes)
      BY <1>3, <2>3, <3>1, <3>2
    <3>4. awaits' = 0 /\ device1' \in [scanning : BOOLEAN, set : Bytes]
      BY <1>3, <2>2, <2>3
    <3>5. 0 \in Bytes
      BY DEF Bytes
    <3> QED BY <3>3, <3>4, <3>5
  <2>5. Ps2Type'
    BY <1>1, <1>2, <1>4, <2>4 DEF Ps2Inv, Ps2Type
  <2>6. FlagInv'
    BY <1>1, <1>2, <1>4 DEF Ps2Inv, FlagInv
  <2>7. HandlerInv'
    BY <1>1, <1>2, <1>4 DEF Ps2Inv, HandlerInv, IsKeyboard, KeyboardIrq
  <2>8. BufferInv'
    BY <1>1, <1>2, <1>4 DEF Ps2Inv, BufferInv, Present
  <2>9. IdInv'
    BY <1>1, <1>2, <1>4 DEF Ps2Inv, IdInv, IsKeyboard, Present, KeyboardId
  <2>10. ControllerInv'
    BY <1>1, <1>2, <1>4 DEF Ps2Inv, ControllerInv
  <2>11. DualInv'
    BY <1>1, <1>2, <1>4 DEF Ps2Inv, DualInv, Alone
  <2>12. DeviceInv'
    <3>1. (Present' <=> Present) /\ (SecondKnown' <=> SecondKnown) /\ line' = 41
      BY <1>1, <1>2, <1>4 DEF Present, SecondKnown
    <3>2. Present => device1 = [scanning |-> TRUE, set |-> 1]
      BY <1>1, <1>4 DEF Ps2Inv, DeviceInv
    <3>3. ~early => ~Alone
      BY <1>1, <1>4, <2>2 DEF Ps2Inv, DualInv
    <3>4. ~early /\ SecondKnown => machine.dual
      <4>1. machine.dual \in BOOLEAN
        BY DEF Ps2Inv, Ps2Type, Machines
      <4> QED BY <3>3, <4>1 DEF SecondKnown, Alone
    <3>5. machine.dual => device1' = device1
      BY <2>3
    <3> QED BY <1>1, <1>2, <2>4, <3>1, <3>2, <3>4, <3>5 DEF DeviceInv
  <2> QED BY <2>5, <2>6, <2>7, <2>8, <2>9, <2>10, <2>11, <2>12 DEF Ps2Inv
<1>5. CASE line # 40
  <2>1. PICK byte \in Bytes :
          /\ byte = Script[line][3] /\ Script[line][2] = 1
          /\ line = 23 <=> byte = 255
          /\ line = 26 <=> byte = 245
          /\ line = 28 <=> byte = 242
          /\ line = 33 <=> byte = 244
          /\ line = 35 <=> byte = 240
          /\ line = 36 <=> byte = 1
    <3>1. Script[line][3] \in {255, 245, 242, 244, 240, 1}
      BY <1>1, <1>5, ScriptAfter
    <3>2. Script[line][3] \in Bytes
      BY <3>1 DEF Bytes
    <3> QED BY <1>1, <1>5, <3>2, ScriptAfter
  <2>2. Device1(byte)
    BY <2>1 DEF Send
  <2>3. line < 36 => awaits = 0
    BY <1>1 DEF Ps2Inv, DeviceInv
  <2>4. line = 36 => awaits = IF Present THEN 240 ELSE 0
    BY <1>1 DEF Ps2Inv, DeviceInv
  <2>5. ~Present => UNCHANGED <<out, device1, awaits>>
    BY <1>3, <2>2, Device1Is
  <2>6. ASSUME Present, line = 36
        PROVE  out' = out \o <<ACK>> /\ awaits' = 0 /\ device1' = [device1 EXCEPT !.set = 1]
    <3>1. awaits # 0 /\ byte = 1
      BY <2>1, <2>4, <2>6
    <3> QED BY <1>3, <2>2, <2>6, <3>1, Device1Is
  <2>7. ASSUME Present, line < 36
        PROVE  /\ line = 23 => out' = out \o <<ACK, BatPassed>>
               /\ line = 28 => out' = out \o (<<ACK>> \o machine.first)
               /\ line \notin {23, 28} => out' = out \o <<ACK>>
               /\ awaits' = IF line = 35 THEN 240 ELSE 0
               /\ device1' \in [scanning : BOOLEAN, set : Bytes]
               /\ line = 33 => device1'.scanning
               /\ line = 35 => device1' = device1
    <3>0. awaits = 0 /\ Present /\ Device1(byte)
      BY <2>2, <2>3, <2>7
    <3>1. /\ out' = out \o (CASE byte = 255 -> <<ACK, BatPassed>>
                                 [] byte = 242 -> <<ACK>> \o machine.first
                                 [] OTHER -> <<ACK>>)
          /\ awaits' = IF byte = 240 THEN 240 ELSE 0
          /\ device1' \in [scanning : BOOLEAN, set : Bytes]
          /\ byte = 244 => device1'.scanning
          /\ byte = 240 => device1' = device1
      BY <1>3, <3>0, Device1Is
    <3>2. /\ byte = 255 => out' = out \o <<ACK, BatPassed>>
          /\ byte = 242 => out' = out \o (<<ACK>> \o machine.first)
          /\ byte \notin {255, 242} => out' = out \o <<ACK>>
      BY <3>1
    <3>3. /\ line = 23 => out' = out \o <<ACK, BatPassed>>
          /\ line = 28 => out' = out \o (<<ACK>> \o machine.first)
      BY <2>1, <3>2
    <3>4. line \notin {23, 28} => out' = out \o <<ACK>>
      BY <2>1, <3>2
    <3>5. awaits' = IF line = 35 THEN 240 ELSE 0
      BY <2>1, <3>1
    <3>6. (line = 33 => device1'.scanning) /\ (line = 35 => device1' = device1)
      BY <2>1, <3>1
    <3> QED BY <3>1, <3>3, <3>4, <3>5, <3>6
  <2>8. out' \in Seq(Bytes)
    <3>1. /\ <<ACK, BatPassed>> \in Seq(Bytes) /\ <<ACK>> \in Seq(Bytes)
          /\ <<ACK>> \o machine.first \in Seq(Bytes)
      BY <1>3
    <3>2. \A answer \in Seq(Bytes) : out \o answer \in Seq(Bytes)
      BY <1>3
    <3>3. CASE ~Present
      BY <1>3, <2>5, <3>3
    <3>4. CASE Present /\ line = 36
      BY <2>6, <3>1, <3>2, <3>4
    <3>5. CASE Present /\ line < 36
      BY <2>7, <3>1, <3>2, <3>5
    <3> QED BY <1>1, <1>5, <3>3, <3>4, <3>5
  <2>9. Ps2Type'
    <3>1. awaits' \in Bytes /\ device1' \in [scanning : BOOLEAN, set : Bytes]
      <4>1. CASE ~Present
        BY <1>3, <2>5, <4>1
      <4>2. CASE Present /\ line = 36
        BY <1>3, <2>6, <4>2 DEF Bytes
      <4>3. CASE Present /\ line < 36
        BY <1>3, <2>7, <4>3 DEF Bytes
      <4> QED BY <1>1, <1>5, <4>1, <4>2, <4>3
    <3> QED BY <1>1, <1>2, <2>8, <3>1 DEF Ps2Inv, Ps2Type
  <2>10. FlagInv'
    BY <1>1, <1>2, <1>5 DEF Ps2Inv, FlagInv
  <2>11. HandlerInv'
    BY <1>1, <1>2, <1>5 DEF Ps2Inv, HandlerInv, IsKeyboard, KeyboardIrq
  <2>12. BufferInv'
    <3>1. ~early /\ line \in {23, 26, 28} => out = <<>>
      BY <1>1 DEF Ps2Inv, BufferInv
    <3>2. ~early /\ ~Present /\ line \in {23, 26, 28} => out' = <<>>
      BY <2>5, <3>1
    <3>3. ~early /\ Present =>
            /\ line = 23 => out' = <<ACK, BatPassed>>
            /\ line = 26 => out' = <<ACK>>
            /\ line = 28 => out' = <<ACK>> \o machine.first
      <4>1. \A answer \in Seq(Bytes) : <<>> \o answer = answer
        OBVIOUS
      <4>2. /\ <<ACK, BatPassed>> \in Seq(Bytes) /\ <<ACK>> \in Seq(Bytes)
            /\ <<ACK>> \o machine.first \in Seq(Bytes)
        BY <1>3
      <4>3. ASSUME ~early, Present, line \in {23, 26, 28}
            PROVE  /\ line = 23 => out' = out \o <<ACK, BatPassed>>
                   /\ line = 26 => out' = out \o <<ACK>>
                   /\ line = 28 => out' = out \o (<<ACK>> \o machine.first)
        BY <2>7, <4>3
      <4> QED BY <3>1, <4>1, <4>2, <4>3
    <3>4. Present' <=> Present
      BY <1>2 DEF Present
    <3> QED BY <1>1, <1>2, <1>5, <3>2, <3>3, <3>4 DEF BufferInv
  <2>13. IdInv'
    BY <1>1, <1>2, <1>5 DEF Ps2Inv, IdInv, IsKeyboard, Present, KeyboardId
  <2>14. ControllerInv'
    BY <1>1, <1>2, <1>5 DEF Ps2Inv, ControllerInv
  <2>15. DeviceInv'
    <3>1. Present' <=> Present
      BY <1>2 DEF Present
    <3>2. line = 36 /\ Present => device1' = [scanning |-> TRUE, set |-> 1]
      BY <1>1, <1>3, <2>6 DEF Ps2Inv, DeviceInv
    <3>3. line = 35 /\ Present => device1'.scanning
      BY <1>1, <2>7 DEF Ps2Inv, DeviceInv
    <3>4. awaits' = IF line = 35 /\ Present THEN 240 ELSE 0
      BY <1>1, <1>5, <2>3, <2>4, <2>5, <2>6, <2>7
    <3> QED BY <1>1, <1>2, <1>5, <2>7, <3>1, <3>2, <3>3, <3>4 DEF DeviceInv
  <2>16. DualInv'
    BY <1>1, <1>2, <1>5 DEF Ps2Inv, DualInv, Alone
  <2> QED BY <2>9, <2>10, <2>11, <2>12, <2>13, <2>14, <2>15, <2>16 DEF Ps2Inv
<1> QED BY <1>4, <1>5

(* An answer is taken, or the wait for it is given up. *)
LEMMA ReadInv ==
    ASSUME Ps2Inv, Read PROVE Ps2Inv'
<1>1. /\ phase = "running" /\ phase' = "running" /\ line' = line + 1
      /\ line \in {13, 24, 25, 27, 29, 30, 32, 34, 37, 41, 42}
  BY RunningAt DEF Ps2Inv, Ps2Type, Read, Running, Goto
<1>2. UNCHANGED <<machine, keys, early, flag, id1, controller, saved, device1, awaits, dual, handler>>
  BY DEF Read, Same
<1>3. /\ out = <<>> => got' = got /\ out' = out
      /\ out # <<>> => got' = Head(out) /\ out' = Tail(out)
  BY DEF Read
<1>4. out \in Seq(Bytes) /\ got \in Bytes /\ machine.first \in Seq(Bytes)
  BY DEF Ps2Inv, Ps2Type, Machines, Bytes
<1>5. out' \in Seq(Bytes) /\ got' \in Bytes
  BY <1>3, <1>4
<1>6. Present' <=> Present
  BY <1>2 DEF Present
<1>7. ASSUME ~early, ~Present, line \in 24..31 PROVE got' = got /\ out' = <<>>
  <2>1. out = <<>>
    BY <1>1, <1>7 DEF Ps2Inv, BufferInv
  <2> QED BY <1>3, <2>1
<1>8. ASSUME ~early, line = 13 PROVE out' = <<>>
  <2>1. out = <<machine.passes>>
    BY <1>1, <1>8 DEF Ps2Inv, BufferInv
  <2> QED BY <1>3, <2>1
<1>9. ASSUME ~early, Present
      PROVE  /\ line = 24 => out' = <<BatPassed>>
             /\ line \in {25, 27} => out' = <<>>
  <2>1. /\ line = 24 => out = <<ACK, BatPassed>>
        /\ line = 25 => out = <<BatPassed>>
        /\ line = 27 => out = <<ACK>>
    BY <1>1, <1>9 DEF Ps2Inv, BufferInv
  <2>2. \A b : <<b>> # <<>> /\ Tail(<<b>>) = <<>>
    OBVIOUS
  <2>3. <<ACK, BatPassed>> # <<>> /\ Tail(<<ACK, BatPassed>>) = <<BatPassed>>
    OBVIOUS
  <2>4. CASE line = 24
    <3>1. out = <<ACK, BatPassed>>
      BY <2>1, <2>4
    <3> QED BY <1>3, <2>3, <2>4, <3>1
  <2>5. CASE line \in {25, 27}
    <3>1. out = <<BatPassed>> \/ out = <<ACK>>
      BY <2>1, <2>5
    <3>2. out # <<>> /\ Tail(out) = <<>>
      BY <2>2, <3>1
    <3> QED BY <1>3, <2>5, <3>2
  <2> QED BY <2>4, <2>5
<1>10. ASSUME ~early, Present, line = 29 PROVE out' = machine.first
  <2>1. out = <<ACK>> \o machine.first
    BY <1>1, <1>10 DEF Ps2Inv, BufferInv
  <2>2. out # <<>> /\ Tail(out) = machine.first
    BY <1>4, <2>1
  <2> QED BY <1>3, <2>2
<1>11. ASSUME ~early, line = 30 PROVE IsKeyboard <=> got' = KeyboardId[1]
  <2>1. CASE Present
    <3>1. out = machine.first
      BY <1>1, <1>11, <2>1 DEF Ps2Inv, BufferInv
    <3>2. got' = machine.first[1]
      BY <1>3, <1>4, <2>1, <3>1 DEF Present
    <3> QED BY <2>1, <3>2 DEF IsKeyboard, Present
  <2>2. CASE ~Present
    <3>1. got' = got /\ got # KeyboardId[1]
      BY <1>1, <1>7, <1>11, <2>2 DEF Ps2Inv, IdInv
    <3> QED BY <2>2, <3>1 DEF IsKeyboard, Present
  <2> QED BY <2>1, <2>2
<1>12. Ps2Type'
  BY <1>1, <1>2, <1>5 DEF Ps2Inv, Ps2Type
<1>13. FlagInv'
  BY <1>1, <1>2 DEF Ps2Inv, FlagInv
<1>14. HandlerInv'
  BY <1>1, <1>2 DEF Ps2Inv, HandlerInv, IsKeyboard, KeyboardIrq
<1>15. BufferInv'
  BY <1>1, <1>2, <1>6, <1>7, <1>8, <1>9, <1>10 DEF BufferInv
<1>16. IdInv'
  <2>1. IsKeyboard' <=> IsKeyboard
    BY <1>2 DEF IsKeyboard
  <2> QED BY <1>1, <1>2, <1>6, <1>7, <1>11, <2>1 DEF Ps2Inv, IdInv
<1>17. ControllerInv'
  BY <1>1, <1>2 DEF Ps2Inv, ControllerInv
<1>18. DeviceInv' /\ DualInv'
  BY <1>1, <1>2, <1>6 DEF Ps2Inv, DeviceInv, DualInv, Alone, SecondKnown
<1> QED BY <1>12, <1>13, <1>14, <1>15, <1>16, <1>17, <1>18 DEF Ps2Inv

LEMMA ScriptStepInv ==
    ASSUME Ps2Inv, ScriptStep PROVE Ps2Inv' /\ phase # "idle" /\ phase' # "idle"
<1>1. Ps2Inv'
  BY PlainInv, CommandInv, FlushInv, ReadConfigInv, ConfigInv, SendInv, ReadInv, KeepIdInv, InstallInv
     DEF ScriptStep
<1>2. phase # "idle" /\ phase' # "idle"
  <2>1. phase = "running"
    BY DEF ScriptStep, Cli, Check, Command, Flush, FlushThen, ReadConfig, WriteConfig, Quiet, SecondPort,
           Final, Send, Read, KeepId, Install, ResetSecond, Sti, Running
  <2> QED BY <2>1
           DEF ScriptStep, Cli, Check, Command, Flush, FlushThen, ReadConfig, WriteConfig, Quiet, SecondPort,
               Final, Send, Read, KeepId, Install, ResetSecond, Sti, Goto, NoDevice
<1> QED BY <1>1, <1>2

(* Before the probe, and after it. *)
LEMMA Ps2InitInv ==
    ASSUME NEW m \in Machines, Ps2Init(m) PROVE Ps2Inv /\ phase = "idle"
<1> USE DEF Ps2Init
<1>1. m.config \in Configs /\ m.left \in [scanning : BOOLEAN, set : 1..3]
  BY DEF Machines
<1>2. Ps2Type
  <2>1. 0 \in Bytes /\ 2 \in Bytes
    BY DEF Bytes
  <2>2. out \in Seq(Bytes)
    OBVIOUS
  <2>3. device1 \in [scanning : BOOLEAN, set : Bytes]
    BY <1>1 DEF Bytes
  <2>4. controller \in Configs /\ saved \in Configs
    BY <1>1
  <2>5. machine \in Machines /\ phase = "idle" /\ line \in 1..44 /\ keys \in Nat
    OBVIOUS
  <2>6. got \in Bytes /\ id1 \in Bytes /\ awaits \in Bytes
    BY <2>1
  <2>7. flag \in BOOLEAN /\ dual \in BOOLEAN /\ early \in BOOLEAN
    OBVIOUS
  <2> HIDE DEF Ps2Init
  <2> QED BY <2>2, <2>3, <2>4, <2>5, <2>6, <2>7 DEF Ps2Type
<1>3. FlagInv /\ HandlerInv /\ BufferInv
  BY DEF FlagInv, HandlerInv, BufferInv
<1>4. IdInv /\ ControllerInv /\ DeviceInv /\ DualInv
  BY DEF IdInv, ControllerInv, DeviceInv, DualInv, Alone
<1> QED BY <1>2, <1>3, <1>4 DEF Ps2Inv

LEMMA Ps2Found ==
    ASSUME Ps2Inv PROVE KeyboardFound
<1>1. phase \in {"done", "nodev"} => flag
  BY DEF Ps2Inv, FlagInv
<1>2. phase = "done" /\ ~early => handler = IF IsKeyboard THEN <<KeyboardIrq>> ELSE <<>>
  BY DEF Ps2Inv, HandlerInv
<1>3. ASSUME phase = "done", ~early, handler # <<>>
      PROVE  /\ controller.irq1 = 1 /\ controller.clock1 = 0 /\ controller.translation = 0
             /\ SecondKnown => device1 = [scanning |-> TRUE, set |-> 1]
  <2>1. Present
    BY <1>2, <1>3 DEF IsKeyboard, Present
  <2> QED BY <1>3, <2>1 DEF Ps2Inv, DeviceInv, ControllerInv
<1> QED BY <1>1, <1>2, <1>3 DEF KeyboardFound

HIDE DEF Between, Reached

----------------------------------------------------------------------------
(* The regions of a request, one behind the other. *)
RegionFor(k) ==
    [base |-> req.buffer + (k - 1) * RegionUnits,
     units |-> IF k < RegionCount(req.count) THEN RegionUnits
               ELSE (req.count - (k - 1) * PerRegion) * SectorUnits]

RegionEntries == [base : Int, units : Int]
Requests ==
    [start : Seq(Bytes), count : Nat, buffer : Int, i : Nat, left : Int, next : Int]

ReqInv ==
    req \in Requests /\ req.count <= Limit /\ RegionCount(req.count) <= MaxRegions
TableInv ==
    /\ regions \in [1..RegionCount(req.count) -> RegionEntries]
    /\ \A k \in 1..RegionCount(req.count) : k < req.i => regions[k] = RegionFor(k)
TurnInv ==
    /\ 1 <= req.i /\ req.i <= LastTurn + 1
    /\ ~Built => /\ req.next = req.buffer + (req.i - 1) * RegionUnits
                 /\ req.left = req.count - (req.i - 1) * PerRegion
FisInv ==
    Built => fis = [lba |-> SplitAddress(req.start), count |-> req.count % CountValues]
BuildInv == ReqInv /\ TableInv /\ TurnInv /\ FisInv

(* Arithmetic of the sizes. *)
LEMMA Division ==
    ASSUME NEW a \in Nat, NEW n \in Nat \ {0}
    PROVE  /\ a \div n \in Nat /\ a % n \in 0..n - 1
           /\ a = n * (a \div n) + (a % n)
           /\ (a \div n) * n <= a /\ a < (a \div n + 1) * n
<1>1. PICK q \in Nat, r \in 0..n - 1 : q = a \div n /\ r = a % n
  OBVIOUS
<1>2. a = n * q + r
  BY <1>1
<1>3. q * n = n * q /\ (q + 1) * n = n * q + n
  BY <1>1
<1>4. (a \div n) * n = q * n /\ (a \div n + 1) * n = (q + 1) * n
  BY <1>1
<1> QED BY <1>1, <1>2, <1>3, <1>4

LEMMA Sizes ==
    /\ SectorUnits \in Nat \ {0} /\ RegionUnits \in Nat \ {0} /\ MaxRegions \in Nat \ {0}
    /\ PerRegion \in Nat \ {0}
    /\ RegionUnits = PerRegion * SectorUnits
    /\ CountValues \in Nat \ {0} /\ SizeValues \in Nat \ {0}
    /\ MaxRegions * PerRegion < CountValues
<1>1. PICK s \in Nat \ {0}, u \in Nat \ {0} : s = SectorUnits /\ u = RegionUnits
  BY SizesAssumption
<1>2. PICK p \in Nat : p = u \div s
  BY Division
<1>3. p = PerRegion
  BY <1>1, <1>2 DEF PerRegion
<1>4. u = p * s
  BY <1>1, <1>3, SizesAssumption
<1>5. p # 0
  BY <1>4
<1> QED BY <1>1, <1>3, <1>5, SizesAssumption

LEMMA Monotone ==
    ASSUME NEW a \in Nat, NEW b \in Nat, NEW c \in Nat, a <= b
    PROVE  a * c <= b * c /\ a * c \in Nat /\ b * c \in Nat
  OBVIOUS

LEMMA CountBounds ==
    ASSUME NEW p \in Nat \ {0}, p = PerRegion, NEW count \in Nat, count # 0, count <= Limit
    PROVE  \E n \in Nat \ {0} : n = RegionCount(count) /\ (n - 1) * p < count /\ count <= n * p
<1>0. count - 1 \in Nat
  OBVIOUS
<1>1. PICK q \in Nat : q = (count - 1) \div p
  BY <1>0, Division
<1>2. q * p <= count - 1 /\ count - 1 < (q + 1) * p
  BY <1>0, <1>1, Division
<1>3. PICK c \in Nat \ {0} : c = CountValues
  BY Sizes
<1>4. q < c - 1
  <2>1. SUFFICES ASSUME q >= c - 1 PROVE FALSE
    OBVIOUS
  <2>2. (c - 1) * p <= q * p
    BY <2>1
  <2>3. count <= (c - 1) * p
    BY <1>3 DEF Limit
  <2> QED BY <2>2, <2>3, <1>2
<1>5. q + 1 \in Nat \ {0} /\ q + 1 - 1 = q /\ (q + 1) % c = q + 1
  BY <1>4
<1>6. RegionCount(count) = q + 1
  BY <1>1, <1>3, <1>5 DEF RegionCount
<1>7. q * p < count /\ count <= (q + 1) * p
  <2>1. q * p \in Int /\ (q + 1) * p \in Int
    OBVIOUS
  <2> QED BY <2>1, <1>2
<1> QED BY <1>5, <1>6, <1>7

(* A short request's count needs no more than the 16 bits of the command. *)
LEMMA CountSmall ==
    ASSUME NEW p \in Nat \ {0}, p = PerRegion, NEW count \in Nat, count <= Limit,
           RegionCount(count) <= MaxRegions
    PROVE  count < CountValues
<1>0. PICK c \in Nat \ {0} : c = CountValues
  BY Sizes
<1>1. CASE count = 0
  BY <1>0, <1>1
<1>2. CASE count # 0
  <2>1. PICK n \in Nat \ {0} : n = RegionCount(count) /\ count <= n * p
    BY <1>2, CountBounds
  <2>2. PICK k \in Nat : k = MaxRegions
    BY Sizes
  <2>3. n <= k /\ k * p < c
    BY <1>0, <2>1, <2>2, Sizes
  <2>4. n * p <= k * p
    BY <2>3
  <2> QED BY <1>0, <2>1, <2>3, <2>4
<1> QED BY <1>1, <1>2

(* For what a request is told apart by: its p, s and n. *)
LEMMA RegionsOf ==
    ASSUME NEW p \in Nat \ {0}, p = PerRegion, NEW count \in Nat, count <= Limit
    PROVE  RegionCount(count) \in Nat /\ (RegionCount(count) = 0 <=> count = 0)
<1>1. CASE count = 0
  BY <1>1 DEF RegionCount
<1>2. CASE count # 0
  BY <1>2, CountBounds
<1> QED BY <1>1, <1>2

LEMMA TurnFacts ==
    ASSUME ReqInv, TableInv
    PROVE  \E n \in Nat : /\ n = RegionCount(req.count) /\ n = Len(regions)
                          /\ (regions = <<>> <=> n = 0)
                          /\ LastTurn = IF n = 0 THEN 1 ELSE n
<1>1. req.count \in Nat
  BY DEF ReqInv, Requests
<1>2. PICK n \in Nat : n = RegionCount(req.count)
  BY <1>1, Sizes, RegionsOf DEF ReqInv
<1>3. Len(regions) = n /\ (regions = <<>> <=> n = 0)
  BY <1>2 DEF TableInv
<1> QED BY <1>2, <1>3 DEF LastTurn

LEMMA FirstTurn ==
    ASSUME NEW t \in Nat, t >= 1 PROVE 1 <= 1 /\ 1 <= t + 1 /\ ~(1 > t)
  OBVIOUS

(* A request of few enough sectors begins its table. *)
LEMMA BeginBuilds ==
    ASSUME NEW start \in Seq(Bytes), NEW count \in Nat, NEW buffer \in Int,
           count <= Limit, RegionCount(count) <= MaxRegions,
           ReadBegin(start, count, buffer)
    PROVE  BuildInv' /\ req'.start = start /\ req'.count = count /\ req'.buffer = buffer
<1>1. /\ req' = [start |-> start, count |-> count, buffer |-> buffer, i |-> 1, left |-> count, next |-> buffer]
      /\ regions' = [i \in 1..RegionCount(count) |-> [base |-> 0, units |-> 0]]
  BY DEF ReadBegin
<1>2. PICK n \in Nat : n = RegionCount(count)
  BY Sizes, RegionsOf
<1>3. /\ req' \in Requests /\ req'.start = start /\ req'.count = count /\ req'.buffer = buffer
      /\ req'.i = 1 /\ req'.left = count /\ req'.next = buffer
  BY <1>1 DEF Requests
<1>4. regions' \in [1..n -> RegionEntries]
  BY <1>1, <1>2 DEF RegionEntries
<1>5. LastTurn' \in Nat \ {0}
  <2>1. Len(regions') = n /\ (regions' = <<>> <=> n = 0)
    BY <1>4
  <2> QED BY <2>1 DEF LastTurn
<1>6. ReqInv'
  BY <1>3 DEF ReqInv
<1>7. TableInv'
  BY <1>2, <1>3, <1>4 DEF TableInv
<1>8. ~Built' /\ 1 <= req'.i /\ req'.i <= LastTurn' + 1
  <2>1. PICK t \in Nat : t = LastTurn' /\ t >= 1
    BY <1>5
  <2>2. req'.i = 1
    BY <1>3
  <2>3. ~(1 > t)
    BY <2>1, FirstTurn
  <2>4. ~Built'
    BY <2>1, <2>2, <2>3 DEF Built
  <2>5. 1 <= 1 /\ 1 <= t + 1
    BY <2>1, FirstTurn
  <2>6. 1 <= req'.i /\ req'.i <= LastTurn' + 1
    BY Zenon, <2>1, <2>2, <2>5
  <2> QED BY <2>4, <2>6
<1>9. TurnInv'
  BY <1>3, <1>8, Sizes DEF TurnInv
<1>10. FisInv'
  BY <1>8 DEF FisInv
<1> QED BY <1>3, <1>6, <1>7, <1>9, <1>10 DEF BuildInv

LEMMA FillRegionBuilds ==
    ASSUME BuildInv, FillRegion
    PROVE  BuildInv' /\ req'.start = req.start /\ req'.count = req.count /\ req'.buffer = req.buffer
<1> USE DEF BuildInv
<1>1. PICK n \in Nat : /\ n = RegionCount(req.count) /\ n = Len(regions)
                        /\ LastTurn = IF n = 0 THEN 1 ELSE n
  BY TurnFacts
<1>2. PICK i \in Nat : i = req.i /\ i < n /\ 0 < i
  BY <1>1 DEF FillRegion, ReqInv, Requests, TurnInv
<1> HIDE DEF BuildInv
<1>3. PICK p \in Nat, u \in Nat : p = PerRegion /\ u = RegionUnits
  BY Sizes
<1>4. req.next \in Int /\ req.left \in Int /\ req.buffer \in Int /\ req.count \in Nat /\ req.start \in Seq(Bytes)
  BY DEF BuildInv, ReqInv, Requests
<1>5. req.next = req.buffer + (i - 1) * u /\ req.left = req.count - (i - 1) * p
  BY <1>1, <1>2, <1>3 DEF BuildInv, TurnInv, Built
<1>6. req' = [start |-> req.start, count |-> req.count, buffer |-> req.buffer,
              i |-> i + 1, left |-> req.left - p, next |-> req.next + u]
  BY <1>2, <1>3 DEF FillRegion, BuildInv, ReqInv, Requests
<1>7. /\ req' \in Requests /\ req'.start = req.start /\ req'.count = req.count /\ req'.buffer = req.buffer
      /\ req'.i = i + 1 /\ req'.left = req.left - p /\ req'.next = req.next + u
  BY <1>4, <1>6 DEF Requests
<1>8. /\ regions \in [1..n -> RegionEntries]
      /\ regions' = [regions EXCEPT ![i] = [base |-> req.next, units |-> u]]
  BY <1>1, <1>2, <1>3 DEF FillRegion, BuildInv, TableInv
<1>9. regions' \in [1..n -> RegionEntries]
  <2>1. [base |-> req.next, units |-> u] \in RegionEntries
    BY <1>4 DEF RegionEntries
  <2> QED BY <1>8, <2>1
<1>10. Len(regions') = n /\ (regions' = <<>> <=> n = 0) /\ LastTurn' = n
  BY <1>2, <1>9 DEF LastTurn
<1>11. PICK a \in Int, b \in Int : a = (i - 1) * u /\ b = (i - 1) * p
  OBVIOUS
<1>12. (i + 1 - 1) * u = a + u /\ (i + 1 - 1) * p = b + p
  BY <1>11
<1>13. req'.next = req'.buffer + (req'.i - 1) * u /\ req'.left = req'.count - (req'.i - 1) * p
  <2>1. req.next = req.buffer + a /\ req.left = req.count - b
    BY <1>5, <1>11
  <2>2. req'.next = req.buffer + (a + u) /\ req'.left = req.count - (b + p)
    <3>1. req'.next = req.next + u /\ req'.left = req.left - p
      BY <1>7
    <3>2. req.next + u = req.buffer + (a + u)
      BY <1>4, <2>1
    <3>3. req.left - p = req.count - (b + p)
      BY <1>4, <2>1
    <3> QED BY <3>1, <3>2, <3>3
  <2> QED BY <1>7, <1>12, <2>2
<1>14. ReqInv'
  BY <1>7 DEF BuildInv, ReqInv
<1>15. ~Built' /\ 1 <= req'.i /\ req'.i <= LastTurn' + 1
  BY <1>2, <1>7, <1>10 DEF Built
<1>16. TurnInv'
  BY <1>3, <1>13, <1>15 DEF TurnInv
<1>17. ASSUME NEW k \in 1..n, k < i + 1 PROVE regions'[k] = RegionFor(k)'
  <2>1. RegionFor(k)' = RegionFor(k)
    BY <1>7 DEF RegionFor
  <2>2. CASE k = i
    <3>1. regions'[k] = [base |-> req.next, units |-> u]
      BY <2>2, <1>8
    <3>2. RegionFor(k) = [base |-> req.buffer + (i - 1) * u, units |-> u]
      BY <2>2, <1>1, <1>2, <1>3 DEF RegionFor
    <3> QED BY <2>1, <3>1, <3>2, <1>5
  <2>3. CASE k # i
    <3>1. k < i /\ regions'[k] = regions[k]
      BY <2>3, <1>8, <1>17
    <3>2. regions[k] = RegionFor(k)
      BY <3>1, <1>1, <1>2 DEF BuildInv, TableInv
    <3> QED BY <2>1, <3>1, <3>2
  <2> QED BY <2>2, <2>3
<1>18. TableInv'
  BY <1>1, <1>7, <1>9, <1>17 DEF TableInv
<1>19. FisInv'
  BY <1>15 DEF FisInv
<1> QED BY <1>7, <1>14, <1>16, <1>18, <1>19 DEF BuildInv

(* The last turn writes the rest of the sectors and the command. *)
LEMMA LastRegionBuilds ==
    ASSUME BuildInv, LastRegion
    PROVE  BuildInv' /\ req'.start = req.start /\ req'.count = req.count /\ req'.buffer = req.buffer
<1> USE DEF BuildInv
<1>1. PICK n \in Nat : /\ n = RegionCount(req.count) /\ n = Len(regions)
                        /\ (regions = <<>> <=> n = 0)
                        /\ LastTurn = IF n = 0 THEN 1 ELSE n
  BY TurnFacts
<1>2. PICK i \in Nat : i = req.i /\ i = LastTurn /\ 0 < i
  BY <1>1 DEF LastRegion, ReqInv, Requests
<1> HIDE DEF BuildInv
<1>3. PICK p \in Nat, u \in Nat, s \in Nat : p = PerRegion /\ u = RegionUnits /\ s = SectorUnits
  BY Sizes
<1>4. req.next \in Int /\ req.left \in Int /\ req.buffer \in Int /\ req.count \in Nat /\ req.start \in Seq(Bytes)
  BY DEF BuildInv, ReqInv, Requests
<1>5. req.next = req.buffer + (i - 1) * u /\ req.left = req.count - (i - 1) * p
  BY <1>1, <1>2, <1>3 DEF BuildInv, TurnInv, Built
<1>6. req' = [start |-> req.start, count |-> req.count, buffer |-> req.buffer,
              i |-> i + 1, left |-> req.left, next |-> req.next]
  BY <1>2 DEF LastRegion, BuildInv, ReqInv, Requests
<1>7. /\ req' \in Requests /\ req'.start = req.start /\ req'.count = req.count /\ req'.buffer = req.buffer
      /\ req'.i = i + 1
  BY <1>4, <1>6 DEF Requests
<1>8. regions \in [1..n -> RegionEntries]
  BY <1>1 DEF BuildInv, TableInv
<1>9. /\ n = 0 => regions' = regions
      /\ n # 0 => i = n /\ regions' = [regions EXCEPT ![n] = [base |-> req.next, units |-> req.left * s]]
  BY <1>1, <1>2, <1>3 DEF LastRegion
<1>10. regions' \in [1..n -> RegionEntries]
  <2>1. [base |-> req.next, units |-> req.left * s] \in RegionEntries
    BY <1>4 DEF RegionEntries
  <2> QED BY <1>8, <1>9, <2>1
<1>11. LastTurn' = LastTurn
  <2>1. Len(regions') = n /\ (regions' = <<>> <=> n = 0)
    BY <1>10
  <2> QED BY <1>1, <2>1 DEF LastTurn
<1>12. ReqInv'
  BY <1>7 DEF BuildInv, ReqInv
<1>13. Built' /\ 1 <= req'.i /\ req'.i <= LastTurn' + 1
  BY <1>2, <1>7, <1>11 DEF Built
<1>14. TurnInv'
  BY <1>13 DEF TurnInv
<1>15. ASSUME NEW k \in 1..n PROVE regions'[k] = RegionFor(k)'
  <2>1. RegionFor(k)' = RegionFor(k)
    BY <1>7 DEF RegionFor
  <2>2. n # 0 /\ i = n
    BY <1>9
  <2>3. CASE k = n
    <3>1. regions'[k] = [base |-> req.next, units |-> req.left * s]
      BY <2>2, <2>3, <1>8, <1>9
    <3>2. RegionFor(k) = [base |-> req.buffer + (i - 1) * u, units |-> (req.count - (i - 1) * p) * s]
      BY <2>2, <2>3, <1>1, <1>3 DEF RegionFor
    <3> QED BY <2>1, <3>1, <3>2, <1>5
  <2>4. CASE k # n
    <3>1. k < i /\ regions'[k] = regions[k]
      BY <2>2, <2>4, <1>8, <1>9
    <3>2. regions[k] = RegionFor(k)
      BY <3>1, <1>1, <1>2 DEF BuildInv, TableInv
    <3> QED BY <2>1, <3>1, <3>2
  <2> QED BY <2>3, <2>4
<1>16. TableInv'
  BY <1>1, <1>7, <1>10, <1>15 DEF TableInv
<1>17. FisInv'
  <2>1. fis' = [lba |-> SplitAddress(req.start), count |-> req.count % CountValues]
    BY DEF LastRegion
  <2> QED BY <2>1, <1>7 DEF FisInv
<1> QED BY <1>7, <1>12, <1>14, <1>16, <1>17 DEF BuildInv

----------------------------------------------------------------------------
(* Where the drive puts what it reads. *)

Less == OpToRel(<, Nat)
LEMMA Least ==
    ASSUME NEW S, S \subseteq Nat, S # {}
    PROVE  \E m \in S : \A n \in S : m <= n
<1>1. PICK m \in S : \A n \in S : ~ <<n, m>> \in Less
  BY NatLessThanWellFounded, WFMin DEF Less
<1>2. \A n \in S : ~ (n < m)
  BY <1>1 DEF Less, OpToRel
<1> QED BY <1>1, <1>2

Run(from, n) == [u \in 1..n |-> from + u - 1]

LEMMA RunsJoin ==
    ASSUME NEW from \in Int, NEW a \in Nat, NEW b \in Nat
    PROVE  Run(from, a) \o Run(from + a, b) = Run(from, a + b)
<1>1. Run(from, a) \in Seq(Int) /\ Len(Run(from, a)) = a
  BY DEF Run
<1>2. Run(from + a, b) \in Seq(Int) /\ Len(Run(from + a, b)) = b
  BY DEF Run
<1>3. Run(from, a + b) \in Seq(Int) /\ Len(Run(from, a + b)) = a + b
  BY DEF Run
<1>4. ASSUME NEW u \in 1..a + b PROVE (Run(from, a) \o Run(from + a, b))[u] = Run(from, a + b)[u]
  BY <1>1, <1>2, <1>4 DEF Run
<1>5. Run(from, a) \o Run(from + a, b) \in Seq(Int)
  BY <1>1, <1>2
<1>6. Len(Run(from, a) \o Run(from + a, b)) = a + b
  BY <1>1, <1>2
<1> HIDE DEF Run
<1> QED BY <1>3, <1>4, <1>5, <1>6, SeqEqual

(* The function PlacesUpTo is, whatever its argument's bound. *)
PlacesOf(f, n) ==
    f = [i \in 0..n |-> IF i = 0 THEN <<>>
                       ELSE f[i - 1] \o [u \in 1..regions[i].units |-> regions[i].base + u - 1]]

LEMMA PlacesExact ==
    ASSUME BuildInv, Built
    PROVE  Places = Run(req.buffer, req.count * SectorUnits)
<1>1. PICK n \in Nat : /\ n = RegionCount(req.count) /\ n = Len(regions)
                        /\ LastTurn = IF n = 0 THEN 1 ELSE n
  BY TurnFacts DEF BuildInv
<1>2. PICK p \in Nat \ {0}, s \in Nat \ {0}, r \in Nat \ {0} :
        p = PerRegion /\ s = SectorUnits /\ r = RegionUnits /\ r = p * s
  BY Sizes
<1>3. PICK count \in Nat, buffer \in Int : count = req.count /\ buffer = req.buffer
  BY DEF BuildInv, ReqInv, Requests
<1> DEFINE upto(i) == IF i < n THEN i * r ELSE count * s
           g == [i \in 0..n |-> Run(buffer, upto(i))]
<1>4. n # 0 => (n - 1) * p < count
  <2>1. count <= Limit
    BY <1>3 DEF BuildInv, ReqInv
  <2>2. CASE count = 0
    BY <2>2, <1>1, <1>3 DEF RegionCount
  <2>3. CASE count # 0
    <3>1. PICK k \in Nat \ {0} : k = RegionCount(count) /\ (k - 1) * p < count
      BY <2>1, <2>3, <1>2, CountBounds
    <3> QED BY Zenon, <3>1, <1>1, <1>3
  <2> QED BY <2>2, <2>3
<1>5. n = 0 <=> count = 0
  BY <1>1, <1>2, <1>3, RegionsOf DEF BuildInv, ReqInv
<1>6. \A i \in 1..n : /\ regions[i].base = buffer + (i - 1) * r
                       /\ regions[i].units = IF i < n THEN r ELSE (count - (i - 1) * p) * s
  <2>1. \A i \in 1..n : i < req.i
    BY <1>1 DEF Built, BuildInv, ReqInv, Requests
  <2>2. \A i \in 1..n : regions[i] = RegionFor(i)
    BY <2>1, <1>1 DEF BuildInv, TableInv
  <2>3. \A i \in 1..n :
          regions[i] = [base |-> buffer + (i - 1) * r, units |-> IF i < n THEN r ELSE (count - (i - 1) * p) * s]
    BY <2>2, <1>1, <1>2, <1>3 DEF RegionFor
  <2>4. ASSUME NEW i \in 1..n
        PROVE  /\ regions[i].base = buffer + (i - 1) * r
               /\ regions[i].units = IF i < n THEN r ELSE (count - (i - 1) * p) * s
    <3>1. PICK b, w : b = buffer + (i - 1) * r /\ w = IF i < n THEN r ELSE (count - (i - 1) * p) * s
      OBVIOUS
    <3>2. regions[i] = [base |-> b, units |-> w]
      BY <2>3, <3>1
    <3>3. regions[i].base = b /\ regions[i].units = w
      BY <3>2
    <3> QED BY <3>1, <3>3
  <2> QED BY <2>4
<1>7. ASSUME NEW i \in 1..n
      PROVE  /\ upto(i - 1) \in Nat /\ regions[i].units \in Nat
             /\ regions[i].base = buffer + upto(i - 1)
             /\ upto(i) = upto(i - 1) + regions[i].units
  <2>1. i - 1 < n /\ upto(i - 1) = (i - 1) * r /\ (i - 1) * r \in Nat
    BY <1>2
  <2>2. regions[i].base = buffer + (i - 1) * r
    BY <1>6
  <2>3. CASE i < n
    <3>1. regions[i].units = r /\ upto(i) = i * r
      BY <2>3, <1>6
    <3>2. i * r = (i - 1) * r + r
      BY <1>2
    <3> QED BY <2>1, <2>2, <3>1, <3>2, <1>2
  <2>4. CASE i = n
    <3>1. regions[i].units = (count - (n - 1) * p) * s /\ upto(i) = count * s
      BY <2>4, <1>6
    <3>2. PICK q \in Nat : q = (n - 1) * p /\ q < count
      BY <2>4, <1>2, <1>4
    <3>3. (n - 1) * r = q * s
      BY <3>2, <1>2
    <3>4. (count - q) * s = count * s - q * s /\ (count - q) * s \in Nat
      BY <3>2, <1>2
    <3>5. q * s \in Nat /\ count * s \in Nat
      OBVIOUS
    <3> QED BY <2>1, <2>2, <2>4, <3>1, <3>2, <3>3, <3>4, <3>5
  <2> QED BY <2>3, <2>4
<1>8. upto(0) = 0 /\ upto(n) = count * s
  BY <1>2, <1>5
<1> HIDE DEF upto
<1>9. ASSUME NEW i \in 1..n
      PROVE  Run(buffer, upto(i)) =
               Run(buffer, upto(i - 1)) \o [u \in 1..regions[i].units |-> regions[i].base + u - 1]
  <2>1. [u \in 1..regions[i].units |-> regions[i].base + u - 1] = Run(buffer + upto(i - 1), regions[i].units)
    BY <1>7 DEF Run
  <2>2. PICK a \in Nat, b \in Nat : a = upto(i - 1) /\ b = regions[i].units /\ upto(i) = a + b
    BY <1>7
  <2>3. Run(buffer, a) \o Run(buffer + a, b) = Run(buffer, a + b)
    BY RunsJoin
  <2> QED BY <2>1, <2>2, <2>3
<1>10. Run(buffer, upto(0)) = <<>>
  BY <1>8 DEF Run
<1>11. PlacesOf(g, n)
  <2>1. ASSUME NEW i \in 0..n
        PROVE  Run(buffer, upto(i)) =
                 IF i = 0 THEN <<>> ELSE g[i - 1] \o [u \in 1..regions[i].units |-> regions[i].base + u - 1]
    <3>1. CASE i = 0
      BY <3>1, <1>10
    <3>2. CASE i # 0
      <4>1. i \in 1..n /\ i - 1 \in 0..n
        BY <3>2
      <4>2. g[i - 1] = Run(buffer, upto(i - 1))
        BY <4>1
      <4> QED BY <3>2, <4>1, <4>2, <1>9
    <3> QED BY <3>1, <3>2
  <2> QED BY <2>1 DEF PlacesOf
<1>12. PlacesUpTo = CHOOSE f : PlacesOf(f, n)
  BY <1>1 DEF PlacesUpTo, PlacesOf
<1>13. PlacesOf(PlacesUpTo, n)
  BY <1>11, <1>12
<1>14. ASSUME NEW m \in 0..n PROVE PlacesUpTo[m] = Run(buffer, upto(m))
  <2> DEFINE S == {i \in 0..n : PlacesUpTo[i] # Run(buffer, upto(i))}
  <2>1. SUFFICES S = {}
    OBVIOUS
  <2>2. SUFFICES ASSUME S # {} PROVE FALSE
    OBVIOUS
  <2>3. PICK i \in S : \A j \in S : i <= j
    <3>1. S \subseteq Nat
      OBVIOUS
    <3> HIDE DEF S
    <3> QED BY <2>2, <3>1, Least
  <2>4. i # 0
    BY <2>3, <1>10, <1>13 DEF PlacesOf
  <2>5. i \in 1..n /\ i - 1 \in 0..n /\ i - 1 \notin S
    BY <2>3, <2>4
  <2>6. PlacesUpTo[i - 1] = Run(buffer, upto(i - 1))
    BY <2>5
  <2>7. PlacesUpTo[i] = PlacesUpTo[i - 1] \o [u \in 1..regions[i].units |-> regions[i].base + u - 1]
    <3> DEFINE h(k) == IF k = 0 THEN <<>>
                       ELSE PlacesUpTo[k - 1] \o [u \in 1..regions[k].units |-> regions[k].base + u - 1]
    <3>1. PlacesUpTo = [k \in 0..n |-> h(k)]
      BY Zenon, <1>13 DEF PlacesOf
    <3>2. i \in 0..n
      BY <2>5
    <3> HIDE DEF h
    <3>3. PlacesUpTo[i] = h(i)
      BY <3>1, <3>2
    <3> QED BY <3>3, <2>4 DEF h
  <2> QED BY <2>3, <2>5, <2>6, <2>7, <1>9
<1> QED BY <1>1, <1>2, <1>3, <1>8, <1>14 DEF Places

(* When the table is built the drive is told what has been asked for; with *)
(* no sectors, more than that.                                             *)
LEMMA TransferIsExact ==
    ASSUME BuildInv, Built
    PROVE  /\ Places = Run(req.buffer, req.count * SectorUnits)
           /\ Len(regions) <= MaxRegions
           /\ \A i \in DOMAIN regions : regions[i].units \in 1..RegionUnits
           /\ fis.lba = SplitAddress(req.start) /\ fis.count = req.count
<1>1. PICK n \in Nat : /\ n = RegionCount(req.count) /\ n = Len(regions)
                        /\ LastTurn = IF n = 0 THEN 1 ELSE n
  BY TurnFacts DEF BuildInv
<1>2. PICK p \in Nat \ {0}, s \in Nat \ {0}, r \in Nat \ {0} :
        p = PerRegion /\ s = SectorUnits /\ r = RegionUnits /\ r = p * s
  BY Sizes
<1>3. PICK count \in Nat : count = req.count
  BY DEF BuildInv, ReqInv, Requests
<1>4. count <= Limit /\ n <= MaxRegions
  BY <1>1, <1>3 DEF BuildInv, ReqInv
<1>5. PICK c \in Nat \ {0} : c = CountValues /\ count < c
  <2>1. RegionCount(count) <= MaxRegions
    BY Zenon, <1>1, <1>3, <1>4
  <2> QED BY <2>1, <1>2, <1>4, CountSmall, Sizes
<1>6. fis.lba = SplitAddress(req.start) /\ fis.count = count % c
  BY <1>3, <1>5 DEF BuildInv, FisInv
<1>7. fis.count = count
  BY <1>5, <1>6
<1>8. ASSUME NEW i \in 1..n PROVE regions[i].units \in 1..r
  <2>1. count # 0
    BY <1>1, <1>3, <1>8 DEF RegionCount
  <2>2. PICK m \in Nat \ {0} : m = RegionCount(count) /\ (m - 1) * p < count /\ count <= m * p
    BY <2>1, <1>2, <1>4, CountBounds
  <2>3. m = n
    BY <2>2, <1>1, <1>3
  <2>4. i < req.i
    BY <1>1, <1>8 DEF Built, BuildInv, ReqInv, Requests
  <2>5. regions[i] = RegionFor(i)
    BY <2>4, <1>1 DEF BuildInv, TableInv
  <2>6. PICK w : w = IF i < n THEN r ELSE (count - (i - 1) * p) * s
    OBVIOUS
  <2>7. regions[i].units = w
    BY <2>5, <2>6, <1>1, <1>2, <1>3 DEF RegionFor
  <2>8. CASE i < n
    BY <2>6, <2>7, <2>8, <1>2
  <2>9. CASE i = n
    <3>1. PICK q \in Nat : q = (n - 1) * p
      BY <2>3
    <3>2. q < count /\ n * p = q + p /\ count <= q + p
      BY <2>2, <2>3, <3>1
    <3>3. PICK k \in Nat \ {0} : k = count - q /\ k <= p
      BY <3>2
    <3>4. w = k * s
      BY <2>6, <2>9, <3>1, <3>3
    <3>5. k * s \in Nat /\ 1 <= k * s /\ k * s <= p * s
      BY <3>3
    <3> QED BY <2>7, <3>4, <3>5, <1>2
  <2> QED BY <2>8, <2>9
<1>9. DOMAIN regions = 1..n
  BY <1>1 DEF BuildInv, TableInv
<1> QED BY PlacesExact, <1>1, <1>2, <1>3, <1>4, <1>6, <1>7, <1>8, <1>9

(* What is in memory when it has done so. *)
LEMMA TransferredIs ==
    ASSUME BuildInv, Built, DOMAIN memory = Memory
    PROVE  /\ Told \in Nat /\ Told >= req.count * SectorUnits
           /\ req.count # 0 => Told = req.count * SectorUnits
           /\ DOMAIN Transferred = Memory
           /\ \A a \in Memory :
                Transferred[a] = IF a - req.buffer + 1 \in 1..req.count * SectorUnits
                                 THEN drive[SplitAddress(req.start)][a - req.buffer + 1] ELSE memory[a]
<1>1. PICK n \in Nat, b \in Int : n = req.count * SectorUnits /\ b = req.buffer
  BY Sizes DEF BuildInv, ReqInv, Requests
<1>2. Places = [u \in 1..n |-> b + u - 1]
  BY <1>1, PlacesExact DEF Run
<1>3. /\ Told \in Nat /\ Told >= n /\ (req.count # 0 => Told = n)
      /\ fis.lba = SplitAddress(req.start)
  <2>1. PICK k \in Nat, s \in Nat \ {0}, c \in Nat \ {0} :
          k = req.count /\ s = SectorUnits /\ c = CountValues /\ n = k * s
    BY <1>1, Sizes DEF BuildInv, ReqInv, Requests
  <2>2. fis.count = k /\ fis.lba = SplitAddress(req.start)
    BY <2>1, TransferIsExact
  <2>3. Told = (IF k = 0 THEN c ELSE k) * s
    BY <2>1, <2>2 DEF Told
  <2>4. CASE k = 0
    <3>1. Told = c * s /\ c * s \in Nat /\ n = 0
      BY <2>1, <2>3, <2>4
    <3> QED BY <3>1, <2>1, <2>2, <2>4
  <2>5. CASE k # 0
    BY <2>1, <2>2, <2>3, <2>5
  <2> QED BY <2>4, <2>5
<1>4. DOMAIN Transferred = Memory
  BY DEF Transferred
<1>5. Memory \subseteq Int
  BY DEF Memory
<1>6. ASSUME NEW a \in Memory
      PROVE  Transferred[a] = IF a - b + 1 \in 1..n THEN drive[fis.lba][a - b + 1] ELSE memory[a]
  <2>1. Transferred[a] = IF \E i \in DOMAIN Places : Places[i] = a /\ i <= Told
                         THEN drive[fis.lba][CHOOSE i \in DOMAIN Places : Places[i] = a] ELSE memory[a]
    BY <1>4 DEF Transferred
  <2>2. (\E i \in DOMAIN Places : Places[i] = a /\ i <= Told) <=> a - b + 1 \in 1..n
    BY <1>2, <1>3, <1>5
  <2>3. ASSUME a - b + 1 \in 1..n PROVE (CHOOSE i \in DOMAIN Places : Places[i] = a) = a - b + 1
    <3>1. \A i \in DOMAIN Places : Places[i] = a <=> i = a - b + 1
      BY <1>2, <1>5, <2>3
    <3>2. a - b + 1 \in DOMAIN Places
      BY <1>2, <2>3
    <3> QED BY <3>1, <3>2
  <2> QED BY <2>1, <2>2, <2>3
<1> QED BY <1>1, <1>3, <1>4, <1>6

----------------------------------------------------------------------------
(* What partition_manager::init knows at each of its steps. *)

Clean == \A a \in Memory : a >= TableBuf => memory[a] = Junk
HeaderThere == Has(drive, SplitAddress(HeaderLba), SectorUnits) /\ Header = HeaderOn(drive)
EntriesThere ==
    /\ RegionCount(Sectors) <= MaxRegions
    /\ Has(drive, TableSector(drive), WholeSectors(TableSize(drive)))
    /\ \A u \in 1..TableSize(drive) : memory[TableBuf + u - 1] = TableRest(drive)[u]
Asked(start, count, buffer) ==
    BuildInv /\ req.start = start /\ req.count = count /\ req.buffer = buffer

PhaseInv ==
    /\ pm \in {"start", "header", "validate", "table"} => Clean
    /\ pm \in {"validate", "table", "entries"} => HeaderThere
    /\ pm \in {"table", "entries"} => validate_gpt
    /\ pm = "header" => Asked(HeaderLba, 1, HeaderBuf)
    /\ pm = "table" => Asked(Header.table, Sectors, TableBuf)
    /\ pm = "entries" /\ Checkable(drive) => EntriesThere
    /\ pm # "done" => partitions = <<>>

StorageInv == DiskOk(drive) /\ DOMAIN memory = Memory /\ PhaseInv /\ PartitionsVerified

(* What a header that has been found in order says. *)
LEMMA ValidHeader ==
    ASSUME DiskOk(drive), HeaderThere, validate_gpt
    PROVE  /\ Header.count \in Nat /\ Header.size \in Nat /\ Header.table \in Seq(Bytes)
           /\ TotalUnits \in Nat
<1>1. Header = HeaderOn(drive)
  BY DEF HeaderThere
<1>2. HeaderOn(drive) \in Units
  <2>1. drive[SplitAddress(HeaderLba)] \in Seq(Units)
    BY DEF DiskOk, HeaderThere, Has
  <2>2. 1 \in 1..Len(drive[SplitAddress(HeaderLba)])
    BY <2>1, Sizes DEF HeaderThere, Has
  <2> HIDE DEF Units
  <2> QED BY <2>1, <2>2 DEF HeaderOn
<1>3. Header \in Headers
  <2>1. Header.kind = "header"
    BY DEF validate_gpt
  <2> QED BY <2>1, <1>1, <1>2 DEF Units, Entries, Unused, Junk
<1>4. PICK n \in Nat, k \in Nat : n = Header.count /\ k = Header.size
  BY <1>3 DEF Headers
<1>5. Header.table \in Seq(Bytes)
  BY <1>3 DEF Headers
<1>6. TotalUnits \in Nat
  <2>1. PICK z \in Nat \ {0} : z = SizeValues
    BY Sizes
  <2>2. PICK m \in Nat : m = n * k
    OBVIOUS
  <2>3. m % z \in Nat
    BY Division
  <2> QED BY <2>1, <2>2, <2>3, <1>4 DEF TotalUnits
<1> QED BY <1>4, <1>5, <1>6

(* On a disk that keeps the reader within its buffers the header is in     *)
(* order, and its sizes do not wrap.                                       *)
LEMMA ContainedHeader ==
    ASSUME DiskOk(drive), HeaderThere, validate_gpt, Checkable(drive)
    PROVE  /\ HasGpt(drive) /\ PartialDiffers(drive) /\ ~Strays(Header)
           /\ TotalUnits = TableSize(drive)
           /\ Header.count # 0 => Header.size # 0
<1>1. Header = HeaderOn(drive) /\ HasSector1(drive)
  BY DEF HeaderThere, HasSector1
<1>2. Header.kind = "header"
  BY DEF validate_gpt
<1>3. WithinCopy(Header) /\ ~Strays(Header)
  BY <1>1, <1>2 DEF Checkable, Contained
<1>4. HasGpt(drive)
  BY <1>1, <1>3 DEF HasGpt, HeaderIntact, validate_gpt
<1>5. PICK n \in Nat, k \in Nat, z \in Nat \ {0} : n = Header.count /\ k = Header.size /\ z = SizeValues
  BY ValidHeader, Sizes
<1>6. n = 0 \/ (k # 0 /\ n * k < z)
  <2>1. PICK m \in Nat : m = n * k
    OBVIOUS
  <2> QED BY <2>1, <1>3, <1>5 DEF Strays
<1>7. (n * k) % z = n * k
  <2>1. PICK m \in Nat : m = n * k
    OBVIOUS
  <2>2. m < z
    BY <1>6, <2>1
  <2>3. m % z = m
    BY <2>2
  <2> QED BY <2>1, <2>3
<1>8. TotalUnits = TableSize(drive)
  BY <1>1, <1>5, <1>7 DEF TotalUnits, TableSize
<1> QED BY <1>3, <1>4, <1>5, <1>6, <1>8 DEF Checkable

LEMMA SectorFacts ==
    ASSUME NEW t \in Nat, t = TotalUnits
    PROVE  \E k \in Nat, s \in Nat \ {0} :
             /\ k = Sectors /\ s = SectorUnits
             /\ k * s = WholeSectors(t) /\ k * s <= t /\ t < k * s + s
             /\ k * s \in Nat
             /\ t % s = 0 => t = k * s
<1>1. PICK p \in Nat \ {0}, s \in Nat \ {0}, r \in Nat \ {0} :
        p = PerRegion /\ s = SectorUnits /\ r = RegionUnits /\ r = p * s
  BY Sizes
<1>2. PICK k \in Nat : k = t \div s
  <2>1. t \div s \in Nat
    BY Division
  <2> QED BY <2>1
<1>3. k * s <= t /\ t < (k + 1) * s /\ t = s * k + (t % s)
  BY <1>2, Division
<1>4. (k + 1) * s = k * s + s /\ s * k = k * s /\ k * s \in Nat
  OBVIOUS
<1>6. k = Sectors /\ WholeSectors(t) = k * s
  BY <1>1, <1>2 DEF Sectors, WholeSectors
<1>8. t % s = 0 => t = k * s
  BY <1>3, <1>4
<1>9. t < k * s + s
  BY <1>3, <1>4
<1> QED BY <1>1, <1>3, <1>4, <1>6, <1>8, <1>9

(* A table that is read at once fits behind the header. *)
LEMMA TableFits ==
    ASSUME NEW t \in Nat, t = TotalUnits, Sectors <= Limit, RegionCount(Sectors) <= MaxRegions
    PROVE  \A u \in 1..t : TableBuf + u - 1 \in Memory /\ TableBuf + u - 1 >= TableBuf
<1>1. PICK p \in Nat \ {0}, s \in Nat \ {0}, r \in Nat \ {0}, m \in Nat :
        p = PerRegion /\ s = SectorUnits /\ r = RegionUnits /\ r = p * s /\ m = MaxRegions
  BY Sizes
<1>2. PICK k \in Nat : k = Sectors /\ k <= Limit /\ t < k * s + s
  BY <1>1, SectorFacts
<1>3. k * s <= m * r
  <2>1. CASE k = 0
    <3>1. k * s = 0 /\ m * r \in Nat
      BY <2>1
    <3> QED BY <3>1
  <2>2. CASE k # 0
    <3>1. PICK n \in Nat \ {0} : n = RegionCount(k) /\ k <= n * p
      BY <2>2, <1>1, <1>2, CountBounds
    <3>2. n <= m
      <4>1. k = Sectors
        BY <1>2
      <4>2. RegionCount(k) <= MaxRegions
        BY <4>1
      <4> QED BY <4>2, <3>1, <1>1
    <3>3. n * p <= m * p
      BY <3>2
    <3>4. k <= m * p
      BY <3>1, <3>3
    <3>5. k * s <= (m * p) * s
      BY <3>4
    <3>6. (m * p) * s = m * r
      BY <1>1
    <3> QED BY <3>5, <3>6
  <2> QED BY <2>1, <2>2
<1>4. s <= r
  BY <1>1
<1>5. (m + 1) * r = m * r + r /\ r * (m + 1) = (m + 1) * r
  OBVIOUS
<1>6. PICK w \in Nat, x \in Nat : w = m * r /\ x = k * s
  OBVIOUS
<1>7. r * (m + 1) = w + r /\ t < x + s /\ x <= w
  BY <1>2, <1>3, <1>5, <1>6
<1>8. \A u \in 1..t : s + u - 1 \in 0..s + (w + r) /\ s + u - 1 >= s
  BY <1>4, <1>7
<1>9. Memory = 0..s + (w + r) /\ TableBuf = s
  BY <1>1, <1>7 DEF Memory, TableBuf
<1> QED BY <1>8, <1>9

(* The steps of partition_manager::init. *)

LEMMA ReadHeaderInv ==
    ASSUME StorageInv, ReadHeader(0) PROVE StorageInv'
<1>1. /\ pm = "start" /\ pm' = "header" /\ UNCHANGED <<drive, memory, partitions>>
      /\ ReadBegin(HeaderLba, 1, HeaderBuf)
  BY DEF ReadHeader, PmStep, PmVars
<1>2. HeaderLba \in Seq(Bytes) /\ HeaderBuf \in Int
  BY DEF HeaderLba, Bytes, HeaderBuf
<1>3. 1 <= Limit /\ RegionCount(1) <= MaxRegions
  <2>1. PICK p \in Nat \ {0}, m \in Nat \ {0}, c \in Nat \ {0} :
          p = PerRegion /\ m = MaxRegions /\ c = CountValues /\ m * p < c
    BY Sizes
  <2>2. 1 <= m * p /\ c >= 2
    <3>1. 1 * p <= m * p
      BY Monotone
    <3> QED BY <2>1, <3>1
  <2>3. (1 - 1) \div p = 0 /\ (0 + 1) % c = 1
    BY <2>2
  <2>4. RegionCount(1) = 1
    BY <2>1, <2>3 DEF RegionCount
  <2>5. 1 <= (c - 1) * p
    <3>1. 1 * p <= (c - 1) * p
      BY <2>2
    <3> QED BY <3>1
  <2> QED BY <2>1, <2>4, <2>5 DEF Limit
<1>4. Asked(HeaderLba, 1, HeaderBuf)'
  BY <1>1, <1>2, <1>3, BeginBuilds DEF Asked
<1>5. PhaseInv'
  BY <1>1, <1>4 DEF StorageInv, PhaseInv, Clean
<1>6. PartitionsVerified'
  BY <1>1 DEF StorageInv, PhaseInv, PartitionsVerified
<1> QED BY <1>1, <1>5, <1>6 DEF StorageInv

(* The request is the same while its table is built. *)
LEMMA TableStepInv ==
    ASSUME StorageInv, TableStep PROVE StorageInv'
<1>1. pm \in {"header", "table"} /\ UNCHANGED <<drive, memory, pm, partitions>> /\ (FillRegion \/ LastRegion)
  BY DEF TableStep, PmVars
<1>2. BuildInv
  BY <1>1 DEF StorageInv, PhaseInv, Asked
<1>3. BuildInv' /\ req'.start = req.start /\ req'.count = req.count /\ req'.buffer = req.buffer
  BY <1>1, <1>2, FillRegionBuilds, LastRegionBuilds
<1>4. pm = "header" => Asked(HeaderLba, 1, HeaderBuf)'
  BY <1>3 DEF StorageInv, PhaseInv, Asked
<1>5. pm = "table" => Asked(Header.table, Sectors, TableBuf)'
  BY <1>1, <1>3 DEF StorageInv, PhaseInv, Asked, Header, Sectors, TotalUnits
<1>6. PhaseInv'
  BY <1>1, <1>4, <1>5 DEF StorageInv, PhaseInv, Clean, HeaderThere, Header, validate_gpt
<1>7. PartitionsVerified'
  BY <1>1 DEF StorageInv, PartitionsVerified
<1> QED BY <1>1, <1>6, <1>7 DEF StorageInv

LEMMA HeaderReadInv ==
    ASSUME StorageInv, HeaderRead PROVE StorageInv'
<1>1. /\ pm = "header" /\ pm' = "validate" /\ Built /\ Has(drive, fis.lba, Told)
      /\ memory' = Transferred /\ UNCHANGED <<drive, partitions>>
  BY DEF HeaderRead, PmStep, PmVars
<1>2. /\ BuildInv /\ Clean /\ DOMAIN memory = Memory
      /\ req.start = HeaderLba /\ req.count = 1 /\ req.buffer = 0
  BY <1>1 DEF StorageInv, PhaseInv, Asked, HeaderBuf
<1>3. PICK s \in Nat \ {0} : s = SectorUnits
  BY Sizes
<1>4. /\ Told = s /\ DOMAIN memory' = Memory
      /\ \A a \in Memory :
           memory'[a] = IF a - 0 + 1 \in 1..s THEN drive[SplitAddress(HeaderLba)][a - 0 + 1] ELSE memory[a]
  <2>1. 1 * s = s
    OBVIOUS
  <2> QED BY <1>1, <1>2, <1>3, <2>1, TransferredIs
<1>5. fis.lba = SplitAddress(HeaderLba)
  BY <1>1, <1>2, TransferIsExact
<1>6. Memory \subseteq Nat /\ 0 \in Memory /\ TableBuf = s
  <2>1. PICK r \in Nat, m \in Nat : r = RegionUnits /\ m = MaxRegions
    BY Sizes
  <2>2. r * (m + 1) \in Nat
    OBVIOUS
  <2> QED BY <1>3, <2>1, <2>2 DEF Memory, TableBuf
<1>7. memory'[0] = drive[SplitAddress(HeaderLba)][1]
  BY <1>3, <1>4, <1>6
<1>8. HeaderThere'
  BY <1>1, <1>3, <1>4, <1>5, <1>7 DEF HeaderThere, Header, HeaderOn, HeaderBuf
<1>9. Clean'
  <2>1. ASSUME NEW a \in Memory, a >= s PROVE memory'[a] = Junk
    <3>1. ~(a - 0 + 1 \in 1..s)
      BY <1>3, <1>6, <2>1
    <3> QED BY <3>1, <1>2, <1>4, <1>6, <2>1 DEF Clean
  <2> QED BY <2>1, <1>6 DEF Clean
<1>10. PhaseInv'
  BY <1>1, <1>8, <1>9 DEF StorageInv, PhaseInv
<1>11. PartitionsVerified'
  BY <1>1 DEF StorageInv, PhaseInv, PartitionsVerified
<1> QED BY <1>1, <1>4, <1>10, <1>11 DEF StorageInv

LEMMA ReadFailsInv ==
    ASSUME StorageInv, ReadFails PROVE StorageInv'
<1>1. pm \in {"header", "table"} /\ pm' = "failed" /\ UNCHANGED <<drive, memory, partitions>>
  BY DEF ReadFails, PmVars
<1>2. PhaseInv'
  BY <1>1 DEF StorageInv, PhaseInv
<1>3. PartitionsVerified'
  BY <1>1 DEF StorageInv, PhaseInv, PartitionsVerified
<1> QED BY <1>1, <1>2, <1>3 DEF StorageInv

(* A header that has been refused is not in order on the disk either. *)
LEMMA NoGptInv ==
    ASSUME StorageInv, NoGpt PROVE StorageInv'
<1>1. pm = "validate" /\ pm' = "done" /\ Refused /\ UNCHANGED <<drive, memory, partitions>>
  BY DEF NoGpt, PmStep, PmVars
<1>2. HeaderThere /\ partitions = <<>>
  BY <1>1 DEF StorageInv, PhaseInv
<1>3. ~HasGpt(drive)
  BY <1>1, <1>2 DEF HasGpt, HasSector1, HeaderThere, HeaderIntact, Refused
<1>4. ~TableGood(drive)
  BY <1>3 DEF TableGood
<1>5. PhaseInv'
  BY <1>1 DEF StorageInv, PhaseInv
<1>6. PartitionsVerified'
  BY <1>1, <1>2, <1>4 DEF PartitionsVerified
<1> QED BY <1>1, <1>5, <1>6 DEF StorageInv

(* What is not modelled any further has found nothing. *)
LEMMA WildInv ==
    ASSUME StorageInv, pm' = "wild", partitions = <<>>, UNCHANGED <<drive, memory, partitions>>
    PROVE  StorageInv'
<1>1. PhaseInv'
  BY DEF PhaseInv
<1>2. PartitionsVerified'
  BY DEF PartitionsVerified
<1> QED BY <1>1, <1>2 DEF StorageInv

LEMMA HeaderFaultsInv ==
    ASSUME StorageInv, HeaderFaults PROVE StorageInv'
<1>1. pm = "validate" /\ pm' = "wild" /\ UNCHANGED <<drive, memory, partitions>>
  BY DEF HeaderFaults, PmStep, PmVars
<1>2. partitions = <<>>
  BY <1>1 DEF StorageInv, PhaseInv
<1> QED BY <1>1, <1>2, WildInv

LEMMA ReadTableInv ==
    ASSUME StorageInv, ReadTable PROVE StorageInv'
<1>1. pm = "validate" /\ validate_gpt /\ UNCHANGED <<drive, memory, partitions>>
  BY DEF ReadTable, PmStep, PmVars
<1>2. DiskOk(drive) /\ HeaderThere /\ Clean /\ partitions = <<>>
  BY <1>1 DEF StorageInv, PhaseInv
<1>3. PartitionsVerified'
  BY <1>1, <1>2 DEF ReadTable, PmStep, PartitionsVerified
<1>4. CASE pm' = "failed"
  <2>1. PhaseInv'
    BY <1>1, <1>2, <1>4 DEF PhaseInv
  <2> QED BY <1>1, <1>3, <2>1 DEF StorageInv
<1>5. CASE pm' = "wild"
  BY <1>1, <1>2, <1>5, WildInv
<1>6. CASE /\ pm' = "table" /\ ReadBegin(Header.table, Sectors, TableBuf)
           /\ RegionCount(Sectors) <= MaxRegions /\ Sectors <= Limit
  <2>1. PICK t \in Nat : t = TotalUnits
    BY <1>1, <1>2, ValidHeader
  <2>2. PICK k \in Nat : k = Sectors /\ k <= Limit /\ RegionCount(k) <= MaxRegions
    <3>1. PICK k \in Nat : k = Sectors
      BY <2>1, SectorFacts
    <3> QED BY <3>1, <1>6
  <2>3. TableBuf \in Int /\ Header.table \in Seq(Bytes)
    BY <1>1, <1>2, ValidHeader, Sizes DEF TableBuf
  <2>4. BuildInv' /\ req'.start = Header.table /\ req'.count = Sectors /\ req'.buffer = TableBuf
    BY <1>6, <2>2, <2>3, BeginBuilds
  <2>5. Asked(Header.table, Sectors, TableBuf)'
    BY <1>1, <2>4 DEF Asked, Header, Sectors, TotalUnits
  <2>6. HeaderThere' /\ Clean' /\ validate_gpt'
    BY <1>1, <1>2 DEF HeaderThere, Clean, validate_gpt, Header
  <2>7. PhaseInv'
    BY <1>1, <1>2, <1>6, <2>5, <2>6 DEF PhaseInv
  <2> QED BY <1>1, <1>3, <2>7 DEF StorageInv
<1> QED BY <1>4, <1>5, <1>6 DEF ReadTable, PmStep

(* The sectors of the table, and behind them what has been there before. *)
LEMMA TableReadInv ==
    ASSUME StorageInv, TableRead PROVE StorageInv'
<1>1. /\ pm = "table" /\ pm' = "entries" /\ Built /\ Has(drive, fis.lba, Told)
      /\ memory' = Transferred /\ UNCHANGED <<drive, partitions>>
  BY DEF TableRead, PmStep, PmVars
<1>2. /\ BuildInv /\ Clean /\ DOMAIN memory = Memory /\ DiskOk(drive) /\ HeaderThere /\ validate_gpt
      /\ req.start = Header.table /\ req.count = Sectors /\ req.buffer = TableBuf /\ partitions = <<>>
  BY <1>1 DEF StorageInv, PhaseInv, Asked
<1>3. PICK t \in Nat : t = TotalUnits
  BY <1>2, ValidHeader
<1>4. PICK k \in Nat, s \in Nat \ {0} :
        /\ k = Sectors /\ s = SectorUnits /\ k * s = WholeSectors(t) /\ k * s <= t /\ k * s \in Nat
  BY <1>3, SectorFacts
<1>5. PICK w \in Nat : w = k * s /\ w = WholeSectors(t) /\ w <= t
  BY <1>4
<1>6. /\ Told \in Nat /\ Told >= w /\ DOMAIN memory' = Memory
      /\ \A a \in Memory :
           memory'[a] = IF a - s + 1 \in 1..w THEN drive[SplitAddress(Header.table)][a - s + 1] ELSE memory[a]
  <2>1. TableBuf = s
    BY <1>4 DEF TableBuf
  <2>2. req.count * SectorUnits = w
    BY <1>2, <1>4, <1>5
  <2> QED BY <1>1, <1>2, <2>1, <2>2, TransferredIs
<1>7. SplitAddress(Header.table) = TableSector(drive)
  BY <1>2 DEF HeaderThere, TableSector
<1>8. Has(drive, TableSector(drive), w)
  <2>1. fis.lba = TableSector(drive)
    BY <1>1, <1>2, <1>7, TransferIsExact
  <2>2. TableSector(drive) \in DOMAIN drive /\ Len(drive[TableSector(drive)]) >= Told
    BY <2>1, <1>1 DEF Has
  <2>3. PICK l \in Nat : l = Len(drive[TableSector(drive)])
    BY <2>2, <1>2 DEF DiskOk
  <2> QED BY <2>2, <2>3, <1>6 DEF Has
<1>9. RegionCount(Sectors) <= MaxRegions /\ Sectors <= Limit
  BY <1>2 DEF BuildInv, ReqInv
<1>10. \A u \in 1..t : s + u - 1 \in Memory /\ s + u - 1 >= s
  BY <1>3, <1>4, <1>9, TableFits DEF TableBuf
<1>11. HeaderBuf \in Memory /\ HeaderBuf = 0
  <2>1. PICK r \in Nat, m \in Nat : r = RegionUnits /\ m = MaxRegions
    BY Sizes
  <2>2. r * (m + 1) \in Nat
    OBVIOUS
  <2> QED BY <1>4, <2>1, <2>2 DEF Memory, TableBuf, HeaderBuf
<1>12. Header' = Header
  <2>1. ~(0 - s + 1 \in 1..w)
    OBVIOUS
  <2>2. memory'[0] = memory[0]
    BY <1>6, <1>11, <2>1
  <2> QED BY <1>11, <2>2 DEF Header, HeaderBuf
<1>13. HeaderThere' /\ validate_gpt' /\ Sectors' = Sectors
  BY <1>1, <1>2, <1>12 DEF HeaderThere, validate_gpt, Sectors, TotalUnits
<1>14. ASSUME Checkable(drive), NEW u \in 1..t PROVE memory'[s + u - 1] = TableRest(drive)[u]
  <2>0. t = TableSize(drive)
    BY <1>2, <1>3, <1>14, ContainedHeader
  <2>1. TableRest(drive)[u] = IF u <= w THEN drive[TableSector(drive)][u] ELSE Junk
    BY <2>0, <1>5 DEF TableRest
  <2>2. s + u - 1 - s + 1 = u /\ (u \in 1..w <=> u <= w)
    OBVIOUS
  <2>3. memory'[s + u - 1] = IF u \in 1..w THEN drive[TableSector(drive)][u] ELSE memory[s + u - 1]
    BY <1>6, <1>7, <1>10, <2>2
  <2>4. memory[s + u - 1] = Junk
    BY <1>2, <1>4, <1>10 DEF Clean, TableBuf
  <2> QED BY <2>1, <2>2, <2>3, <2>4
<1>15. ASSUME Checkable(drive) PROVE EntriesThere'
  <2>1. t = TableSize(drive)
    BY <1>2, <1>3, <1>15, ContainedHeader
  <2>2. \A u \in 1..TableSize(drive) : memory'[TableBuf + u - 1] = TableRest(drive)[u]
    BY <2>1, <1>4, <1>14, <1>15 DEF TableBuf
  <2> QED BY <1>1, <1>5, <1>8, <1>9, <1>13, <2>1, <2>2 DEF EntriesThere
<1>16. PhaseInv'
  BY <1>1, <1>13, <1>15 DEF StorageInv, PhaseInv
<1>17. PartitionsVerified'
  BY <1>1, <1>2 DEF PartitionsVerified
<1> QED BY <1>1, <1>2, <1>6, <1>16, <1>17 DEF StorageInv

(* What is compared with the sum is what has been read. *)
LEMMA SumIsOf ==
    ASSUME StorageInv, pm = "entries", Checkable(drive)
    PROVE  /\ HasGpt(drive) /\ PartialDiffers(drive) /\ Header = HeaderOn(drive) /\ partitions = <<>>
           /\ TotalUnits = TableSize(drive)
           /\ Has(drive, TableSector(drive), WholeSectors(TableSize(drive)))
           /\ validate_gpt_partition_entries <=> Crc32(TableBytes(TableRest(drive))) = HeaderOn(drive).arraySum
<1>1. DiskOk(drive) /\ HeaderThere /\ validate_gpt /\ EntriesThere /\ partitions = <<>>
  BY DEF StorageInv, PhaseInv
<1>2. HasGpt(drive) /\ PartialDiffers(drive) /\ TotalUnits = TableSize(drive)
  BY <1>1, ContainedHeader
<1>3. Header = HeaderOn(drive)
  BY <1>1 DEF HeaderThere
<1>4. [u \in 1..TotalUnits |-> memory[TableBuf + u - 1]] = TableRest(drive)
  <2>1. \A u \in 1..TableSize(drive) : memory[TableBuf + u - 1] = TableRest(drive)[u]
    BY <1>1 DEF EntriesThere
  <2> DEFINE rest(u) == IF u <= WholeSectors(TableSize(drive)) THEN drive[TableSector(drive)][u] ELSE Junk
  <2>2. TableRest(drive) = [u \in 1..TableSize(drive) |-> rest(u)]
    BY DEF TableRest
  <2> HIDE DEF rest
  <2> QED BY <1>2, <2>1, <2>2
<1>5. Has(drive, TableSector(drive), WholeSectors(TableSize(drive)))
  BY <1>1 DEF EntriesThere
<1> QED BY <1>1, <1>2, <1>3, <1>4, <1>5 DEF validate_gpt_partition_entries

LEMMA WholeTable ==
    ASSUME StorageInv, pm = "entries", Checkable(drive), TableSize(drive) % SectorUnits = 0
    PROVE  TableRest(drive) = TableOn(drive) /\ WholeSectors(TableSize(drive)) = TableSize(drive)
<1>1. DiskOk(drive) /\ HeaderThere /\ validate_gpt
  BY DEF StorageInv, PhaseInv
<1>2. PICK t \in Nat : t = TotalUnits /\ t = TableSize(drive)
  BY <1>1, ValidHeader, ContainedHeader
<1>3. WholeSectors(t) = t
  <2>1. PICK s \in Nat \ {0}, k \in Nat : s = SectorUnits /\ k * s = WholeSectors(t) /\ (t % s = 0 => t = k * s)
    BY <1>2, SectorFacts
  <2>2. t % s = 0
    BY <1>2, <2>1
  <2> QED BY <2>1, <2>2
<1>4. \A u \in 1..t : u <= WholeSectors(TableSize(drive))
  BY <1>2, <1>3
<1> QED BY <1>2, <1>3, <1>4 DEF TableRest, TableOn

LEMMA BadTableInv ==
    ASSUME StorageInv, BadTable PROVE StorageInv'
<1>1. pm = "entries" /\ pm' = "done" /\ ~validate_gpt_partition_entries /\ UNCHANGED <<drive, memory, partitions>>
  BY DEF BadTable, PmStep, PmVars
<1>2. ~(Checkable(drive) /\ TableGood(drive) /\ ReadAtOnce(drive))
  BY <1>1, SumIsOf, WholeTable DEF TableGood, ReadAtOnce
<1>3. PhaseInv'
  BY <1>1 DEF StorageInv, PhaseInv
<1>4. PartitionsVerified'
  BY <1>1, <1>2 DEF PartitionsVerified, StorageInv, PhaseInv
<1> QED BY <1>1, <1>3, <1>4 DEF StorageInv

LEMMA StrayEntriesInv ==
    ASSUME StorageInv, StrayEntries PROVE StorageInv'
<1>1. pm = "entries" /\ Strays(Header) /\ UNCHANGED <<drive, memory>>
  BY DEF StrayEntries, PmVars
<1>2. partitions = <<>> /\ DiskOk(drive) /\ HeaderThere /\ validate_gpt
  BY <1>1 DEF StorageInv, PhaseInv
<1>3. ~Checkable(drive)
  BY <1>1, <1>2, ContainedHeader
<1>4. CASE pm' = "done"
  <2>1. PhaseInv'
    BY <1>4 DEF PhaseInv
  <2>2. PartitionsVerified'
    BY <1>1, <1>3 DEF PartitionsVerified
  <2> QED BY <1>1, <2>1, <2>2 DEF StorageInv
<1>5. CASE pm' = "wild" /\ UNCHANGED partitions
  BY <1>1, <1>2, <1>5, WildInv
<1> QED BY <1>4, <1>5 DEF StrayEntries

LEMMA PushEntriesInv ==
    ASSUME StorageInv, PushEntries PROVE StorageInv'
<1>1. /\ pm = "entries" /\ pm' = "done" /\ validate_gpt_partition_entries /\ UNCHANGED <<drive, memory>>
      /\ partitions' = UsableOf([i \in 1..Header.count |-> EntryAt(i)])
  BY DEF PushEntries, PmStep, PmVars
<1>2. PhaseInv'
  BY <1>1 DEF StorageInv, PhaseInv
<1>3. ASSUME Checkable(drive) PROVE TableGood(drive) /\ partitions' = UsableOf(EntriesOn(drive))
  <2>1. /\ DiskOk(drive) /\ HeaderThere /\ validate_gpt /\ EntriesThere /\ HasGpt(drive)
        /\ Header = HeaderOn(drive)
    BY <1>1, <1>3, SumIsOf DEF StorageInv, PhaseInv
  <2>2. TableSize(drive) % SectorUnits = 0
    BY <1>1, <1>3, SumIsOf DEF PartialDiffers
  <2>3. TableRest(drive) = TableOn(drive) /\ WholeSectors(TableSize(drive)) = TableSize(drive)
    BY <1>1, <1>3, <2>2, WholeTable
  <2>4. TableGood(drive)
    BY <1>1, <1>3, <2>3, SumIsOf DEF TableGood
  <2>5. [i \in 1..Header.count |-> EntryAt(i)] = EntriesOn(drive)
    <3>1. PICK n \in Nat, k \in Nat : n = Header.count /\ k = Header.size /\ (n # 0 => k # 0)
      BY <1>3, <2>1, ValidHeader, ContainedHeader
    <3>2. TableSize(drive) = n * k
      BY <2>1, <3>1 DEF TableSize
    <3>3. ASSUME NEW i \in 1..n PROVE EntryAt(i) = TableOn(drive)[(i - 1) * k + 1]
      <4>1. PICK j \in Nat : j = (i - 1) * k
        OBVIOUS
      <4>2. j + k <= n * k /\ k # 0
        <5>1. i * k <= n * k
          BY Monotone
        <5>2. i * k = j + k
          BY <4>1
        <5>3. k # 0
          BY <3>1
        <5> QED BY <5>1, <5>2, <5>3
      <4>3. PICK t \in Nat : t = n * k /\ j + k <= t
        BY <4>2
      <4>4. j + 1 \in 1..t
        BY <4>2, <4>3
      <4>5. memory[TableBuf + (j + 1) - 1] = TableOn(drive)[j + 1]
        BY <2>1, <2>3, <3>2, <4>3, <4>4 DEF EntriesThere
      <4>6. TableBuf + (j + 1) - 1 = TableBuf + j
        BY Sizes DEF TableBuf
      <4>7. EntryAt(i) = memory[TableBuf + j]
        BY <3>1, <4>1 DEF EntryAt
      <4> QED BY <4>1, <4>5, <4>6, <4>7
    <3> DEFINE at(i) == TableOn(drive)[(i - 1) * k + 1]
    <3>4. EntriesOn(drive) = [i \in 1..n |-> at(i)]
      BY <2>1, <3>1 DEF EntriesOn
    <3>5. \A i \in 1..n : EntryAt(i) = at(i)
      BY <3>3
    <3> HIDE DEF at
    <3> QED BY <3>1, <3>4, <3>5
  <2>6. partitions' = UsableOf(EntriesOn(drive))
    BY <1>1, <2>5
  <2> QED BY <2>4, <2>6
<1>4. PartitionsVerified'
  BY <1>1, <1>3 DEF PartitionsVerified
<1> QED BY <1>1, <1>2, <1>4 DEF StorageInv

LEMMA PartitionStepInv ==
    ASSUME StorageInv, PartitionStep PROVE StorageInv'
  BY TableStepInv, ReadHeaderInv, HeaderReadInv, ReadFailsInv, ReadTableInv, NoGptInv, TableReadInv,
     HeaderFaultsInv, PushEntriesInv, StrayEntriesInv, BadTableInv DEF PartitionStep

LEMMA StorageExact == ASSUME StorageInv PROVE TransferExact
<1>1. SUFFICES ASSUME pm \in {"header", "table"}, Built PROVE
        /\ Places = [u \in 1..req.count * SectorUnits |-> req.buffer + u - 1]
        /\ Len(regions) <= MaxRegions
        /\ \A i \in DOMAIN regions : regions[i].units \in 1..RegionUnits
        /\ fis.lba = SplitAddress(req.start) /\ fis.count = req.count
  BY DEF TransferExact
<1>2. BuildInv
  BY <1>1 DEF StorageInv, PhaseInv, Asked
<1> QED BY <1>1, <1>2, TransferIsExact DEF Run

----------------------------------------------------------------------------
(* The port's device is initialized before the partitions are read; the    *)
(* namespace is visited after the one driver has been registered, and its  *)
(* one keyboard once.                                                      *)
PartitionsInv ==
    /\ StorageInv
    /\ pm # "start" => stage \in {"partitions", "user"}

Registered == stage \notin {"entry", "halted", "memory", "xhci", "rtl", "rtlIrq", "ps2"}
KeyboardsInv ==
    /\ Ps2Inv
    /\ firmware.namespace \in Seq(Nodes) /\ KeyboardOnce(firmware.namespace)
    /\ nodes \in Seq(Nodes) /\ KeyboardOnce(nodes)
    /\ phase # "idle" => \A i \in DOMAIN nodes : ~KeyboardNode(nodes[i])
    /\ drivers = IF Registered THEN <<[ids |-> ps2k_pnp_ids]>> ELSE <<>>
    /\ ~Registered => phase = "idle"

LEMMA InitPartitionsInv == Init => PartitionsInv
<1> SUFFICES ASSUME Init PROVE PartitionsInv
  OBVIOUS
<1>1. PICK c \in Computers : StorageInit(c.ports, c.disk)
  BY DEF Init
<1>2. /\ DiskOk(drive) /\ memory = [a \in Memory |-> Junk]
      /\ pm = "start" /\ partitions = <<>>
  BY <1>1, DisksAssumption DEF StorageInit
<1>3. StorageInv
  BY <1>2 DEF StorageInv, PhaseInv, PartitionsVerified, Clean, Memory, TableBuf
<1> QED BY <1>2, <1>3 DEF PartitionsInv

(* ahci::init and the devices leave what the partition manager has read. *)
LEMMA AhciStepInv ==
    ASSUME StorageInv, AhciStep, pm = "start" PROVE StorageInv' /\ pm' = "start"
<1>1. UNCHANGED <<drive, memory, pm, partitions>>
  BY DEF AhciStep, EnableAhci, ProbePorts, Initialize
<1> QED BY <1>1 DEF StorageInv, PhaseInv, PartitionsVerified, Clean, Header

(* What leaves the storage alone leaves its invariant. *)
LEMMA StorageUnchanged ==
    ASSUME StorageInv, UNCHANGED storageVars PROVE StorageInv' /\ pm' = pm
<1>1. UNCHANGED <<drive, req, regions, fis, memory, pm, partitions>>
  BY DEF storageVars
<1>2. (HeaderThere <=> HeaderThere') /\ (EntriesThere <=> EntriesThere') /\ (Clean <=> Clean')
  BY <1>1 DEF HeaderThere, EntriesThere, Clean, Header, Sectors, TotalUnits
<1>3. (validate_gpt <=> validate_gpt') /\ Sectors' = Sectors /\ Header' = Header
  BY <1>1 DEF validate_gpt, Header, Sectors, TotalUnits
<1>4. (ReqInv <=> ReqInv') /\ (TableInv <=> TableInv') /\ (TurnInv <=> TurnInv') /\ (FisInv <=> FisInv')
  BY <1>1 DEF ReqInv, TableInv, TurnInv, FisInv, RegionFor, Built, LastTurn
<1>5. BuildInv <=> BuildInv'
  BY <1>4 DEF BuildInv
<1>6. PhaseInv'
  BY <1>1, <1>2, <1>3, <1>5 DEF StorageInv, PhaseInv, Asked
<1>7. PartitionsVerified'
  BY <1>1 DEF StorageInv, PartitionsVerified
<1> QED BY <1>1, <1>6, <1>7 DEF StorageInv

LEMMA StepPartitionsInv == PartitionsInv /\ [Next]_vars => PartitionsInv'
<1> SUFFICES ASSUME PartitionsInv, [Next]_vars PROVE PartitionsInv'
  OBVIOUS
<1>1. CASE AhciPorts
  <2>1. pm = "start" /\ AhciStep /\ stage' = stage
    BY <1>1 DEF AhciPorts, PartitionsInv, initVars
  <2> QED BY <2>1, AhciStepInv DEF PartitionsInv
<1>2. CASE Partitioning
  BY <1>2, PartitionStepInv DEF Partitioning, PartitionsInv, initVars
<1>3. ASSUME UNCHANGED storageVars, stage' = stage \/ stage \notin {"partitions", "user"} \/ stage' = "user"
      PROVE PartitionsInv'
  BY <1>3, StorageUnchanged DEF PartitionsInv
<1>4. CASE kernel_main \/ Halt \/ InitCore \/ RegisterPs2
  BY <1>3, <1>4 DEF kernel_main, Halt, InitCore, RegisterPs2, Devices, At
<1>5. CASE XhciInit \/ RtlInit \/ RtlIrq \/ AhciInit
  BY <1>3, <1>5 DEF XhciInit, RtlInit, RtlIrq, AhciInit, Ask, Without, Devices, At
<1>6. CASE init_device \/ Probing \/ Arming
  BY <1>3, <1>6 DEF init_device, Probing, Arming, initVars
<1>7. CASE Enumerated \/ InitPartitions \/ Wild \/ EnterUser
  BY <1>3, <1>7 DEF Enumerated, InitPartitions, Wild, EnterUser, Without, Devices, At
<1>8. CASE KeyboardStep \/ UNCHANGED vars
  BY <1>3, <1>8 DEF KeyboardStep, vars, initVars
<1> QED
  BY <1>1, <1>2, <1>4, <1>5, <1>6, <1>7, <1>8 DEF Next, KernelStep

(* A device that has a driver is the keyboard. *)
LEMMA DriverIs ==
    ASSUME KeyboardsInv, NEW node \in Nodes, Driver(node) # None PROVE KeyboardNode(node)
<1>1. ASSUME NEW ids, DriverOf(ids) # None PROVE ps2k_pnp_ids[1] \in ids
  <2>1. \E d \in DOMAIN drivers : ToSet(drivers[d].ids) \cap ids # {}
    BY <1>1 DEF DriverOf, First
  <2>2. PICK d \in DOMAIN drivers : ToSet(drivers[d].ids) \cap ids # {}
    BY <2>1
  <2>3. drivers[d].ids = ps2k_pnp_ids
    BY <2>2 DEF KeyboardsInv
  <2>4. ToSet(ps2k_pnp_ids) = {ps2k_pnp_ids[1]}
    BY DEF ps2k_pnp_ids, ToSet
  <2> QED BY <2>2, <2>3, <2>4
<1>2. DriverOf({node.hid}) # None \/ DriverOf(node.cids) # None
  BY DEF Driver
<1> QED BY <1>1, <1>2 DEF KeyboardNode

LEMMA InitKeyboardsInv == Init => KeyboardsInv
<1> SUFFICES ASSUME Init PROVE KeyboardsInv
  OBVIOUS
<1>1. PICK c \in Computers : Ps2Init(c.machine) /\ firmware = c.firmware
  BY DEF Init
<1>2. c.machine \in Machines /\ firmware.namespace \in Seq(Nodes) /\ KeyboardOnce(firmware.namespace)
  BY <1>1, KeyboardsAssumption
<1>3. Ps2Inv /\ phase = "idle"
  BY <1>1, <1>2, Ps2InitInv
<1>4. nodes = <<>> /\ drivers = <<>> /\ ~Registered
  BY DEF Init, Registered
<1>5. KeyboardOnce(nodes)
  BY <1>4 DEF KeyboardOnce
<1> QED BY <1>2, <1>3, <1>4, <1>5 DEF KeyboardsInv

LEMMA Ps2Unchanged ==
    ASSUME Ps2Inv, UNCHANGED ps2Vars PROVE Ps2Inv' /\ phase' = phase
<1> USE DEF ps2Vars
<1>1. phase' = phase /\ Ps2Type'
  BY DEF Ps2Inv, Ps2Type
<1>2. FlagInv' /\ ControllerInv'
  BY DEF Ps2Inv, FlagInv, ControllerInv, Between, Reached
<1>3. BufferInv' /\ IdInv'
  BY DEF Ps2Inv, BufferInv, IdInv, Between, Present, IsKeyboard
<1>4. HandlerInv' /\ DeviceInv'
  BY DEF Ps2Inv, HandlerInv, DeviceInv, Between, Reached, Present, IsKeyboard, KeyboardIrq, SecondKnown
<1>5. DualInv'
  BY DEF Ps2Inv, DualInv, Alone, SecondKnown, Between, Reached
<1> QED BY <1>1, <1>2, <1>3, <1>4, <1>5 DEF Ps2Inv

LEMMA StepKeyboardsInv == KeyboardsInv /\ [Next]_vars => KeyboardsInv'
<1> SUFFICES ASSUME KeyboardsInv, [Next]_vars PROVE KeyboardsInv'
  OBVIOUS
<1>1. ASSUME UNCHANGED <<firmware, nodes, drivers, ps2Vars>>, Registered' <=> Registered PROVE KeyboardsInv'
  BY <1>1, Ps2Unchanged DEF KeyboardsInv
<1>2. CASE RegisterPs2
  <2>1. /\ UNCHANGED <<firmware, ps2Vars>> /\ ~Registered /\ Registered'
        /\ drivers' = Append(drivers, [ids |-> ps2k_pnp_ids])
        /\ nodes' \in {firmware.namespace, <<>>}
    BY <1>2 DEF RegisterPs2, Devices, At, Registered
  <2>2. drivers' = <<[ids |-> ps2k_pnp_ids]>> /\ phase = "idle"
    BY <2>1 DEF KeyboardsInv
  <2>3. nodes' \in Seq(Nodes) /\ KeyboardOnce(nodes')
    <3>1. <<>> \in Seq(Nodes) /\ KeyboardOnce(<<>>)
      BY DEF KeyboardOnce
    <3>2. firmware.namespace \in Seq(Nodes) /\ KeyboardOnce(firmware.namespace)
      BY DEF KeyboardsInv
    <3> QED BY <2>1, <3>1, <3>2
  <2> QED BY <2>1, <2>2, <2>3, Ps2Unchanged DEF KeyboardsInv
<1>3. CASE init_device
  <2>1. /\ nodes # <<>> /\ nodes' = Tail(nodes) /\ UNCHANGED <<firmware, drivers>>
        /\ (Registered' <=> Registered) /\ Registered
        /\ IF Driver(Head(nodes)) = None THEN UNCHANGED ps2Vars ELSE probe
    BY <1>3 DEF init_device, Registered
  <2>2. /\ nodes' \in Seq(Nodes) /\ Head(nodes) \in Nodes /\ Head(nodes) = nodes[1]
        /\ 1 \in DOMAIN nodes
        /\ \A i \in DOMAIN nodes' : i + 1 \in DOMAIN nodes /\ i + 1 # 1 /\ nodes'[i] = nodes[i + 1]
        /\ \A i, j \in DOMAIN nodes' : i + 1 = j + 1 => i = j
    BY <2>1 DEF KeyboardsInv
  <2>3. KeyboardOnce(nodes')
    BY <2>2 DEF KeyboardsInv, KeyboardOnce
  <2>4. phase # "idle" => \A i \in DOMAIN nodes' : ~KeyboardNode(nodes'[i])
    BY <2>2 DEF KeyboardsInv
  <2>5. CASE Driver(Head(nodes)) = None
    BY <2>1, <2>2, <2>3, <2>4, <2>5, Ps2Unchanged DEF KeyboardsInv
  <2>6. CASE Driver(Head(nodes)) # None
    <3>1. KeyboardNode(nodes[1])
      BY <2>2, <2>6, DriverIs
    <3>2. phase = "idle"
      BY <2>2, <3>1 DEF KeyboardsInv
    <3>3. \A i \in DOMAIN nodes' : ~KeyboardNode(nodes'[i])
      BY <2>2, <3>1 DEF KeyboardsInv, KeyboardOnce
    <3>4. Ps2Inv'
      BY <2>1, <2>6, <3>2, FirstProbeInv DEF KeyboardsInv
    <3> QED BY <2>1, <2>2, <2>3, <3>3, <3>4 DEF KeyboardsInv
  <2> QED BY <2>5, <2>6
<1>4. CASE Probing
  <2>1. UNCHANGED <<firmware, nodes, drivers>> /\ (Registered' <=> Registered) /\ ScriptStep
    BY <1>4 DEF Probing, initVars, Registered
  <2>2. phase # "idle"
    BY <2>1, ScriptStepInv DEF KeyboardsInv
  <2> QED BY <2>1, <2>2, ScriptStepInv DEF KeyboardsInv
<1>5. CASE KeyboardStep
  <2>1. /\ UNCHANGED <<firmware, nodes, drivers, phase>> /\ (Registered' <=> Registered)
        /\ KeyHit \/ KeyboardInterrupt
    BY <1>5 DEF KeyboardStep, initVars, Registered, KeyHit, KeyboardInterrupt
  <2>2. Ps2Inv'
    BY <2>1, KeyHitInv, KeyboardInterruptInv DEF KeyboardsInv
  <2> QED BY <2>1, <2>2 DEF KeyboardsInv
<1>6. CASE kernel_main \/ Halt \/ InitCore
  BY <1>1, <1>6 DEF kernel_main, Halt, InitCore, Devices, At, Registered
<1>7. CASE XhciInit \/ RtlInit \/ RtlIrq \/ AhciInit
  BY <1>1, <1>7 DEF XhciInit, RtlInit, RtlIrq, AhciInit, Ask, Without, Devices, At, Registered
<1>8. CASE Enumerated \/ InitPartitions \/ Wild \/ EnterUser
  BY <1>1, <1>8 DEF Enumerated, InitPartitions, Wild, EnterUser, Without, Devices, At, Registered
<1>9. CASE Arming \/ AhciPorts \/ Partitioning \/ UNCHANGED vars
  BY <1>1, <1>9 DEF Arming, AhciPorts, Partitioning, vars, initVars, Registered
<1> QED
  BY <1>2, <1>3, <1>4, <1>5, <1>6, <1>7, <1>8, <1>9 DEF Next, KernelStep

(* Unless a key is hit before the keyboard's name has been kept, a         *)
(* keyboard that is there is found, nothing else is taken for one, and it  *)
(* is left as its handler needs it, however the firmware left the two; but *)
(* for a controller of one port that shows a second one's clock as running *)
(* (probe, reset_device, init_device).                                     *)
THEOREM KeyboardFoundTheorem == Spec => []KeyboardFound
<1>1. KeyboardsInv => KeyboardFound
  BY Ps2Found DEF KeyboardsInv
<1> QED BY <1>1, InitKeyboardsInv, StepKeyboardsInv, PTL DEF Spec

(* The drive is told what a caller who wants any sector asks for           *)
(* (ahci_port::read, partition_manager::init), whatever is on the disk.    *)
THEOREM TransferExactTheorem == Spec => []TransferExact
<1>1. PartitionsInv => TransferExact
  BY StorageExact DEF PartitionsInv
<1> QED BY <1>1, InitPartitionsInv, StepPartitionsInv, PTL DEF Spec

(* On a disk whose header keeps the reader within its buffers, the         *)
(* partitions found are those of a table that is on the disk, entire and   *)
(* undamaged by its sum, and all of them (partition_manager::init,         *)
(* validate_gpt, validate_gpt_partition_entries).                          *)
THEOREM PartitionsVerifiedTheorem == Spec => []PartitionsVerified
<1>1. PartitionsInv => PartitionsVerified
  BY DEF PartitionsInv, StorageInv
<1> QED BY <1>1, InitPartitionsInv, StepPartitionsInv, PTL DEF Spec

----------------------------------------------------------------------------
(* install_interrupt: what the registers of a function, the task and the *)
(* handlers' vectors keep between its steps.                             *)
Hops == 0..MaxHops - 1

(* The list of capabilities is what its recursion says. *)
IsChain(caps, first, next, n) ==
    \A hop \in 0..n :
        caps[hop] = IF hop = 0 THEN first ELSE IF caps[hop - 1] = 0 THEN 0 ELSE next[caps[hop - 1]]
ChainOf(caps, first, next) ==
    caps = [hop \in 0..MaxHops - 1 |->
               IF hop = 0 THEN first ELSE IF caps[hop - 1] = 0 THEN 0 ELSE next[caps[hop - 1]]]

LEMMA ChainExists ==
    ASSUME NEW first \in Bytes, NEW next \in [Bytes -> Bytes], NEW n \in Nat
    PROVE  \E caps \in [0..n -> Bytes] : IsChain(caps, first, next, n)
<1> DEFINE Short == {k \in Nat : ~\E caps \in [0..k -> Bytes] : IsChain(caps, first, next, k)}
<1>1. SUFFICES ASSUME Short # {} PROVE FALSE
  OBVIOUS
<1>2. PICK m \in Short : \A k \in Short : m <= k
  BY <1>1, Least
<1> HIDE DEF Short
<1>3. m \in Nat /\ ~\E caps \in [0..m -> Bytes] : IsChain(caps, first, next, m)
  BY <1>2 DEF Short
<1>4. CASE m = 0
  <2> DEFINE g == [hop \in 0..0 |-> first]
  <2>1. g \in [0..0 -> Bytes] /\ g[0] = first
    OBVIOUS
  <2>2. IsChain(g, first, next, 0)
    BY <2>1 DEF IsChain
  <2> HIDE DEF g
  <2> QED BY <1>3, <1>4, <2>1, <2>2
<1>5. CASE m # 0
  <2>1. m - 1 \in Nat /\ m - 1 \notin Short
    BY <1>2, <1>3, <1>5
  <2>2. PICK g \in [0..m - 1 -> Bytes] : IsChain(g, first, next, m - 1)
    BY <2>1 DEF Short
  <2> DEFINE last == IF g[m - 1] = 0 THEN 0 ELSE next[g[m - 1]]
             h == [hop \in 0..m |-> IF hop = m THEN last ELSE g[hop]]
  <2>3. g[m - 1] \in Bytes
    BY <1>3, <1>5
  <2>4. last \in Bytes
    BY <2>3 DEF Bytes
  <2>5. h \in [0..m -> Bytes] /\ h[m] = last /\ \A hop \in 0..m - 1 : h[hop] = g[hop]
    <3> HIDE DEF last
    <3>1. \A hop \in 0..m : hop # m => hop \in 0..m - 1
      BY <1>3
    <3>2. \A hop \in 0..m - 1 : hop \in 0..m /\ hop # m
      BY <1>3
    <3>3. m \in 0..m
      BY <1>3
    <3> QED BY <2>4, <3>1, <3>2, <3>3
  <2> HIDE DEF h
  <2>6. ASSUME NEW hop \in 0..m
        PROVE  h[hop] = IF hop = 0 THEN first ELSE IF h[hop - 1] = 0 THEN 0 ELSE next[h[hop - 1]]
    <3>1. CASE hop = m
      <4>1. h[hop - 1] = g[m - 1]
        BY <1>3, <1>5, <2>5, <3>1
      <4> QED BY <1>5, <2>5, <3>1, <4>1
    <3>2. CASE hop # m
      <4>1. hop \in 0..m - 1 /\ (hop # 0 => hop - 1 \in 0..m - 1)
        BY <1>3, <3>2
      <4>2. g[hop] = IF hop = 0 THEN first ELSE IF g[hop - 1] = 0 THEN 0 ELSE next[g[hop - 1]]
        BY <2>2, <4>1 DEF IsChain
      <4> QED BY <2>5, <4>1, <4>2
    <3> QED BY <3>1, <3>2
  <2>7. IsChain(h, first, next, m)
    BY <2>6 DEF IsChain
  <2> QED BY <1>3, <2>5, <2>7
<1> QED BY <1>4, <1>5

LEMMA ChainIs ==
    ASSUME NEW first \in Bytes, NEW next \in [Bytes -> Bytes]
    PROVE  Chain(first, next) \in [Hops -> Bytes] /\ IsChain(Chain(first, next), first, next, MaxHops - 1)
<1>1. MaxHops - 1 \in Nat
  BY DEF MaxHops
<1>2. PICK g \in [Hops -> Bytes] : IsChain(g, first, next, MaxHops - 1)
  BY <1>1, ChainExists DEF Hops
<1>3. ChainOf(g, first, next)
  BY <1>2 DEF IsChain, ChainOf, Hops
<1>4. Chain(first, next) = CHOOSE f : ChainOf(f, first, next)
  BY DEF Chain, ChainOf
<1>5. ChainOf(Chain(first, next), first, next)
  BY <1>3, <1>4
<1> DEFINE c == Chain(first, next)
<1>6. DOMAIN c = Hops
  BY <1>5 DEF ChainOf, Hops
<1>7. IsChain(c, first, next, MaxHops - 1)
  BY <1>5 DEF ChainOf, IsChain
<1> HIDE DEF c
<1>8. c = g
  <2> DEFINE Differ == {hop \in Hops : c[hop] # g[hop]}
  <2>1. SUFFICES ASSUME Differ # {} PROVE FALSE
    <3>1. \A hop \in Hops : c[hop] = g[hop]
      BY <2>1
    <3>2. c = [hop \in Hops |-> c[hop]]
      BY <1>5 DEF c, ChainOf, Hops
    <3>3. g = [hop \in Hops |-> g[hop]]
      OBVIOUS
    <3> QED BY <3>1, <3>2, <3>3
  <2>2. Differ \subseteq Nat
    BY DEF Hops, MaxHops
  <2>3. PICK m \in Differ : \A k \in Differ : m <= k
    BY <2>1, <2>2, Least
  <2>4. m \in Hops /\ c[m] # g[m] /\ (m # 0 => m - 1 \in Hops /\ m - 1 \notin Differ)
    BY <2>3 DEF Hops, MaxHops
  <2>5. m # 0 => c[m - 1] = g[m - 1]
    BY <2>4
  <2>6. c[m] = g[m]
    BY <1>2, <1>7, <2>4, <2>5 DEF IsChain, Hops
  <2> QED BY <2>4, <2>6
<1> QED BY <1>2, <1>8 DEF c

(* Only where the list goes matters. *)
LEMMA ChainSame ==
    ASSUME NEW first \in Bytes, NEW next \in [Bytes -> Bytes], NEW next2 \in [Bytes -> Bytes],
           \A hop \in Hops : LET cap == Chain(first, next)[hop] IN cap # 0 => next2[cap] = next[cap]
    PROVE  Chain(first, next2) = Chain(first, next)
<1>1. PICK c \in [Hops -> Bytes] : c = Chain(first, next) /\ IsChain(c, first, next, MaxHops - 1)
  BY ChainIs
<1>2. PICK d \in [Hops -> Bytes] : d = Chain(first, next2) /\ IsChain(d, first, next2, MaxHops - 1)
  BY ChainIs
<1> DEFINE Differ == {hop \in Hops : c[hop] # d[hop]}
<1>3. SUFFICES ASSUME Differ # {} PROVE FALSE
  <2>1. \A hop \in Hops : c[hop] = d[hop]
    BY <1>3
  <2>2. c = [hop \in Hops |-> c[hop]] /\ d = [hop \in Hops |-> d[hop]]
    OBVIOUS
  <2>3. c = d
    BY <2>1, <2>2
  <2> QED BY <1>1, <1>2, <2>3
<1>4. Differ \subseteq Nat
  BY DEF Hops, MaxHops
<1>5. PICK m \in Differ : \A k \in Differ : m <= k
  BY <1>3, <1>4, Least
<1>6. m \in Hops /\ c[m] # d[m] /\ (m # 0 => m - 1 \in Hops /\ m - 1 \notin Differ)
  BY <1>5 DEF Hops, MaxHops
<1>7. m # 0 => c[m - 1] = d[m - 1] /\ (c[m - 1] # 0 => next2[c[m - 1]] = next[c[m - 1]])
  BY <1>1, <1>6
<1>8. c[m] = d[m]
  BY <1>1, <1>2, <1>6, <1>7 DEF IsChain, Hops
<1> QED BY <1>6, <1>8

----------------------------------------------------------------------------
(* Words and their halves. *)
LEMMA HalfIs ==
    ASSUME NEW v \in HalfWords PROVE v \in Nat /\ v <= 65535
  BY DEF HalfWords
LEMMA IsHalf ==
    ASSUME NEW v \in Nat, v <= 65535 PROVE v \in HalfWords
  BY DEF HalfWords

LEMMA Offsets ==
    ASSUME NEW off \in Nat
    PROVE  /\ Aligned4(off) \in Nat /\ Aligned4(off) % 4 = 0 /\ HalfOf(off) \in {1, 2}
           /\ off % 4 = 0 =>
                /\ Aligned4(off) = off /\ Aligned4(off + 1) = off /\ Aligned4(off + 2) = off
                /\ HalfOf(off) = 1 /\ HalfOf(off + 1) = 1 /\ HalfOf(off + 2) = 2
                /\ off % 2 = 0 /\ (off + 1) % 2 = 1
<1>1. PICK k \in Nat, r \in 0..3 : off = 4 * k + r
  <2>1. PICK k \in Nat, r \in 0..3 : k = off \div 4 /\ r = off % 4
    OBVIOUS
  <2> QED BY <2>1
<1>2. off \div 4 = k /\ off % 4 = r
  BY <1>1
<1>3. HalfOf(off) \in {1, 2}
  BY DEF HalfOf
<1> QED BY <1>1, <1>2, <1>3 DEF Aligned4, HalfOf

LEMMA WordIs ==
    ASSUME NEW regs, regs \in [DOMAIN regs -> Words], NEW off \in Nat
    PROVE  /\ Word(regs, off) \in Words /\ Half(regs, off) \in HalfWords
           /\ ByteOfWord(regs, off) \in Bytes
<1>0. <<0, 0>> \in Words
  BY IsHalf DEF Words
<1>1. Word(regs, off) \in Words
  BY <1>0 DEF Word
<1>2. PICK a \in HalfWords, b \in HalfWords : Word(regs, off) = <<a, b>>
  BY <1>1 DEF Words
<1>3. Half(regs, off) \in HalfWords
  BY <1>2, Offsets DEF Half
<1>4. PICK v \in HalfWords : v = Half(regs, off)
  BY <1>3
<1>5. (v \div 256) % 256 \in Bytes /\ (v \div 1) % 256 \in Bytes
  BY HalfIs DEF Bytes
<1>6. ByteOfWord(regs, off) \in Bytes
  BY <1>4, <1>5 DEF ByteOfWord
<1> QED BY <1>1, <1>3, <1>6

LEMMA WithIs ==
    ASSUME NEW regs, regs \in [DOMAIN regs -> Words],
           \A off \in DOMAIN regs : off \in Nat /\ off % 4 = 0,
           NEW at \in Nat, at % 4 = 0, NEW word \in Words
    PROVE  /\ With(regs, at, word) \in [DOMAIN With(regs, at, word) -> Words]
           /\ \A off \in DOMAIN With(regs, at, word) : off \in Nat /\ off % 4 = 0
           /\ \A off : Word(With(regs, at, word), off) = IF Aligned4(off) = at THEN word ELSE Word(regs, off)
<1>1. Aligned4(at) = at
  BY Offsets
<1> DEFINE new == With(regs, at, word)
<1>2. new = [o \in DOMAIN regs \cup {at} |-> IF o = at THEN word ELSE regs[o]]
  BY <1>1 DEF With
<1> HIDE DEF new
<1>3. DOMAIN new = DOMAIN regs \cup {at} /\ \A o \in DOMAIN new : new[o] = IF o = at THEN word ELSE regs[o]
  BY <1>2
<1>4. new \in [DOMAIN new -> Words]
  BY <1>2, <1>3
<1>5. \A off \in DOMAIN new : off \in Nat /\ off % 4 = 0
  BY <1>3
<1>6. ASSUME NEW off PROVE Word(new, off) = IF Aligned4(off) = at THEN word ELSE Word(regs, off)
  BY <1>3 DEF Word
<1> QED BY <1>4, <1>5, <1>6 DEF new

(* Bits of a half. *)
LEMMA OneMessageIs ==
    ASSUME NEW v \in Nat
    PROVE  \E h \in Nat, r \in Nat : /\ r <= 15 /\ OneMessage(v) = 128 * h + r
                                     /\ r % 2 = v % 2 /\ 128 * h + r <= v /\ v \div 128 = h
<1>1. PICK k \in Nat, r \in 0..15 : v = 16 * k + r
  <2>1. PICK k \in Nat, r \in 0..15 : k = v \div 16 /\ r = v % 16
    OBVIOUS
  <2> QED BY <2>1
<1>2. PICK h \in Nat, a \in 0..1, b \in 0..1, c \in 0..1 : k = 8 * h + 4 * a + 2 * b + c
  <2>1. \A n \in Nat : \E m \in Nat, t \in 0..1 : n = 2 * m + t
    <3>1. TAKE n \in Nat
    <3>2. n \div 2 \in Nat /\ n % 2 \in 0..1 /\ n = 2 * (n \div 2) + (n % 2)
      OBVIOUS
    <3> QED BY <3>2
  <2>2. PICK k5 \in Nat, c \in 0..1 : k = 2 * k5 + c
    BY <2>1
  <2>3. PICK k6 \in Nat, b \in 0..1 : k5 = 2 * k6 + b
    BY <2>1
  <2>4. PICK h \in Nat, a \in 0..1 : k6 = 2 * h + a
    BY <2>1
  <2> QED BY <2>2, <2>3, <2>4
<1>3. WithoutBit(v, 16) = 16 * (8 * h + 4 * a + 2 * b) + r
  <2>1. v \div 16 = k /\ k % 2 = c
    BY <1>1, <1>2
  <2> QED BY <1>1, <1>2, <2>1 DEF WithoutBit, Bit
<1>4. WithoutBit(16 * (8 * h + 4 * a + 2 * b) + r, 32) = 16 * (8 * h + 4 * a) + r
  <2>1. (16 * (8 * h + 4 * a + 2 * b) + r) \div 32 = 4 * h + 2 * a + b /\ (4 * h + 2 * a + b) % 2 = b
    OBVIOUS
  <2> QED BY <2>1 DEF WithoutBit, Bit
<1>5. WithoutBit(16 * (8 * h + 4 * a) + r, 64) = 128 * h + r
  <2>1. (16 * (8 * h + 4 * a) + r) \div 64 = 2 * h + a /\ (2 * h + a) % 2 = a
    OBVIOUS
  <2> QED BY <2>1 DEF WithoutBit, Bit
<1>6. OneMessage(v) = 128 * h + r
  BY <1>3, <1>4, <1>5 DEF OneMessage
<1>7. r % 2 = v % 2 /\ 128 * h + r <= v
  BY <1>1, <1>2
<1>8. v \div 128 = h
  <2>1. v = 128 * h + 64 * a + 32 * b + 16 * c + r
    BY <1>1, <1>2
  <2> QED BY <2>1
<1> QED BY <1>6, <1>7, <1>8

LEMMA OneMessageFixed ==
    ASSUME NEW h \in Nat, NEW r \in Nat, r <= 15
    PROVE  OneMessage(128 * h + r) = 128 * h + r /\ (Is64(128 * h + r) <=> h % 2 = 1)
<1>1. PICK v \in Nat : v = 128 * h + r
  OBVIOUS
<1>2. (v \div 16) % 2 = 0 /\ (v \div 32) % 2 = 0 /\ (v \div 64) % 2 = 0 /\ v \div 128 = h
  BY <1>1
<1>3. WithoutBit(v, 16) = v /\ WithoutBit(v, 32) = v /\ WithoutBit(v, 64) = v
  BY <1>2 DEF WithoutBit, Bit
<1> QED BY <1>1, <1>2, <1>3 DEF OneMessage, Is64, Bit

(* What install_interrupt makes of a control word. *)
LEMMA ControlWords ==
    ASSUME NEW v \in HalfWords
    PROVE  /\ WithoutBit(v, 1) \in HalfWords /\ Bit(WithoutBit(v, 1), 1) = 0
           /\ Bit(v, 1) = 0 =>
                /\ OneMessage(v) \in HalfWords /\ Bit(OneMessage(v), 1) = 0
                /\ OneMessage(OneMessage(v)) = OneMessage(v)
           /\ Bit(v, 1) = 0 /\ OneMessage(v) = v =>
                /\ WithBit(v, 1) \in HalfWords /\ OneMessage(WithBit(v, 1)) = WithBit(v, 1)
                /\ Is64(WithBit(v, 1)) <=> Is64(v)
<1>1. v \in Nat /\ v <= 65535 /\ Bit(v, 1) = v % 2
  BY HalfIs DEF Bit
<1>2. WithoutBit(v, 1) \in HalfWords /\ Bit(WithoutBit(v, 1), 1) = 0
  <2>1. PICK w \in Nat : w = WithoutBit(v, 1) /\ w <= v /\ w % 2 = 0
    BY <1>1 DEF WithoutBit
  <2>2. w \in HalfWords /\ Bit(w, 1) = 0
    BY <1>1, <2>1, IsHalf DEF Bit
  <2> QED BY <2>1, <2>2
<1>3. PICK h \in Nat, r \in Nat :
        r <= 15 /\ OneMessage(v) = 128 * h + r /\ r % 2 = v % 2 /\ 128 * h + r <= v /\ v \div 128 = h
  <2>1. v \in Nat
    BY <1>1
  <2> QED BY <2>1, OneMessageIs, Zenon
<1>4. ASSUME Bit(v, 1) = 0
      PROVE  /\ OneMessage(v) \in HalfWords /\ Bit(OneMessage(v), 1) = 0
             /\ OneMessage(OneMessage(v)) = OneMessage(v)
  <2>1. PICK w \in Nat : w = OneMessage(v) /\ w = 128 * h + r
    BY <1>3
  <2>2. w <= 65535 /\ w % 2 = 0
    BY <1>1, <1>3, <1>4, <2>1
  <2>3. OneMessage(w) = w
    BY <1>3, <2>1, OneMessageFixed
  <2>4. w \in HalfWords /\ Bit(w, 1) = 0
    BY <2>2, IsHalf DEF Bit
  <2> QED BY <2>1, <2>3, <2>4
<1>5. ASSUME Bit(v, 1) = 0, OneMessage(v) = v
      PROVE  /\ WithBit(v, 1) \in HalfWords /\ OneMessage(WithBit(v, 1)) = WithBit(v, 1)
             /\ Is64(WithBit(v, 1)) <=> Is64(v)
  <2>1. v = 128 * h + r /\ r % 2 = 0
    BY <1>1, <1>3, <1>5
  <2>2. PICK s \in Nat : s = r + 1 /\ s <= 15
    BY <1>3, <2>1
  <2>3. PICK w \in Nat : w = WithBit(v, 1) /\ w = v + 1
    BY <1>1, <1>5 DEF WithBit
  <2>4. w = 128 * h + s
    BY <2>1, <2>2, <2>3
  <2>5. OneMessage(w) = w /\ (Is64(w) <=> h % 2 = 1)
    BY <2>2, <2>4, OneMessageFixed
  <2>6. Is64(v) <=> h % 2 = 1
    BY <1>3, <2>1, OneMessageFixed
  <2>7. w <= 65535
    BY <1>1, <1>5, <2>3
  <2>8. w \in HalfWords
    BY <2>7, IsHalf
  <2> QED BY <2>3, <2>5, <2>6, <2>8
<1> QED BY <1>2, <1>4, <1>5

Splits(v, k, t, s) == v = 2048 * k + 1024 * t + s /\ s <= 1023
LEMMA BitIs ==
    ASSUME NEW k \in Nat, NEW t \in 0..1, NEW s \in Nat, NEW v \in Nat, Splits(v, k, t, s)
    PROVE  Bit(v, 1024) = t
<1>1. v \div 1024 = 2 * k + t /\ (2 * k + t) % 2 = t
  BY DEF Splits
<1> QED BY <1>1 DEF Bit

(* The pin stays off when the card becomes a bus master. *)
LEMMA CommandWords ==
    ASSUME NEW v \in HalfWords
    PROVE  /\ WithBit(v, 1024) \in HalfWords /\ Bit(WithBit(v, 1024), 1024) = 1
           /\ WithBit(WithBit(v, 4), 1) \in HalfWords
           /\ Bit(v, 1024) = 1 => Bit(WithBit(WithBit(v, 4), 1), 1024) = 1
<1>1. v \in Nat /\ v <= 65535
  BY HalfIs
<1>2. PICK k \in Nat, t \in 0..1, r \in Nat : v = 2048 * k + 1024 * t + r /\ r <= 1023 /\ k <= 31
  <2>1. PICK n \in Nat, r \in Nat : n = v \div 1024 /\ r = v % 1024
    BY <1>1
  <2>2. v = 1024 * n + r /\ r <= 1023 /\ n <= 63
    BY <1>1, <2>1
  <2>3. PICK k \in Nat, t \in 0..1 : k = n \div 2 /\ t = n % 2
    OBVIOUS
  <2>4. n = 2 * k + t
    BY <2>3
  <2> QED BY <2>2, <2>4
<1>3. Bit(v, 1024) = t
  <2>1. Splits(v, k, t, r)
    BY <1>2 DEF Splits
  <2> QED BY <1>1, <2>1, BitIs
<1>4. PICK w \in Nat : w = WithBit(v, 1024) /\ w = 2048 * k + 1024 + r
  <2>1. Bit(v, 1024) = t
    BY <1>2, <1>3
  <2>2. CASE t = 1
    <3>1. v = 2048 * k + 1024 + r
      BY <1>2, <2>2
    <3>2. WithBit(v, 1024) = v
      BY <2>1, <2>2 DEF WithBit
    <3> QED BY <3>1, <3>2
  <2>3. CASE t = 0
    <3>1. v = 2048 * k + r
      BY <1>2, <2>3
    <3>2. WithBit(v, 1024) = v + 1024
      BY <2>1, <2>3 DEF WithBit
    <3>3. v + 1024 \in Nat /\ v + 1024 = 2048 * k + 1024 + r
      BY <1>1, <1>2, <3>1
    <3> QED BY <3>2, <3>3
  <2> QED BY <2>2, <2>3
<1>5. w \in HalfWords /\ Bit(w, 1024) = 1
  <2>1. w <= 65535
    BY <1>2, <1>4
  <2>2. w \div 1024 = 2 * k + 1 /\ (2 * k + 1) % 2 = 1
    BY <1>2, <1>4
  <2> QED BY <2>1, <2>2, IsHalf DEF Bit
<1>6. PICK j \in Nat, c \in 0..1, q \in Nat : r = 8 * j + 4 * c + q /\ q <= 3 /\ j <= 127
  <2>1. PICK n \in Nat, q \in Nat : n = r \div 4 /\ q = r % 4
    OBVIOUS
  <2>2. r = 4 * n + q /\ q <= 3 /\ n <= 255
    BY <1>2, <2>1
  <2>3. PICK j \in Nat, c \in 0..1 : j = n \div 2 /\ c = n % 2
    OBVIOUS
  <2>4. n = 2 * j + c
    BY <2>3
  <2> QED BY <2>2, <2>4
<1>7. WithBit(v, 4) = 2048 * k + 1024 * t + 8 * j + 4 + q
  <2>1. v \div 4 = 512 * k + 256 * t + 2 * j + c /\ (512 * k + 256 * t + 2 * j + c) % 2 = c
    BY <1>2, <1>6
  <2>2. Bit(v, 4) = c
    BY <2>1 DEF Bit
  <2> QED BY <1>2, <1>6, <2>2 DEF WithBit
<1>8. PICK p \in Nat : p <= 3 /\ WithBit(WithBit(v, 4), 1) = 2048 * k + 1024 * t + 8 * j + 4 + p
  <2>1. PICK x \in Nat : x = WithBit(v, 4) /\ x = 2048 * k + 1024 * t + 8 * j + 4 + q
    BY <1>7
  <2>2. Bit(x, 1) = q % 2
    BY <2>1 DEF Bit
  <2>3. PICK p \in Nat : p = (IF q % 2 = 1 THEN q ELSE q + 1) /\ p <= 3
    BY <1>6
  <2>4. WithBit(x, 1) = 2048 * k + 1024 * t + 8 * j + 4 + p
    BY <2>1, <2>2, <2>3 DEF WithBit
  <2>5. WithBit(WithBit(v, 4), 1) = 2048 * k + 1024 * t + 8 * j + 4 + p
    <3>1. WithBit(WithBit(v, 4), 1) = WithBit(x, 1)
      BY <2>1
    <3> QED BY <2>4, <3>1
  <2>6. p <= 3
    BY <2>3
  <2> QED BY <2>5, <2>6
<1>9. PICK y \in Nat, s \in Nat : y = WithBit(WithBit(v, 4), 1) /\ s = 8 * j + 4 + p /\ y = 2048 * k + 1024 * t + s /\ s <= 1023
  BY <1>6, <1>8
<1>10. y \in HalfWords /\ (Bit(v, 1024) = 1 => Bit(y, 1024) = 1)
  <2>1. y <= 65535
    BY <1>2, <1>9
  <2>2. Bit(y, 1024) = t
    <3>1. Splits(y, k, t, s)
      BY <1>9 DEF Splits
    <3> QED BY <3>1, BitIs
  <2>3. Bit(v, 1024) = t /\ Bit(y, 1024) = t
    BY <1>3, <2>2
  <2> QED BY <2>1, <2>3, IsHalf
<1> QED BY <1>4, <1>5, <1>9, <1>10

(* Bit 128 of a control word, which nothing changes. *)
LEMMA Is64Kept ==
    ASSUME NEW v \in HalfWords
    PROVE  /\ Is64(WithoutBit(v, 1)) <=> Is64(v)
           /\ Is64(OneMessage(v)) <=> Is64(v)
<1>1. v \in Nat
  BY HalfIs
<1>2. Is64(WithoutBit(v, 1)) <=> Is64(v)
  <2>1. Bit(v, 1) = v % 2
    BY <1>1 DEF Bit
  <2>2. PICK n \in Nat, t \in 0..1 : v = 2 * n + t /\ v % 2 = t
    <3>1. PICK n \in Nat, t \in 0..1 : n = v \div 2 /\ t = v % 2
      BY <1>1
    <3> QED BY <1>1, <3>1
  <2>3. WithoutBit(v, 1) = 2 * n
    BY <2>1, <2>2 DEF WithoutBit
  <2>4. v \div 128 = n \div 64 /\ (2 * n) \div 128 = n \div 64
    BY <2>2
  <2> QED BY <2>3, <2>4 DEF Is64, Bit
<1>3. Is64(OneMessage(v)) <=> Is64(v)
  <2>1. PICK h \in Nat, r \in Nat : /\ r <= 15 /\ OneMessage(v) = 128 * h + r
                                    /\ r % 2 = v % 2 /\ 128 * h + r <= v /\ v \div 128 = h
    BY <1>1, OneMessageIs, Zenon
  <2>2. OneMessage(v) \div 128 = h
    BY <2>1
  <2> QED BY <2>1, <2>2 DEF Is64, Bit
<1> QED BY <1>2, <1>3

Listed(regs) == {Capabilities(regs)[hop] : hop \in Hops} \ {0}

LEMMA MsiOffsetIs ==
    ASSUME NEW regs, Aligned(regs)
    PROVE  MsiOffset(regs) = 0 \/ MsiOffset(regs) \in Listed(regs)
<1> DEFINE caps == Capabilities(regs)
           found == {hop \in 0..MaxHops - 1 : caps[hop] # 0 /\ ByteOfWord(regs, caps[hop]) = 5}
<1>1. CASE found = {}
  BY <1>1 DEF MsiOffset
<1>2. CASE found # {}
  <2>1. found \subseteq Nat
    BY DEF MaxHops
  <2> HIDE DEF caps
  <2>2. Min(found) \in found
    BY <1>2, <2>1, Least DEF Min
  <2>3. MsiOffset(regs) = caps[Min(found)]
    BY <1>2 DEF MsiOffset, caps
  <2> HIDE DEF found
  <2>4. Min(found) \in Hops /\ caps[Min(found)] # 0
    BY <2>2 DEF found, Hops
  <2> QED BY <2>3, <2>4 DEF Listed, caps
<1> QED BY <1>1, <1>2

LEMMA CapabilitiesIs ==
    ASSUME NEW regs, Aligned(regs)
    PROVE  /\ ByteOfWord(regs, 52) \in Bytes
           /\ [cap \in Bytes |-> ByteOfWord(regs, cap + 1)] \in [Bytes -> Bytes]
           /\ Capabilities(regs) = Chain(ByteOfWord(regs, 52), [cap \in Bytes |-> ByteOfWord(regs, cap + 1)])
           /\ Capabilities(regs) \in [Hops -> Bytes]
<1>1. ByteOfWord(regs, 52) \in Bytes
  BY WordIs DEF Aligned
<1>2. \A cap \in Bytes : ByteOfWord(regs, cap + 1) \in Bytes
  <2>1. TAKE cap \in Bytes
  <2>2. cap + 1 \in Nat
    BY DEF Bytes
  <2> QED BY <2>2, WordIs DEF Aligned
<1>3. [cap \in Bytes |-> ByteOfWord(regs, cap + 1)] \in [Bytes -> Bytes]
  BY <1>2
<1>4. Capabilities(regs) = Chain(ByteOfWord(regs, 52), [cap \in Bytes |-> ByteOfWord(regs, cap + 1)])
  BY DEF Capabilities, Bytes
<1> QED BY <1>1, <1>3, <1>4, ChainIs

(* Two sets of registers with the same list of capabilities. *)
LEMMA ListSame ==
    ASSUME NEW r, NEW s, Aligned(r), Aligned(s), Half(s, 52) = Half(r, 52),
           \A cap \in Listed(r) : cap % 4 = 0 /\ Half(s, cap) = Half(r, cap)
    PROVE  Capabilities(s) = Capabilities(r) /\ MsiOffset(s) = MsiOffset(r)
<1> DEFINE first == ByteOfWord(r, 52)
           next == [cap \in Bytes |-> ByteOfWord(r, cap + 1)]
           next2 == [cap \in Bytes |-> ByteOfWord(s, cap + 1)]
<1>1. ByteOfWord(s, 52) = first
  BY DEF ByteOfWord
<1>2. first \in Bytes /\ next \in [Bytes -> Bytes] /\ next2 \in [Bytes -> Bytes]
  BY CapabilitiesIs
<1>3. Capabilities(r) = Chain(first, next) /\ Capabilities(s) = Chain(first, next2)
  BY <1>1, CapabilitiesIs
<1>4. ASSUME NEW cap \in Bytes, cap % 4 = 0, Half(s, cap) = Half(r, cap)
      PROVE  ByteOfWord(s, cap) = ByteOfWord(r, cap) /\ ByteOfWord(s, cap + 1) = ByteOfWord(r, cap + 1)
  <2>1. cap \in Nat
    BY DEF Bytes
  <2>2. /\ Half(s, cap) = Word(s, cap)[1] /\ Half(s, cap + 1) = Word(s, cap + 1)[1]
        /\ Half(r, cap) = Word(r, cap)[1] /\ Half(r, cap + 1) = Word(r, cap + 1)[1]
    BY <1>4, <2>1, Offsets DEF Half
  <2>3. Word(s, cap + 1) = Word(s, cap) /\ Word(r, cap + 1) = Word(r, cap)
    BY <1>4, <2>1, Offsets DEF Word
  <2>4. Half(s, cap + 1) = Half(r, cap + 1)
    BY <1>4, <2>2, <2>3
  <2> QED BY <1>4, <2>4 DEF ByteOfWord
<1>5. \A hop \in Hops : Capabilities(r)[hop] # 0 =>
         LET cap == Capabilities(r)[hop]
         IN ByteOfWord(s, cap) = ByteOfWord(r, cap) /\ next2[cap] = next[cap]
  <2>1. SUFFICES ASSUME NEW hop \in Hops, NEW cap, cap = Capabilities(r)[hop], cap # 0
                 PROVE  ByteOfWord(s, cap) = ByteOfWord(r, cap) /\ next2[cap] = next[cap]
    BY Zenon
  <2>2. cap \in Listed(r) /\ cap \in Bytes
    BY <2>1, CapabilitiesIs DEF Listed
  <2>3. ByteOfWord(s, cap) = ByteOfWord(r, cap) /\ ByteOfWord(s, cap + 1) = ByteOfWord(r, cap + 1)
    BY <1>4, <2>2
  <2> QED BY <2>2, <2>3
<1> HIDE DEF first, next, next2
<1>6. Capabilities(s) = Capabilities(r)
  <2>1. \A hop \in Hops : LET cap == Chain(first, next)[hop] IN cap # 0 => next2[cap] = next[cap]
    BY <1>3, <1>5
  <2> QED BY <1>2, <1>3, <2>1, ChainSame
<1>7. MsiOffset(s) = MsiOffset(r)
  <2> DEFINE foundIn(t) == {hop \in 0..MaxHops - 1 :
                     Capabilities(t)[hop] # 0 /\ ByteOfWord(t, Capabilities(t)[hop]) = 5}
  <2>1. foundIn(s) = foundIn(r)
    BY <1>5, <1>6 DEF Hops
  <2>2. /\ MsiOffset(s) = IF foundIn(s) = {} THEN 0 ELSE Capabilities(s)[Min(foundIn(s))]
        /\ MsiOffset(r) = IF foundIn(r) = {} THEN 0 ELSE Capabilities(r)[Min(foundIn(r))]
    BY DEF MsiOffset
  <2> HIDE DEF foundIn
  <2> QED BY <1>6, <2>1, <2>2
<1> QED BY <1>6, <1>7

(* What install_interrupt may write: the command, the address, the data,   *)
(* and the control word, with the same number of bits.                     *)
Harmless(regs, at, word) ==
    \/ at = 4
    \/ /\ MsiOffset(regs) # 0
       /\ \/ at = MsiOffset(regs) + 4 \/ at = MsiOffset(regs) + 8
          \/ at = MsiOffset(regs) + 12 /\ Is64(Half(regs, MsiOffset(regs) + 2))
          \/ /\ at = MsiOffset(regs) /\ word[1] = Half(regs, at)
             /\ Is64(word[2]) <=> Is64(Half(regs, at + 2))

LEMMA CapabilityIs ==
    ASSUME NEW regs, Aligned(regs), NEW hop \in Hops
    PROVE  Capabilities(regs)[hop] \in Nat
<1>1. Capabilities(regs)[hop] \in Bytes
  BY CapabilitiesIs
<1> QED BY <1>1 DEF Bytes

LEMMA MsiOffsetOk ==
    ASSUME NEW regs, RegistersOk(regs), MsiOffset(regs) # 0
    PROVE  MsiOffset(regs) \in Nat /\ MsiOffset(regs) % 4 = 0 /\ 64 <= MsiOffset(regs)
<1>1. MsiOffset(regs) \in Listed(regs)
  BY MsiOffsetIs DEF RegistersOk
<1>2. PICK hop \in Hops : MsiOffset(regs) = Capabilities(regs)[hop]
  BY <1>1 DEF Listed
<1>3. MsiOffset(regs) \in Nat
  BY <1>2, CapabilityIs DEF RegistersOk
<1> QED BY <1>2, <1>3 DEF RegistersOk, CapabilityOk, Hops

LEMMA WordParts ==
    ASSUME NEW regs, NEW off \in Nat, off % 4 = 0
    PROVE  /\ Word(regs, off + 1) = Word(regs, off) /\ Word(regs, off + 2) = Word(regs, off)
           /\ Half(regs, off) = Word(regs, off)[1] /\ Half(regs, off + 2) = Word(regs, off)[2]
<1>1. Aligned4(off) = off /\ Aligned4(off + 1) = off /\ Aligned4(off + 2) = off
  BY Offsets
<1>2. HalfOf(off) = 1 /\ HalfOf(off + 2) = 2
  BY Offsets
<1>3. Word(regs, off + 1) = Word(regs, off) /\ Word(regs, off + 2) = Word(regs, off)
  BY <1>1 DEF Word
<1> QED BY <1>2, <1>3 DEF Half

(* A harmless write leaves the list of capabilities, and all other words.  *)
LEMMA HarmlessWrite ==
    ASSUME NEW r, RegistersOk(r), NEW at \in Nat, at % 4 = 0, NEW word \in Words,
           Harmless(r, at, word)
    PROVE  /\ RegistersOk(With(r, at, word)) /\ MsiOffset(With(r, at, word)) = MsiOffset(r)
           /\ \A off \in Nat : off % 4 = 0 =>
                 Word(With(r, at, word), off) = IF off = at THEN word ELSE Word(r, off)
<1> DEFINE s == With(r, at, word)
<1>1. Aligned(r) /\ Aligned(s)
  BY WithIs DEF RegistersOk, Aligned
<1>2. \A off \in Nat : off % 4 = 0 => Word(s, off) = IF off = at THEN word ELSE Word(r, off)
  <2>1. \A off : Word(s, off) = IF Aligned4(off) = at THEN word ELSE Word(r, off)
    BY WithIs DEF RegistersOk, Aligned
  <2> HIDE DEF s
  <2>2. ASSUME NEW off \in Nat, off % 4 = 0 PROVE Word(s, off) = IF off = at THEN word ELSE Word(r, off)
    <3>1. Aligned4(off) = off
      BY <2>2, Offsets
    <3> QED BY <2>1, <3>1
  <2> QED BY <2>2
<1> HIDE DEF s
<1>3. PICK msi : msi = MsiOffset(r)
  OBVIOUS
<1>4. msi # 0 => msi \in Nat /\ msi % 4 = 0 /\ 64 <= msi
  BY <1>3, MsiOffsetOk
<1>5. at # 52
  BY <1>3, <1>4 DEF Harmless
<1>6. Half(s, 52) = Half(r, 52)
  <2>1. 52 \in Nat /\ 52 % 4 = 0
    OBVIOUS
  <2>2. Word(s, 52) = Word(r, 52)
    BY <1>2, <1>5, <2>1
  <2> QED BY <2>1, <2>2, WordParts
<1>7. ASSUME NEW cap \in Listed(r)
      PROVE  cap \in Nat /\ cap % 4 = 0 /\ Half(s, cap) = Half(r, cap)
  <2>1. PICK hop \in Hops : cap = Capabilities(r)[hop] /\ cap # 0
    BY DEF Listed
  <2>2. cap \in Nat
    BY <1>1, <2>1, CapabilityIs
  <2>3. cap % 4 = 0 /\ 64 <= cap /\ (cap <= msi \/ DataAt(r, msi) < cap)
    BY <1>3, <2>1 DEF RegistersOk, CapabilityOk, Hops
  <2>4. CASE cap = at
    <3>1. msi # 0
      BY <1>3, <2>3, <2>4 DEF Harmless
    <3>2. at = msi
      BY <1>3, <1>4, <2>2, <2>3, <2>4, <3>1 DEF Harmless, DataAt
    <3>3. word[1] = Half(r, at)
      BY <1>3, <1>4, <3>1, <3>2 DEF Harmless
    <3>4. Word(s, at) = word
      BY <1>2
    <3> QED BY <2>2, <2>3, <2>4, <3>3, <3>4, WordParts
  <2>5. CASE cap # at
    <3>1. Word(s, cap) = Word(r, cap)
      BY <1>2, <2>2, <2>3, <2>5
    <3> QED BY <2>2, <2>3, <3>1, WordParts
  <2> QED BY <2>4, <2>5
<1>8. Capabilities(s) = Capabilities(r) /\ MsiOffset(s) = MsiOffset(r)
  BY <1>1, <1>6, <1>7, ListSame
<1>9. msi # 0 => DataAt(s, msi) = DataAt(r, msi)
  <2>1. SUFFICES ASSUME msi # 0 PROVE Is64(Half(s, msi + 2)) <=> Is64(Half(r, msi + 2))
    BY DEF DataAt
  <2>2. CASE at = msi
    <3>1. Word(s, msi) = word
      BY <1>2, <2>2
    <3>2. Half(s, msi + 2) = word[2]
      BY <1>4, <2>1, <3>1, WordParts
    <3>3. Is64(word[2]) <=> Is64(Half(r, msi + 2))
      BY <1>3, <1>4, <2>1, <2>2 DEF Harmless
    <3> QED BY <3>2, <3>3
  <2>3. CASE at # msi
    <3>1. Word(s, msi) = Word(r, msi)
      BY <1>2, <1>4, <2>1, <2>3
    <3> QED BY <1>4, <2>1, <3>1, WordParts
  <2> QED BY <2>2, <2>3
<1>10. RegistersOk(s)
  <2>1. ASSUME NEW hop \in 0..MaxHops - 1, Capabilities(s)[hop] # 0
        PROVE  CapabilityOk(s, Capabilities(s)[hop], MsiOffset(s))
    <3>1. PICK cap : cap = Capabilities(r)[hop]
      OBVIOUS
    <3>2. CapabilityOk(r, cap, msi)
      BY <1>3, <1>8, <2>1, <3>1 DEF RegistersOk
    <3>3. CapabilityOk(s, cap, msi)
      <4>1. CASE msi # 0
        BY <1>9, <3>2, <4>1 DEF CapabilityOk
      <4>2. CASE msi = 0
        <5>1. cap \in Nat
          BY <1>1, <3>1, CapabilityIs DEF Hops
        <5>2. DataAt(s, 0) \in {8, 12}
          BY DEF DataAt
        <5> QED BY <3>2, <4>2, <5>1, <5>2 DEF CapabilityOk
      <4> QED BY <4>1, <4>2
    <3> QED BY <1>3, <1>8, <3>1, <3>3
  <2> QED BY <1>1, <2>1 DEF RegistersOk
<1> QED BY <1>2, <1>8, <1>10 DEF s

LEMMA NoFunctionAligned == Aligned(NoFunction)
<1> DEFINE D == {4 * n : n \in 0..63}
<1>1. <<65535, 65535>> \in Words
  BY DEF Words, HalfWords
<1>2. DOMAIN NoFunction = D /\ NoFunction \in [D -> Words]
  BY <1>1 DEF NoFunction
<1>3. \A off \in D : off \in Nat /\ off % 4 = 0
  OBVIOUS
<1> HIDE DEF D
<1> QED BY <1>2, <1>3 DEF Aligned

LEMMA NoFunctionNone == MsiOffset(NoFunction) = 0
<1>1. Aligned(NoFunction)
  BY NoFunctionAligned
<1>2. ASSUME NEW b \in Bytes PROVE ByteOfWord(NoFunction, b) # 5
  <2>1. b \in Nat /\ b <= 255
    BY DEF Bytes
  <2>2. PICK k \in Nat : k = b \div 4 /\ k <= 63 /\ Aligned4(b) = 4 * k
    BY <2>1 DEF Aligned4
  <2>3. Word(NoFunction, b) = <<65535, 65535>>
    BY <2>2 DEF Word, NoFunction
  <2>4. Half(NoFunction, b) = 65535
    BY <2>1, <2>3, Offsets DEF Half
  <2>5. (65535 \div 256) % 256 = 255 /\ (65535 \div 1) % 256 = 255
    OBVIOUS
  <2> QED BY <2>4, <2>5 DEF ByteOfWord
<1>3. \A hop \in Hops : Capabilities(NoFunction)[hop] \in Bytes
  BY <1>1, CapabilitiesIs
<1>4. {hop \in 0..MaxHops - 1 : Capabilities(NoFunction)[hop] # 0
                                 /\ ByteOfWord(NoFunction, Capabilities(NoFunction)[hop]) = 5} = {}
  BY <1>2, <1>3 DEF Hops
<1> QED BY <1>4 DEF MsiOffset

LEMMA WithHalfIs ==
    ASSUME NEW regs, Aligned(regs), NEW off \in Nat, off % 4 = 0, NEW value \in HalfWords
    PROVE  /\ WithHalf(regs, off, value) = With(regs, off, <<value, Word(regs, off)[2]>>)
           /\ WithHalf(regs, off + 2, value) = With(regs, off, <<Word(regs, off)[1], value>>)
           /\ <<value, Word(regs, off)[2]>> \in Words /\ <<Word(regs, off)[1], value>> \in Words
<1>1. PICK a \in HalfWords, b \in HalfWords : Word(regs, off) = <<a, b>>
  <2>1. Word(regs, off) \in Words
    BY WordIs DEF Aligned
  <2> QED BY <2>1 DEF Words
<1>2. Word(regs, off + 2) = <<a, b>>
  BY <1>1, WordParts
<1>3. HalfOf(off) = 1 /\ HalfOf(off + 2) = 2 /\ Aligned4(off) = off /\ Aligned4(off + 2) = off
  BY Offsets
<1>4. With(regs, off + 2, <<a, value>>) = With(regs, off, <<a, value>>)
  BY <1>3 DEF With
<1>5. [<<a, b>> EXCEPT ![1] = value] = <<value, b>> /\ [<<a, b>> EXCEPT ![2] = value] = <<a, value>>
  OBVIOUS
<1>6. WithHalf(regs, off, value) = With(regs, off, <<value, b>>)
  BY <1>1, <1>3, <1>5 DEF WithHalf
<1>7. WithHalf(regs, off + 2, value) = With(regs, off, <<a, value>>)
  BY <1>2, <1>3, <1>4, <1>5 DEF WithHalf
<1> QED BY <1>1, <1>6, <1>7 DEF Words

(* How far install_interrupt has come with a function's registers. *)
Progress(regs, cap, control, irq, step) ==
    /\ control \in HalfWords /\ Bit(control, 1) = 0
    /\ Is64(control) <=> Is64(Half(regs, cap + 2))
    /\ step # "off" => Bit(Half(regs, cap + 2), 1) = 0
    /\ step \in {"data", "intx", "handler", "on"} =>
          OneMessage(control) = control /\ Word(regs, cap + 4) = ApicBase
    /\ step \in {"intx", "handler", "on"} => Half(regs, DataAt(regs, cap)) = irq + 32
    /\ step \in {"handler", "on"} => Bit(Half(regs, 4), 1024) = 1

Progressed(old, new, cap, control, irq, step) ==
    RegistersOk(new) /\ MsiOffset(new) = cap /\ Progress(new, cap, control, irq, step)

LEMMA Begun ==
    ASSUME NEW regs, RegistersOk(regs), NEW cap, cap = MsiOffset(regs), cap # 0, NEW irq
    PROVE  Progress(regs, cap, WithoutBit(Half(regs, cap + 2), 1), irq, "off")
<1>1. cap \in Nat
  BY MsiOffsetOk
<1>2. cap + 2 \in Nat
  BY <1>1
<1>3. PICK v \in HalfWords : v = Half(regs, cap + 2)
  BY <1>2, WordIs DEF RegistersOk, Aligned
<1>4. /\ WithoutBit(v, 1) \in HalfWords /\ Bit(WithoutBit(v, 1), 1) = 0
      /\ Is64(WithoutBit(v, 1)) <=> Is64(v)
  BY ControlWords, Is64Kept
<1> QED BY <1>3, <1>4 DEF Progress

LEMMA StepOff ==
    ASSUME NEW r, RegistersOk(r), NEW cap, cap = MsiOffset(r), cap # 0, NEW irq, NEW control,
           Progress(r, cap, control, irq, "off")
    PROVE  Progressed(r, WithHalf(r, cap + 2, control), cap, control, irq, "address")
<1>1. cap \in Nat /\ cap % 4 = 0 /\ 64 <= cap
  BY MsiOffsetOk
<1> DEFINE w == <<Word(r, cap)[1], control>>
           s == With(r, cap, w)
<1>2. control \in HalfWords
  BY DEF Progress
<1>3. WithHalf(r, cap + 2, control) = s /\ w \in Words
  BY <1>1, <1>2, WithHalfIs DEF RegistersOk
<1>4. w[1] = Half(r, cap) /\ w[2] = control
  BY <1>1, WordParts
<1> HIDE DEF w
<1>5. Harmless(r, cap, w)
  BY <1>4 DEF Harmless, Progress
<1>6. RegistersOk(s) /\ MsiOffset(s) = cap /\ Word(s, cap) = w
  BY <1>1, <1>3, <1>5, HarmlessWrite
<1> HIDE DEF s
<1>7. Half(s, cap + 2) = control
  BY <1>1, <1>4, <1>6, WordParts
<1>8. Progress(s, cap, control, irq, "address")
  BY <1>7 DEF Progress
<1> QED BY <1>3, <1>6, <1>8 DEF Progressed

LEMMA StepAddress ==
    ASSUME NEW r, RegistersOk(r), NEW cap, cap = MsiOffset(r), cap # 0, NEW irq, NEW control,
           Progress(r, cap, control, irq, "address"), ApicBase \in Words
    PROVE  Progressed(r, With(r, cap + 4, ApicBase), cap, OneMessage(control), irq, "data")
<1>1. cap \in Nat /\ cap % 4 = 0 /\ 64 <= cap
  BY MsiOffsetOk
<1> DEFINE s == With(r, cap + 4, ApicBase)
<1>2. cap + 4 \in Nat /\ (cap + 4) % 4 = 0 /\ cap + 4 # cap
  BY <1>1
<1>3. Harmless(r, cap + 4, ApicBase)
  BY DEF Harmless
<1>4. RegistersOk(s) /\ MsiOffset(s) = cap /\ Word(s, cap + 4) = ApicBase /\ Word(s, cap) = Word(r, cap)
  BY <1>1, <1>2, <1>3, HarmlessWrite
<1> HIDE DEF s
<1>5. Half(s, cap + 2) = Half(r, cap + 2)
  BY <1>1, <1>4, WordParts
<1>6. control \in HalfWords /\ Bit(control, 1) = 0
  BY DEF Progress
<1>7. /\ OneMessage(control) \in HalfWords /\ Bit(OneMessage(control), 1) = 0
      /\ OneMessage(OneMessage(control)) = OneMessage(control)
      /\ Is64(OneMessage(control)) <=> Is64(control)
  BY <1>6, ControlWords, Is64Kept
<1>8. Progress(s, cap, OneMessage(control), irq, "data")
  BY <1>4, <1>5, <1>7 DEF Progress
<1> QED BY <1>4, <1>8 DEF Progressed, s

LEMMA StepData ==
    ASSUME NEW r, RegistersOk(r), NEW cap, cap = MsiOffset(r), cap # 0, NEW irq, NEW control,
           Progress(r, cap, control, irq, "data"), irq + 32 \in HalfWords
    PROVE  Progressed(r, IF Is64(control)
                         THEN WithHalf(With(r, cap + 8, <<0, 0>>), cap + 12, irq + 32)
                         ELSE WithHalf(r, cap + 8, irq + 32), cap, control, irq, "intx")
<1>1. cap \in Nat /\ cap % 4 = 0 /\ 64 <= cap
  BY MsiOffsetOk
<1>2. /\ cap + 4 \in Nat /\ (cap + 4) % 4 = 0 /\ cap + 8 \in Nat /\ (cap + 8) % 4 = 0
      /\ cap + 12 \in Nat /\ (cap + 12) % 4 = 0
  BY <1>1
<1>3. Is64(control) <=> Is64(Half(r, cap + 2))
  BY DEF Progress
<1> DEFINE vector == irq + 32
<1>4. CASE Is64(control)
  <2> DEFINE s == With(r, cap + 8, <<0, 0>>)
             w == <<vector, Word(s, cap + 12)[2]>>
             t == With(s, cap + 12, w)
  <2>1. <<0, 0>> \in Words
    BY DEF Words, HalfWords
  <2>2. Harmless(r, cap + 8, <<0, 0>>)
    BY DEF Harmless
  <2>3. /\ RegistersOk(s) /\ MsiOffset(s) = cap
        /\ Word(s, cap) = Word(r, cap) /\ Word(s, cap + 4) = Word(r, cap + 4)
    BY <1>1, <1>2, <2>1, <2>2, HarmlessWrite
  <2> HIDE DEF s
  <2>4. Half(s, cap + 2) = Half(r, cap + 2)
    BY <1>1, <2>3, WordParts
  <2>5. WithHalf(s, cap + 12, vector) = t /\ w \in Words
    BY <1>2, <2>3, WithHalfIs DEF RegistersOk
  <2>6. w[1] = vector
    OBVIOUS
  <2> HIDE DEF w
  <2>7. Harmless(s, cap + 12, w)
    BY <1>3, <1>4, <2>3, <2>4 DEF Harmless
  <2>8. /\ RegistersOk(t) /\ MsiOffset(t) = cap /\ Word(t, cap + 12) = w
        /\ Word(t, cap) = Word(s, cap) /\ Word(t, cap + 4) = Word(s, cap + 4)
    BY <1>1, <1>2, <2>3, <2>5, <2>7, HarmlessWrite
  <2> HIDE DEF t
  <2>9. Half(t, cap + 2) = Half(r, cap + 2) /\ Half(t, cap + 12) = vector
    BY <1>1, <1>2, <2>3, <2>6, <2>8, WordParts
  <2>10. DataAt(t, cap) = cap + 12
    BY <1>3, <1>4, <2>9 DEF DataAt
  <2>11. Progress(t, cap, control, irq, "intx")
    BY <2>3, <2>8, <2>9, <2>10 DEF Progress
  <2> QED BY <1>4, <2>5, <2>8, <2>11 DEF Progressed, s
<1>5. CASE ~Is64(control)
  <2> DEFINE w == <<vector, Word(r, cap + 8)[2]>>
             t == With(r, cap + 8, w)
  <2>1. WithHalf(r, cap + 8, vector) = t /\ w \in Words
    BY <1>2, WithHalfIs DEF RegistersOk
  <2>2. w[1] = vector
    OBVIOUS
  <2> HIDE DEF w
  <2>3. Harmless(r, cap + 8, w)
    BY DEF Harmless
  <2>4. /\ RegistersOk(t) /\ MsiOffset(t) = cap /\ Word(t, cap + 8) = w
        /\ Word(t, cap) = Word(r, cap) /\ Word(t, cap + 4) = Word(r, cap + 4)
    BY <1>1, <1>2, <2>1, <2>3, HarmlessWrite
  <2> HIDE DEF t
  <2>5. Half(t, cap + 2) = Half(r, cap + 2) /\ Half(t, cap + 8) = vector
    BY <1>1, <1>2, <2>2, <2>4, WordParts
  <2>6. DataAt(t, cap) = cap + 8
    BY <1>3, <1>5, <2>5 DEF DataAt
  <2>7. Progress(t, cap, control, irq, "intx")
    BY <2>4, <2>5, <2>6 DEF Progress
  <2> QED BY <1>5, <2>1, <2>4, <2>7 DEF Progressed
<1> QED BY <1>4, <1>5

LEMMA CommandWrite ==
    ASSUME NEW r, RegistersOk(r), NEW value \in HalfWords, NEW cap, cap = MsiOffset(r)
    PROVE  LET s == WithHalf(r, 4, value)
           IN /\ RegistersOk(s) /\ MsiOffset(s) = cap /\ Half(s, 4) = value
              /\ cap # 0 =>
                    /\ Half(s, cap + 2) = Half(r, cap + 2) /\ Word(s, cap + 4) = Word(r, cap + 4)
                    /\ Half(s, DataAt(s, cap)) = Half(r, DataAt(r, cap))
<1> DEFINE w == <<value, Word(r, 4)[2]>>
           s == With(r, 4, w)
<1>1. 4 \in Nat /\ 4 % 4 = 0
  OBVIOUS
<1>2. WithHalf(r, 4, value) = s /\ w \in Words
  BY <1>1, WithHalfIs DEF RegistersOk
<1>3. w[1] = value
  OBVIOUS
<1> HIDE DEF w
<1>4. Harmless(r, 4, w)
  BY DEF Harmless
<1>5. /\ RegistersOk(s) /\ MsiOffset(s) = cap
      /\ \A off \in Nat : off % 4 = 0 => Word(s, off) = IF off = 4 THEN w ELSE Word(r, off)
  BY <1>1, <1>2, <1>4, HarmlessWrite
<1> HIDE DEF s
<1>6. Half(s, 4) = value
  BY <1>1, <1>3, <1>5, WordParts
<1>7. ASSUME cap # 0
      PROVE  /\ Half(s, cap + 2) = Half(r, cap + 2) /\ Word(s, cap + 4) = Word(r, cap + 4)
             /\ Half(s, DataAt(s, cap)) = Half(r, DataAt(r, cap))
  <2>1. cap \in Nat /\ cap % 4 = 0 /\ 64 <= cap
    BY <1>7, MsiOffsetOk
  <2>2. \A n \in {0, 4, 8, 12} : cap + n \in Nat /\ (cap + n) % 4 = 0 /\ cap + n # 4
    BY <2>1
  <2>3. \A n \in {0, 4, 8, 12} : Word(s, cap + n) = Word(r, cap + n) /\ Half(s, cap + n) = Half(r, cap + n)
    BY <1>5, <2>2, WordParts
  <2>4. Word(s, cap) = Word(r, cap) /\ Word(s, cap + 4) = Word(r, cap + 4)
    BY <2>1, <2>3
  <2>5. Half(s, cap + 2) = Half(r, cap + 2)
    BY <2>1, <2>4, WordParts
  <2>6. DataAt(s, cap) = DataAt(r, cap) /\ DataAt(r, cap) \in {cap + 8, cap + 12}
    BY <2>5 DEF DataAt
  <2>7. Half(s, DataAt(s, cap)) = Half(r, DataAt(r, cap))
    BY <2>3, <2>6
  <2> QED BY <2>4, <2>5, <2>7
<1> QED BY <1>2, <1>5, <1>6, <1>7

LEMMA StepIntx ==
    ASSUME NEW r, RegistersOk(r), NEW cap, cap = MsiOffset(r), cap # 0, NEW irq, NEW control,
           Progress(r, cap, control, irq, "intx")
    PROVE  Progressed(r, WithHalf(r, 4, WithBit(Half(r, 4), 1024)), cap, control, irq, "handler")
<1>1. PICK v \in HalfWords : v = Half(r, 4)
  BY WordIs DEF RegistersOk, Aligned
<1>2. WithBit(v, 1024) \in HalfWords /\ Bit(WithBit(v, 1024), 1024) = 1
  BY CommandWords
<1> DEFINE s == WithHalf(r, 4, WithBit(Half(r, 4), 1024))
<1>3. /\ RegistersOk(s) /\ MsiOffset(s) = cap /\ Bit(Half(s, 4), 1024) = 1
      /\ Half(s, cap + 2) = Half(r, cap + 2) /\ Word(s, cap + 4) = Word(r, cap + 4)
      /\ Half(s, DataAt(s, cap)) = Half(r, DataAt(r, cap))
  BY <1>1, <1>2, CommandWrite
<1> HIDE DEF s
<1>4. Progress(s, cap, control, irq, "handler")
  BY <1>3 DEF Progress
<1> QED BY <1>3, <1>4 DEF Progressed, s

(* Messages that are on are armed, but for the handler of their vector. *)
ArmedRegisters(regs) ==
    LET cap == MsiOffset(regs)
    IN cap # 0 /\ Bit(Half(regs, cap + 2), 1) = 1 =>
           /\ Word(regs, cap + 4) = ApicBase
           /\ Bit(Half(regs, 4), 1024) = 1
           /\ OneMessage(Half(regs, cap + 2)) = Half(regs, cap + 2)

LEMMA StepOn ==
    ASSUME NEW r, RegistersOk(r), NEW cap, cap = MsiOffset(r), cap # 0, NEW irq, NEW control,
           Progress(r, cap, control, irq, "on")
    PROVE  LET s == WithHalf(r, cap + 2, WithBit(control, 1))
           IN RegistersOk(s) /\ MsiOffset(s) = cap /\ ArmedRegisters(s) /\ Half(s, DataAt(s, cap)) = irq + 32
<1>1. cap \in Nat /\ cap % 4 = 0 /\ 64 <= cap
  BY MsiOffsetOk
<1> DEFINE on == WithBit(control, 1)
           w == <<Word(r, cap)[1], on>>
           s == With(r, cap, w)
<1>2. control \in HalfWords /\ Bit(control, 1) = 0 /\ OneMessage(control) = control
  BY DEF Progress
<1>3. on \in HalfWords /\ OneMessage(on) = on /\ (Is64(on) <=> Is64(control))
  BY <1>2, ControlWords
<1> HIDE DEF on
<1>4. WithHalf(r, cap + 2, on) = s /\ w \in Words
  BY <1>1, <1>3, WithHalfIs DEF RegistersOk
<1>5. w[1] = Half(r, cap) /\ w[2] = on
  BY <1>1, WordParts
<1> HIDE DEF w
<1>6. Harmless(r, cap, w)
  BY <1>3, <1>5 DEF Harmless, Progress
<1>7. /\ RegistersOk(s) /\ MsiOffset(s) = cap
      /\ \A off \in Nat : off % 4 = 0 => Word(s, off) = IF off = cap THEN w ELSE Word(r, off)
  BY <1>1, <1>4, <1>6, HarmlessWrite
<1> HIDE DEF s
<1>8. \A n \in {4, 8, 12} : cap + n \in Nat /\ (cap + n) % 4 = 0 /\ cap + n # cap
  BY <1>1
<1>9. \A n \in {4, 8, 12} : Word(s, cap + n) = Word(r, cap + n) /\ Half(s, cap + n) = Half(r, cap + n)
  BY <1>7, <1>8, WordParts
<1>10. Word(s, cap) = w /\ Half(s, cap + 2) = on
  BY <1>1, <1>5, <1>7, WordParts
<1>11. DataAt(s, cap) = DataAt(r, cap) /\ DataAt(r, cap) \in {cap + 8, cap + 12}
  BY <1>3, <1>10 DEF DataAt, Progress
<1>12. Half(s, DataAt(s, cap)) = irq + 32 /\ Word(s, cap + 4) = ApicBase
  BY <1>9, <1>11 DEF Progress
<1>13. Bit(Half(s, 4), 1024) = 1
  <2>1. 4 \in Nat /\ 4 % 4 = 0 /\ 4 # cap
    BY <1>1
  <2>2. Half(s, 4) = Half(r, 4)
    BY <1>7, <2>1, WordParts
  <2> QED BY <2>2 DEF Progress
<1>14. ArmedRegisters(s)
  BY <1>3, <1>7, <1>10, <1>12, <1>13 DEF ArmedRegisters
<1> QED BY <1>4, <1>7, <1>12, <1>14 DEF on

LEMMA BusMaster ==
    ASSUME NEW r, RegistersOk(r)
    PROVE  LET s == WithHalf(r, 4, WithBit(WithBit(Half(r, 4), 4), 1))
           IN /\ RegistersOk(s) /\ MsiOffset(s) = MsiOffset(r)
              /\ ArmedRegisters(r) => ArmedRegisters(s)
              /\ MsiOffset(r) # 0 =>
                    /\ Half(s, MsiOffset(r) + 2) = Half(r, MsiOffset(r) + 2)
                    /\ Half(s, DataAt(s, MsiOffset(r))) = Half(r, DataAt(r, MsiOffset(r)))
<1>1. PICK v \in HalfWords : v = Half(r, 4)
  BY WordIs DEF RegistersOk, Aligned
<1>2. /\ WithBit(WithBit(v, 4), 1) \in HalfWords
      /\ Bit(v, 1024) = 1 => Bit(WithBit(WithBit(v, 4), 1), 1024) = 1
  BY CommandWords
<1> DEFINE s == WithHalf(r, 4, WithBit(WithBit(Half(r, 4), 4), 1))
<1>3. PICK cap : cap = MsiOffset(r)
  OBVIOUS
<1>4. /\ RegistersOk(s) /\ MsiOffset(s) = cap /\ (Bit(Half(r, 4), 1024) = 1 => Bit(Half(s, 4), 1024) = 1)
      /\ cap # 0 =>
            /\ Half(s, cap + 2) = Half(r, cap + 2) /\ Word(s, cap + 4) = Word(r, cap + 4)
            /\ Half(s, DataAt(s, cap)) = Half(r, DataAt(r, cap))
  BY <1>1, <1>2, <1>3, CommandWrite
<1> HIDE DEF s
<1>5. ArmedRegisters(r) => ArmedRegisters(s)
  BY <1>3, <1>4 DEF ArmedRegisters
<1> QED BY <1>3, <1>4, <1>5 DEF s

Handlers(vs, v) == IF v \in DOMAIN vs THEN vs[v] ELSE <<>>
Handled(vs, v, fn) == \E i \in DOMAIN Handlers(vs, v) : Handlers(vs, v)[i] = fn
VectorsOk(vs) == \A v \in DOMAIN vs : vs[v] \in Seq(Int)

(* A function's messages that are on are armed, and handled. *)
ArmedFunction(regs, vs, fn) ==
    /\ ArmedRegisters(regs)
    /\ MsiOffset(regs) # 0 /\ Bit(Half(regs, MsiOffset(regs) + 2), 1) = 1 =>
          Handled(vs, Half(regs, DataAt(regs, MsiOffset(regs))), fn)

MsiSteps == {"off", "address", "data", "intx", "handler", "on"}
Tasks == [step : MsiSteps \cup {"idle"}, fn : Int, cap : Nat, control : HalfWords, irq : Nat]

PinTask(c, t) ==
    /\ t.step = "handler" /\ t.cap = 0
    /\ t.fn \in DOMAIN c => MsiOffset(c[t.fn]) = 0
MsiTask(c, t, vs) ==
    /\ t.step \in MsiSteps
    /\ t.fn \in DOMAIN c /\ t.cap # 0 /\ t.cap = MsiOffset(c[t.fn]) /\ t.irq <= 15
    /\ Progress(c[t.fn], t.cap, t.control, t.irq, t.step)
    /\ t.step = "on" => Handled(vs, t.irq + 32, t.fn)
TaskOk(c, t, vs) == t \in Tasks /\ (t = NoTask \/ PinTask(c, t) \/ MsiTask(c, t, vs))

OthersArmed(c, t, vs, as) ==
    \A fn \in as \cap DOMAIN c : t.fn # fn => ArmedFunction(c[fn], vs, fn)

PciOk(c, t, vs, as) ==
    ConfigOk(c) /\ TaskOk(c, t, vs) /\ VectorsOk(vs) /\ OthersArmed(c, t, vs, as)

(* Who has been asked for and is not installed yet. *)
Pending(t) == IF t.step \in {"idle", "on"} THEN 0 ELSE 1
HandlersUpTo(vs, t, n) == \A v : Len(Handlers(vs, v)) + Pending(t) <= n

LEMMA ConfigChanged ==
    ASSUME NEW c, ConfigOk(c), NEW fn \in DOMAIN c, NEW regs, RegistersOk(regs),
           NEW d, d = [c EXCEPT ![fn] = regs]
    PROVE  /\ ConfigOk(d) /\ DOMAIN d = DOMAIN c /\ d[fn] = regs
           /\ \A other \in DOMAIN c : other # fn => d[other] = c[other]
<1>1. c = [f \in DOMAIN c |-> c[f]]
  BY DEF ConfigOk
<1>2. DOMAIN d = DOMAIN c /\ d[fn] = regs /\ \A other \in DOMAIN c : other # fn => d[other] = c[other]
  BY <1>1
<1>3. d = [f \in DOMAIN d |-> d[f]]
  BY <1>1
<1>4. \A f \in DOMAIN d : RegistersOk(d[f])
  BY <1>2 DEF ConfigOk
<1> QED BY <1>2, <1>3, <1>4 DEF ConfigOk

LEMMA WriteIs ==
    ASSUME NEW fn, NEW off, NEW value, config = [f \in DOMAIN config |-> config[f]]
    PROVE  /\ Written16(fn, off, value) = [config EXCEPT ![fn] = WithHalf(config[fn], off, value)]
           /\ Written32(fn, off, value) = [config EXCEPT ![fn] = With(config[fn], off, value)]
  BY DEF Written16, Written32

(* A task goes on with its own function's registers. *)
LEMMA TaskGoesOn ==
    ASSUME NEW c, NEW t, NEW vs, NEW as, PciOk(c, t, vs, as), NEW n, HandlersUpTo(vs, t, n),
           MsiTask(c, t, vs), t.step # "on",
           NEW regs, NEW d, d = [c EXCEPT ![t.fn] = regs], NEW u \in Tasks,
           u.fn = t.fn, u.cap = t.cap, u.irq = t.irq, u.step \in MsiSteps \ {"on"},
           Progressed(c[t.fn], regs, u.cap, u.control, u.irq, u.step)
    PROVE  PciOk(d, u, vs, as) /\ HandlersUpTo(vs, u, n)
<1>1. RegistersOk(regs) /\ MsiOffset(regs) = u.cap /\ Progress(regs, u.cap, u.control, u.irq, u.step)
  BY DEF Progressed
<1>2. t.fn \in DOMAIN c /\ t.cap # 0 /\ t.irq <= 15
  BY DEF MsiTask
<1>3. /\ ConfigOk(d) /\ DOMAIN d = DOMAIN c /\ d[t.fn] = regs
      /\ \A other \in DOMAIN c : other # t.fn => d[other] = c[other]
  BY <1>1, <1>2, ConfigChanged DEF PciOk
<1>4. MsiTask(d, u, vs)
  BY <1>1, <1>2, <1>3 DEF MsiTask
<1>5. OthersArmed(d, u, vs, as)
  BY <1>3 DEF PciOk, OthersArmed
<1>6. Pending(u) = Pending(t)
  BY DEF Pending, MsiTask, MsiSteps
<1>7. HandlersUpTo(vs, u, n)
  BY <1>6 DEF HandlersUpTo
<1> QED BY <1>3, <1>4, <1>5, <1>7 DEF PciOk, TaskOk

LEMMA TaskIs ==
    ASSUME NEW c, NEW t, NEW vs, NEW as, PciOk(c, t, vs, as), t.step \in MsiSteps, t.step # "handler"
    PROVE  MsiTask(c, t, vs)
  BY DEF PciOk, TaskOk, PinTask, NoTask, MsiSteps

Moved(t, u, step, control) ==
    \/ u = [t EXCEPT !.step = step] /\ control = t.control
    \/ u = [t EXCEPT !.step = step, !.control = control]

LEMMA TaskSteps ==
    ASSUME NEW t \in Tasks, NEW step \in MsiSteps, NEW control \in HalfWords, NEW u,
           Moved(t, u, step, control)
    PROVE  u \in Tasks /\ u.step = step /\ u.fn = t.fn /\ u.cap = t.cap /\ u.irq = t.irq /\ u.control = control
<1>1. PICK st \in MsiSteps \cup {"idle"}, fn \in Int, cap \in Nat, c \in HalfWords, irq \in Nat :
         t = [step |-> st, fn |-> fn, cap |-> cap, control |-> c, irq |-> irq]
  BY DEF Tasks
<1>2. u = [step |-> step, fn |-> fn, cap |-> cap, control |-> control, irq |-> irq]
  BY <1>1 DEF Moved
<1>3. u \in Tasks
  BY <1>2 DEF Tasks
<1>4. t.fn = fn /\ t.cap = cap /\ t.irq = irq
  BY <1>1
<1>5. u.step = step /\ u.fn = fn /\ u.cap = cap /\ u.irq = irq /\ u.control = control
  BY <1>2
<1> QED BY <1>3, <1>4, <1>5

LEMMA GoesOn ==
    ASSUME PciOk(config, task, vectors, asked), NEW n, HandlersUpTo(vectors, task, n),
           MsiTask(config, task, vectors), task.step # "on",
           NEW step \in MsiSteps \ {"on"}, NEW control, Moved(task, task', step, control),
           NEW regs, Progressed(config[task.fn], regs, task.cap, control, task.irq, step),
           config' = [config EXCEPT ![task.fn] = regs], vectors' = vectors
    PROVE  PciOk(config', task', vectors', asked) /\ HandlersUpTo(vectors', task', n)
<1>1. control \in HalfWords
  BY DEF Progressed, Progress
<1>2. task \in Tasks
  BY DEF PciOk, TaskOk
<1>3. PICK u, d : u = task' /\ d = config'
  OBVIOUS
<1>4. Moved(task, u, step, control)
  BY <1>3
<1>5. u \in Tasks /\ u.step = step /\ u.fn = task.fn /\ u.cap = task.cap /\ u.irq = task.irq /\ u.control = control
  BY <1>1, <1>2, <1>4, TaskSteps
<1>6. Progressed(config[task.fn], regs, u.cap, u.control, u.irq, u.step) /\ d = [config EXCEPT ![task.fn] = regs]
  BY <1>3, <1>5
<1>7. PciOk(d, u, vectors, asked) /\ HandlersUpTo(vectors, u, n)
  BY <1>5, <1>6, TaskGoesOn
<1> QED BY <1>3, <1>7

LEMMA OwnRegisters ==
    ASSUME PciOk(config, task, vectors, asked), MsiTask(config, task, vectors)
    PROVE  /\ task.fn \in DOMAIN config /\ RegistersOk(config[task.fn])
           /\ task.cap = MsiOffset(config[task.fn]) /\ task.cap # 0 /\ task.irq \in Nat /\ task.irq <= 15
           /\ task.control \in HalfWords
           /\ Progress(config[task.fn], task.cap, task.control, task.irq, task.step)
           /\ config = [f \in DOMAIN config |-> config[f]]
  BY DEF PciOk, MsiTask, ConfigOk, TaskOk, Tasks

LEMMA MsiOffInv ==
    ASSUME PciOk(config, task, vectors, asked), NEW n, HandlersUpTo(vectors, task, n), MsiOff
    PROVE  PciOk(config', task', vectors', asked) /\ HandlersUpTo(vectors', task', n)
<1>1. task.step = "off" /\ vectors' = vectors /\ Moved(task, task', "address", task.control)
  BY DEF MsiOff, Step, Moved
<1>2. MsiTask(config, task, vectors) /\ "address" \in MsiSteps \ {"on"}
  BY <1>1, TaskIs DEF MsiSteps
<1> DEFINE regs == WithHalf(config[task.fn], task.cap + 2, task.control)
<1>3. Progressed(config[task.fn], regs, task.cap, task.control, task.irq, "address")
  BY <1>1, <1>2, OwnRegisters, StepOff
<1>4. config' = [config EXCEPT ![task.fn] = regs]
  BY <1>2, OwnRegisters, WriteIs DEF MsiOff
<1> HIDE DEF regs
<1> QED BY <1>1, <1>2, <1>3, <1>4, GoesOn

LEMMA MsiAddressInv ==
    ASSUME PciOk(config, task, vectors, asked), NEW n, HandlersUpTo(vectors, task, n), MsiAddress
    PROVE  PciOk(config', task', vectors', asked) /\ HandlersUpTo(vectors', task', n)
<1>1. task.step = "address" /\ vectors' = vectors /\ Moved(task, task', "data", OneMessage(task.control))
  BY DEF MsiAddress, Moved
<1>2. MsiTask(config, task, vectors) /\ "data" \in MsiSteps \ {"on"}
  BY <1>1, TaskIs DEF MsiSteps
<1> DEFINE regs == With(config[task.fn], task.cap + 4, ApicBase)
<1>3. Progressed(config[task.fn], regs, task.cap, OneMessage(task.control), task.irq, "data")
  BY <1>1, <1>2, OwnRegisters, StepAddress, ConfigsAssumption
<1>4. config' = [config EXCEPT ![task.fn] = regs]
  BY <1>2, OwnRegisters, WriteIs DEF MsiAddress
<1> HIDE DEF regs
<1> QED BY <1>1, <1>2, <1>3, <1>4, GoesOn

LEMMA MsiDataInv ==
    ASSUME PciOk(config, task, vectors, asked), NEW n, HandlersUpTo(vectors, task, n), MsiData
    PROVE  PciOk(config', task', vectors', asked) /\ HandlersUpTo(vectors', task', n)
<1>1. task.step = "data" /\ vectors' = vectors /\ Moved(task, task', "intx", task.control)
  BY DEF MsiData, Step, Moved
<1>2. MsiTask(config, task, vectors) /\ "intx" \in MsiSteps \ {"on"}
  BY <1>1, TaskIs DEF MsiSteps
<1> DEFINE regs == IF Is64(task.control)
                   THEN WithHalf(With(config[task.fn], task.cap + 8, <<0, 0>>), task.cap + 12, Vector)
                   ELSE WithHalf(config[task.fn], task.cap + 8, Vector)
<1>3. Progressed(config[task.fn], regs, task.cap, task.control, task.irq, "intx")
  <2>1. task.irq + 32 \in HalfWords
    BY <1>2, OwnRegisters DEF HalfWords
  <2> QED BY <1>1, <1>2, <2>1, OwnRegisters, StepData DEF Vector
<1>4. config' = [config EXCEPT ![task.fn] = regs]
  <2>1. CASE Is64(task.control)
    BY <1>2, <2>1, OwnRegisters DEF MsiData
  <2>2. CASE ~Is64(task.control)
    BY <1>2, <2>2, OwnRegisters, WriteIs DEF MsiData
  <2> QED BY <2>1, <2>2
<1> HIDE DEF regs
<1> QED BY <1>1, <1>2, <1>3, <1>4, GoesOn

LEMMA IntxOffInv ==
    ASSUME PciOk(config, task, vectors, asked), NEW n, HandlersUpTo(vectors, task, n), IntxOff
    PROVE  PciOk(config', task', vectors', asked) /\ HandlersUpTo(vectors', task', n)
<1>1. task.step = "intx" /\ vectors' = vectors /\ Moved(task, task', "handler", task.control)
  BY DEF IntxOff, Step, Moved
<1>2. MsiTask(config, task, vectors) /\ "handler" \in MsiSteps \ {"on"}
  BY <1>1, TaskIs DEF MsiSteps
<1> DEFINE regs == WithHalf(config[task.fn], 4, WithBit(Half(config[task.fn], 4), 1024))
<1>3. Progressed(config[task.fn], regs, task.cap, task.control, task.irq, "handler")
  BY <1>1, <1>2, OwnRegisters, StepIntx
<1>4. config' = [config EXCEPT ![task.fn] = regs]
  <2>1. pci_read16(task.fn, 4) = Half(config[task.fn], 4)
    BY <1>2, OwnRegisters DEF pci_read16, Registers
  <2> QED BY <1>2, <2>1, OwnRegisters, WriteIs DEF IntxOff
<1> HIDE DEF regs
<1> QED BY <1>1, <1>2, <1>3, <1>4, GoesOn

With1(vs, v, fn) ==
    [x \in DOMAIN vs \cup {v} |-> IF x = v THEN Append(Handlers(vs, v), fn) ELSE vs[x]]

LEMMA HandlerAppended ==
    ASSUME NEW vs, VectorsOk(vs), NEW v, NEW fn \in Int, NEW ws, ws = With1(vs, v, fn)
    PROVE  /\ VectorsOk(ws) /\ Handled(ws, v, fn)
           /\ \A x : Len(Handlers(ws, x)) \in Nat /\ Len(Handlers(ws, x)) <= Len(Handlers(vs, x)) + 1
           /\ \A x, f : Handled(vs, x, f) => Handled(ws, x, f)
<1>1. \A x : Handlers(vs, x) \in Seq(Int)
  BY DEF VectorsOk, Handlers
<1>2. DOMAIN ws = DOMAIN vs \cup {v} /\ \A x \in DOMAIN ws : ws[x] = IF x = v THEN Append(Handlers(vs, v), fn) ELSE vs[x]
  BY DEF With1
<1>3. \A x : Handlers(ws, x) = IF x = v THEN Append(Handlers(vs, v), fn) ELSE Handlers(vs, x)
  BY <1>2 DEF Handlers
<1>4. PICK h \in Seq(Int) : h = Handlers(vs, v)
  BY <1>1
<1>5. PICK a : a = Append(h, fn)
  OBVIOUS
<1>6. /\ a \in Seq(Int) /\ Len(a) = Len(h) + 1 /\ Len(h) \in Nat /\ a[Len(a)] = fn
      /\ DOMAIN h = 1..Len(h) /\ DOMAIN a = 1..Len(a) /\ \A i \in DOMAIN h : a[i] = h[i]
  BY <1>5
<1>7. VectorsOk(ws)
  <2>1. ASSUME NEW x \in DOMAIN ws PROVE ws[x] \in Seq(Int)
    <3>1. CASE x = v
      BY <1>2, <1>4, <1>5, <1>6, <3>1
    <3>2. CASE x # v
      BY <1>2, <3>2 DEF VectorsOk
    <3> QED BY <3>1, <3>2
  <2> QED BY <2>1 DEF VectorsOk
<1>8. Handled(ws, v, fn)
  <2>1. Handlers(ws, v) = a
    BY <1>3, <1>4, <1>5
  <2>2. Len(a) \in DOMAIN a
    BY <1>6
  <2> QED BY <1>6, <2>1, <2>2 DEF Handled
<1>9. ASSUME NEW x PROVE Len(Handlers(ws, x)) \in Nat /\ Len(Handlers(ws, x)) <= Len(Handlers(vs, x)) + 1
  <2>1. CASE x = v
    <3>1. Handlers(ws, x) = a /\ Handlers(vs, x) = h
      BY <1>3, <1>4, <1>5, <2>1
    <3> QED BY <1>6, <3>1
  <2>2. CASE x # v
    <3>1. PICK g \in Seq(Int) : g = Handlers(vs, x)
      BY <1>1
    <3>2. Len(g) \in Nat
      OBVIOUS
    <3>3. Handlers(ws, x) = g
      BY <1>3, <2>2, <3>1
    <3>4. Len(g) <= Len(g) + 1
      BY <3>2
    <3> QED BY <3>1, <3>2, <3>3, <3>4
  <2> QED BY <2>1, <2>2
<1>10. ASSUME NEW x, NEW f, Handled(vs, x, f) PROVE Handled(ws, x, f)
  <2>1. CASE x = v
    <3>1. Handlers(ws, x) = a /\ Handlers(vs, x) = h
      BY <1>3, <1>4, <1>5, <2>1
    <3>2. PICK i \in DOMAIN h : h[i] = f
      BY <1>10, <3>1 DEF Handled
    <3>3. i \in DOMAIN a /\ a[i] = f
      BY <1>6, <3>2
    <3> QED BY <3>1, <3>3 DEF Handled
  <2>2. CASE x # v
    BY <1>3, <1>10, <2>2 DEF Handled
  <2> QED BY <2>1, <2>2
<1> QED BY <1>7, <1>8, <1>9, <1>10

LEMMA StillArmed ==
    ASSUME NEW vs, NEW ws, \A x, f : Handled(vs, x, f) => Handled(ws, x, f),
           NEW regs, NEW fn, ArmedFunction(regs, vs, fn)
    PROVE  ArmedFunction(regs, ws, fn)
  BY DEF ArmedFunction

(* A function without messages sends none. *)
LEMMA PinIsArmed ==
    ASSUME NEW regs, MsiOffset(regs) = 0, NEW vs, NEW fn
    PROVE  ArmedFunction(regs, vs, fn)
  BY DEF ArmedFunction, ArmedRegisters

LEMMA NoTaskOk ==
    ASSUME NEW c, ConfigOk(c), NEW vs
    PROVE  /\ TaskOk(c, NoTask, vs) /\ Pending(NoTask) = 0
           /\ \A fn \in DOMAIN c : NoTask.fn # fn
<1>1. 0 \in HalfWords
  BY DEF HalfWords
<1>2. NoTask \in Tasks
  BY <1>1 DEF NoTask, Tasks, None
<1>3. NoTask.step = "idle" /\ NoTask.fn = -1
  BY DEF NoTask, None
<1>4. \A fn \in DOMAIN c : fn \in Nat
  BY DEF ConfigOk
<1> QED BY <1>2, <1>3, <1>4 DEF TaskOk, Pending

LEMMA PciHandlerInv ==
    ASSUME PciOk(config, task, vectors, asked), NEW n \in Nat, n <= 3, HandlersUpTo(vectors, task, n),
           PciHandler
    PROVE  PciOk(config', task', vectors', asked) /\ HandlersUpTo(vectors', task', n)
<1>1. /\ task.step = "handler" /\ config' = config
      /\ task' = IF task.cap = 0 THEN NoTask ELSE [task EXCEPT !.step = "on"]
  BY DEF PciHandler
<1>2. /\ ConfigOk(config) /\ VectorsOk(vectors) /\ task \in Tasks /\ task.fn \in Int /\ Pending(task) = 1
      /\ PinTask(config, task) \/ MsiTask(config, task, vectors)
  BY <1>1 DEF PciOk, TaskOk, Tasks, NoTask, Pending
<1>3. PICK v : v = task.irq + 32
  OBVIOUS
<1>4. \A x : Installed(x) = Handlers(vectors, x)
  BY DEF Installed, Handlers
<1>5. \/ vectors' = vectors /\ (task.irq >= PciIrqs \/ Len(Handlers(vectors, v)) >= 4)
      \/ vectors' = With1(vectors, v, task.fn)
  BY <1>3, <1>4 DEF PciHandler, HandlerInstalled, With1
<1>6. PICK vs : vs = vectors'
  OBVIOUS
<1>7. /\ VectorsOk(vs)
      /\ \A x : Len(Handlers(vs, x)) \in Nat /\ Len(Handlers(vs, x)) <= Len(Handlers(vectors, x)) + 1
      /\ \A x, f : Handled(vectors, x, f) => Handled(vs, x, f)
  <2>1. CASE vs = vectors
    <3>1. \A x : Handlers(vs, x) \in Seq(Int)
      BY <1>2, <2>1 DEF VectorsOk, Handlers
    <3>2. \A x : Len(Handlers(vs, x)) \in Nat
      BY <3>1
    <3> QED BY <1>2, <2>1, <3>2
  <2>2. CASE vs = With1(vectors, v, task.fn)
    BY <1>2, <2>2, HandlerAppended
  <2> QED BY <1>5, <1>6, <2>1, <2>2
<1>8. \A x : Len(Handlers(vectors, x)) \in Nat /\ Len(Handlers(vectors, x)) + 1 <= n
  <2>1. ASSUME NEW x PROVE Len(Handlers(vectors, x)) \in Nat
    <3>1. Handlers(vectors, x) \in Seq(Int)
      BY <1>2 DEF VectorsOk, Handlers
    <3> QED BY <3>1
  <2> QED BY <1>2, <2>1 DEF HandlersUpTo
<1>9. ASSUME NEW u, Pending(u) = 0 PROVE HandlersUpTo(vs, u, n)
  <2>1. \A x : Len(Handlers(vs, x)) + 0 <= n
    BY <1>7, <1>8
  <2> QED BY <1>9, <2>1 DEF HandlersUpTo
<1>10. \A fn \in asked \cap DOMAIN config : task.fn # fn => ArmedFunction(config[fn], vs, fn)
  BY <1>7, StillArmed DEF PciOk, OthersArmed
<1>11. CASE PinTask(config, task)
  <2>1. task' = NoTask
    BY <1>1, <1>11 DEF PinTask
  <2>2. TaskOk(config, NoTask, vs) /\ Pending(NoTask) = 0
    BY <1>2, NoTaskOk
  <2>3. OthersArmed(config, NoTask, vs, asked)
    BY <1>10, <1>11, PinIsArmed DEF OthersArmed, PinTask
  <2>4. PciOk(config, NoTask, vs, asked) /\ HandlersUpTo(vs, NoTask, n)
    BY <1>2, <1>7, <1>9, <2>2, <2>3 DEF PciOk
  <2> QED BY <1>1, <1>6, <2>1, <2>4
<1>12. CASE MsiTask(config, task, vectors)
  <2>1. task.cap # 0 /\ task.irq \in Nat /\ task.irq <= 15 /\ task.control \in HalfWords
    BY <1>12, OwnRegisters
  <2>2. Moved(task, task', "on", task.control)
    BY <1>1, <2>1 DEF Moved
  <2>3. PICK u : u = task'
    OBVIOUS
  <2>4. /\ u \in Tasks /\ u.step = "on" /\ u.fn = task.fn /\ u.cap = task.cap /\ u.irq = task.irq
        /\ u.control = task.control
    <3>1. Moved(task, u, "on", task.control) /\ "on" \in MsiSteps
      BY <2>2, <2>3 DEF MsiSteps
    <3> QED BY <1>2, <2>1, <3>1, TaskSteps
  <2>5. vs = With1(vectors, v, task.fn)
    <3>1. ~(task.irq >= PciIrqs)
      BY <2>1, ConfigsAssumption
    <3>2. ~(Len(Handlers(vectors, v)) >= 4)
      BY <1>8
    <3> QED BY <1>5, <1>6, <3>1, <3>2
  <2>6. Handled(vs, u.irq + 32, u.fn)
    <3>1. Handled(vs, v, task.fn)
      BY <1>2, <2>5, HandlerAppended
    <3> QED BY <1>3, <2>4, <3>1
  <2>7. Progress(config[task.fn], task.cap, task.control, task.irq, "on")
    BY <1>1, <1>12, OwnRegisters DEF Progress
  <2>8. MsiTask(config, u, vs)
    BY <1>12, <2>4, <2>6, <2>7 DEF MsiTask, MsiSteps
  <2>9. OthersArmed(config, u, vs, asked)
    BY <1>10, <2>4 DEF OthersArmed
  <2>10. Pending(u) = 0
    BY <2>4 DEF Pending
  <2>11. PciOk(config, u, vs, asked) /\ HandlersUpTo(vs, u, n)
    BY <1>2, <1>7, <1>9, <2>4, <2>8, <2>9, <2>10 DEF PciOk, TaskOk
  <2> QED BY <1>1, <1>6, <2>3, <2>11
<1> QED BY <1>2, <1>11, <1>12

LEMMA MsiOnInv ==
    ASSUME PciOk(config, task, vectors, asked), NEW n, HandlersUpTo(vectors, task, n), MsiOn
    PROVE  PciOk(config', task', vectors', asked) /\ HandlersUpTo(vectors', task', n)
<1>1. task.step = "on" /\ vectors' = vectors /\ task' = NoTask
  BY DEF MsiOn
<1>2. MsiTask(config, task, vectors) /\ ConfigOk(config) /\ VectorsOk(vectors)
  BY <1>1, TaskIs DEF PciOk, MsiSteps
<1> DEFINE regs == WithHalf(config[task.fn], task.cap + 2, WithBit(task.control, 1))
<1>3. /\ RegistersOk(regs) /\ MsiOffset(regs) = task.cap /\ ArmedRegisters(regs)
      /\ Half(regs, DataAt(regs, task.cap)) = task.irq + 32
  BY <1>1, <1>2, OwnRegisters, StepOn
<1>4. PICK d : d = config' /\ d = [config EXCEPT ![task.fn] = regs]
  BY <1>2, OwnRegisters, WriteIs DEF MsiOn, EnableWritten
<1> HIDE DEF regs
<1>5. /\ ConfigOk(d) /\ DOMAIN d = DOMAIN config /\ d[task.fn] = regs
      /\ \A other \in DOMAIN config : other # task.fn => d[other] = config[other]
  <2>1. task.fn \in DOMAIN config /\ RegistersOk(regs)
    BY <1>2, <1>3, OwnRegisters
  <2>2. ConfigOk(config) /\ d = [config EXCEPT ![task.fn] = regs]
    BY <1>2, <1>4
  <2> QED BY <2>1, <2>2, ConfigChanged
<1>6. TaskOk(d, NoTask, vectors) /\ Pending(NoTask) = 0
  BY <1>5, NoTaskOk
<1>7. ArmedFunction(regs, vectors, task.fn)
  BY <1>1, <1>2, <1>3 DEF ArmedFunction, MsiTask
<1>8. OthersArmed(d, NoTask, vectors, asked)
  BY <1>5, <1>7 DEF OthersArmed, PciOk
<1>9. HandlersUpTo(vectors, NoTask, n)
  <2>1. Pending(task) = 0
    BY <1>1 DEF Pending
  <2> QED BY <1>6, <2>1 DEF HandlersUpTo
<1> QED BY <1>1, <1>2, <1>4, <1>5, <1>6, <1>8, <1>9 DEF PciOk

LEMMA PciStepInv ==
    ASSUME PciOk(config, task, vectors, asked), NEW n \in Nat, n <= 3, HandlersUpTo(vectors, task, n),
           PciStep
    PROVE  PciOk(config', task', vectors', asked) /\ HandlersUpTo(vectors', task', n)
  BY MsiOffInv, MsiAddressInv, MsiDataInv, IntxOffInv, PciHandlerInv, MsiOnInv DEF PciStep

LEMMA FirstIs ==
    ASSUME NEW S, S \subseteq Nat
    PROVE  First(S) \in Int /\ (First(S) # None => First(S) \in S)
<1>1. CASE S = {}
  BY <1>1 DEF First, None
<1>2. CASE S # {}
  <2>1. Min(S) \in S
    BY <1>2, Least DEF Min
  <2>2. First(S) = Min(S)
    BY <1>2 DEF First
  <2>3. Min(S) \in Nat
    BY <2>1
  <2> QED BY <2>1, <2>2, <2>3
<1> QED BY <1>1, <1>2

LEMMA AskInv ==
    ASSUME PciOk(config, task, vectors, asked), NEW n \in Nat, HandlersUpTo(vectors, task, n),
           task = NoTask, NEW f \in Int, NEW irq \in {10, 11, 15}, InstallInterrupt(f, irq),
           UNCHANGED <<config, vectors>>, asked' = asked \cup {f}
    PROVE  PciOk(config', task', vectors', asked') /\ HandlersUpTo(vectors', task', n + 1)
<1>1. ConfigOk(config) /\ VectorsOk(vectors)
  BY DEF PciOk
<1>2. PICK regs : regs = Registers(f)
  OBVIOUS
<1>3. Aligned(regs)
  <2>1. CASE f \in DOMAIN config
    BY <1>1, <1>2, <2>1 DEF Registers, ConfigOk, RegistersOk
  <2>2. CASE f \notin DOMAIN config
    BY <1>2, <2>2, NoFunctionAligned DEF Registers
  <2> QED BY <2>1, <2>2
<1>4. PICK cap : cap = get_msi_offset(f)
  OBVIOUS
<1>5. cap = MsiOffset(regs)
  BY <1>2, <1>4 DEF get_msi_offset
<1>6. PICK u : u = task'
  OBVIOUS
<1>7. u \in Tasks /\ u.fn = f /\ (PinTask(config, u) \/ MsiTask(config, u, vectors)) /\ u.step \in MsiSteps \ {"on"}
  <2>1. CASE cap = 0
    <3>1. pci_read8(f, 60) \in Nat
      <4>1. pci_read8(f, 60) \in Bytes
        BY <1>2, <1>3, WordIs DEF pci_read8, Aligned
      <4> QED BY <4>1 DEF Bytes
    <3>2. u = [step |-> "handler", fn |-> f, cap |-> 0, control |-> 0, irq |-> pci_read8(f, 60)]
      BY <1>4, <1>6, <2>1 DEF InstallInterrupt, NoTask
    <3>3. u.step = "handler" /\ u.fn = f /\ u.cap = 0
      BY <3>2
    <3>4. 0 \in HalfWords
      BY DEF HalfWords
    <3>5. u \in Tasks
      BY <3>1, <3>2, <3>4 DEF Tasks, MsiSteps
    <3>6. f \in DOMAIN config => MsiOffset(config[f]) = 0
      BY <1>2, <1>5, <2>1 DEF Registers
    <3> QED BY <3>3, <3>5, <3>6 DEF PinTask, MsiSteps
  <2>2. CASE cap # 0
    <3> DEFINE control == WithoutBit(Half(regs, cap + 2), 1)
    <3>1. f \in DOMAIN config /\ regs = config[f]
      BY <1>2, <1>5, <2>2, NoFunctionNone DEF Registers
    <3>2. RegistersOk(regs)
      BY <1>1, <3>1 DEF ConfigOk
    <3>3. Progress(regs, cap, control, irq, "off")
      BY <1>5, <2>2, <3>2, Begun
    <3>4. control \in HalfWords
      BY <3>3 DEF Progress
    <3>5. pci_read16(f, cap + 2) = Half(regs, cap + 2)
      BY <1>2 DEF pci_read16
    <3>6. u = [step |-> "off", fn |-> f, cap |-> cap, irq |-> irq, control |-> control]
      BY <1>4, <1>6, <2>2, <3>5 DEF InstallInterrupt
    <3> HIDE DEF control
    <3>7. u.step = "off" /\ u.fn = f /\ u.cap = cap /\ u.irq = irq /\ u.control = control
      BY <3>6
    <3>8. cap \in Nat /\ irq \in Nat /\ irq <= 15
      BY <1>5, <2>2, <3>2, MsiOffsetOk
    <3>9. u \in Tasks
      BY <3>4, <3>6, <3>8 DEF Tasks, MsiSteps
    <3>10. MsiTask(config, u, vectors)
      BY <1>5, <2>2, <3>1, <3>3, <3>7, <3>8 DEF MsiTask, MsiSteps
    <3> QED BY <3>7, <3>9, <3>10 DEF MsiSteps
  <2> QED BY <2>1, <2>2
<1>8. \A fn \in DOMAIN config : task.fn # fn
  BY <1>1, NoTaskOk
<1>9. OthersArmed(config, u, vectors, asked \cup {f})
  BY <1>7, <1>8 DEF PciOk, OthersArmed
<1>10. HandlersUpTo(vectors, u, n + 1)
  <2>1. Pending(task) = 0 /\ Pending(u) \in {0, 1}
    BY <1>1, NoTaskOk DEF Pending
  <2>2. ASSUME NEW v PROVE Len(Handlers(vectors, v)) + Pending(u) <= n + 1
    <3>1. Handlers(vectors, v) \in Seq(Int)
      BY <1>1 DEF VectorsOk, Handlers
    <3>2. PICK k \in Nat : k = Len(Handlers(vectors, v))
      BY <3>1
    <3>3. k <= n
      BY <2>1, <3>2 DEF HandlersUpTo
    <3> QED BY <2>1, <3>2, <3>3
  <2> QED BY <2>2 DEF HandlersUpTo
<1> QED BY <1>1, <1>6, <1>7, <1>9, <1>10 DEF PciOk, TaskOk

LEMMA BusMasterInv ==
    ASSUME PciOk(config, task, vectors, asked), task = NoTask, NEW fn \in DOMAIN config,
           config' = Written16(fn, 4, WithBit(WithBit(pci_read16(fn, 4), 4), 1))
    PROVE  PciOk(config', task, vectors, asked)
<1>1. ConfigOk(config) /\ VectorsOk(vectors)
  BY DEF PciOk
<1>2. PICK r : r = config[fn]
  OBVIOUS
<1>3. RegistersOk(r)
  BY <1>1, <1>2 DEF ConfigOk
<1> DEFINE s == WithHalf(r, 4, WithBit(WithBit(Half(r, 4), 4), 1))
<1>4. PICK cap : cap = MsiOffset(r)
  OBVIOUS
<1>5. /\ RegistersOk(s) /\ MsiOffset(s) = cap /\ (ArmedRegisters(r) => ArmedRegisters(s))
      /\ cap # 0 => /\ Half(s, cap + 2) = Half(r, cap + 2)
                    /\ Half(s, DataAt(s, cap)) = Half(r, DataAt(r, cap))
  BY <1>3, <1>4, BusMaster
<1>6. PICK d : d = config'
  OBVIOUS
<1>7. d = [config EXCEPT ![fn] = s]
  <2>1. pci_read16(fn, 4) = Half(r, 4)
    BY <1>2 DEF pci_read16, Registers
  <2>2. config = [f \in DOMAIN config |-> config[f]]
    BY <1>1 DEF ConfigOk
  <2> QED BY <1>2, <1>6, <2>1, <2>2, WriteIs
<1> HIDE DEF s
<1>8. /\ ConfigOk(d) /\ DOMAIN d = DOMAIN config /\ d[fn] = s
      /\ \A other \in DOMAIN config : other # fn => d[other] = config[other]
  BY <1>1, <1>5, <1>7, ConfigChanged
<1>9. ASSUME NEW f, ArmedFunction(r, vectors, f) PROVE ArmedFunction(s, vectors, f)
  BY <1>4, <1>5, <1>9 DEF ArmedFunction
<1>10. OthersArmed(d, task, vectors, asked)
  <2>1. ASSUME NEW f \in asked \cap DOMAIN d, task.fn # f PROVE ArmedFunction(d[f], vectors, f)
    <3>1. ArmedFunction(config[f], vectors, f)
      BY <1>8, <2>1 DEF PciOk, OthersArmed
    <3>2. CASE f = fn
      BY <1>2, <1>8, <1>9, <3>1, <3>2
    <3>3. CASE f # fn
      BY <1>8, <2>1, <3>1, <3>3
    <3> QED BY <3>2, <3>3
  <2> QED BY <2>1 DEF OthersArmed
<1>11. TaskOk(d, task, vectors)
  BY <1>8, NoTaskOk
<1> QED BY <1>1, <1>6, <1>8, <1>10, <1>11 DEF PciOk

----------------------------------------------------------------------------
(* How many times a stage has asked for an interrupt, at the most. *)
Asks(st) == IF st \in {"entry", "memory", "xhci"} THEN 0
            ELSE IF st \in {"rtl", "rtlIrq"} THEN 1
            ELSE IF st \in {"ps2", "nodes", "ahci"} THEN 2 ELSE 3
BetweenTasks(st) == st \in {"entry", "memory", "xhci", "rtlIrq", "nodes", "ahci"}

MsiInv ==
    /\ PciOk(config, task, vectors, asked)
    /\ HandlersUpTo(vectors, task, Asks(stage))
    /\ BetweenTasks(stage) => task = NoTask

LEMMA AskedMore ==
    ASSUME PciOk(config, task, vectors, asked), NEW n \in Nat, HandlersUpTo(vectors, task, n),
           NEW m \in Nat, n <= m
    PROVE  HandlersUpTo(vectors, task, m)
<1>1. ASSUME NEW v PROVE Len(Handlers(vectors, v)) + Pending(task) <= m
  <2>1. Handlers(vectors, v) \in Seq(Int)
    BY DEF VectorsOk, Handlers, PciOk
  <2>2. PICK k \in Nat : k = Len(Handlers(vectors, v))
    BY <2>1
  <2>3. Pending(task) \in {0, 1} /\ k + Pending(task) <= n
    BY <2>2 DEF Pending, HandlersUpTo
  <2> QED BY <2>2, <2>3
<1> QED BY <1>1 DEF HandlersUpTo

LEMMA InitMsiInv == Init => MsiInv
<1> SUFFICES ASSUME Init PROVE MsiInv
  OBVIOUS
<1>1. ConfigOk(config) /\ task = NoTask /\ vectors = <<>> /\ asked = {} /\ stage = "entry"
  BY ConfigsAssumption DEF Init
<1>2. VectorsOk(vectors) /\ \A v : Handlers(vectors, v) = <<>>
  BY <1>1 DEF VectorsOk, Handlers
<1>3. TaskOk(config, task, vectors) /\ Pending(task) = 0
  BY <1>1, NoTaskOk
<1>4. HandlersUpTo(vectors, task, Asks(stage))
  BY <1>1, <1>2, <1>3 DEF HandlersUpTo, Asks
<1> QED BY <1>1, <1>2, <1>3, <1>4 DEF MsiInv, PciOk, OthersArmed

(* A step that asks for nothing. *)
LEMMA MsiUnchanged ==
    ASSUME MsiInv, UNCHANGED <<config, task, vectors, asked>>,
           Asks(stage) <= Asks(stage'), BetweenTasks(stage') => task = NoTask
    PROVE  MsiInv'
<1>1. PICK st : st = stage'
  OBVIOUS
<1>2. Asks(stage) \in Nat /\ Asks(st) \in Nat /\ Asks(stage) <= Asks(st)
  BY <1>1 DEF Asks
<1>3. HandlersUpTo(vectors, task, Asks(st)) /\ PciOk(config, task, vectors, asked)
  BY <1>2, AskedMore DEF MsiInv
<1>4. HandlersUpTo(vectors', task', Asks(stage')) /\ PciOk(config', task', vectors', asked')
  BY <1>1, <1>3
<1>5. BetweenTasks(stage') => task' = NoTask
  OBVIOUS
<1> QED BY <1>4, <1>5 DEF MsiInv

LEMMA SearchesIs ==
    ASSUME ConfigOk(config)
    PROVE  Xhci \in Int /\ Rtl \in Int /\ OrZeroed(Ahci) \in Int /\ (Rtl # None => Rtl \in DOMAIN config)
<1>1. DOMAIN config \subseteq Nat
  BY DEF ConfigOk
<1> DEFINE Xs == {fn \in DOMAIN config : Visible(fn) /\ ClassOf(fn) = <<12, 3, 48>>}
           Rs == {fn \in DOMAIN config : /\ Visible(fn) /\ Vendor(fn) = 4332
                                         /\ SubSeq(ClassOf(fn), 1, 2) = <<2, 0>>}
           As == {fn \in DOMAIN config : Visible(fn) /\ SubSeq(ClassOf(fn), 1, 2) = <<1, 6>>}
<1>2. Xhci = First(Xs) /\ Rtl = First(Rs) /\ Ahci = First(As)
  BY DEF Xhci, Rtl, Ahci, Find_Class, find_vendor_class, find_class_with_sub
<1>3. Xs \subseteq Nat /\ Rs \subseteq Nat /\ As \subseteq Nat /\ Rs \subseteq DOMAIN config
  BY <1>1
<1> HIDE DEF Xs, Rs, As
<1>4. First(Xs) \in Int /\ First(Rs) \in Int /\ First(As) \in Int /\ (First(Rs) # None => First(Rs) \in Rs)
  BY <1>3, FirstIs
<1> QED BY <1>2, <1>3, <1>4 DEF OrZeroed

(* A stage that finds a function and asks for its interrupt. *)
LEMMA AskStageInv ==
    ASSUME MsiInv, BetweenTasks(stage), NEW f \in Int, NEW irq \in {10, 11, 15}, NEW from, NEW to,
           Ask(f, irq, from, to), config' = config, Asks(to) = Asks(from) + 1, ~BetweenTasks(to)
    PROVE  MsiInv'
<1>1. stage = from /\ stage' = to /\ vectors' = vectors /\ InstallInterrupt(f, irq) /\ asked' = asked \cup {f}
  BY DEF Ask, At
<1>2. Asks(from) \in Nat /\ Asks(to) \in Nat
  BY DEF Asks
<1>3. PciOk(config, task, vectors, asked) /\ HandlersUpTo(vectors, task, Asks(from)) /\ task = NoTask
  BY <1>1 DEF MsiInv
<1>4. PciOk(config', task', vectors', asked') /\ HandlersUpTo(vectors', task', Asks(from) + 1)
  BY <1>1, <1>2, <1>3, AskInv
<1> QED BY <1>1, <1>4 DEF MsiInv

LEMMA StepMsiInv == MsiInv /\ [Next]_vars => MsiInv'
<1> SUFFICES ASSUME MsiInv, [Next]_vars PROVE MsiInv'
  OBVIOUS
<1>0. PciOk(config, task, vectors, asked) /\ ConfigOk(config) /\ (BetweenTasks(stage) => task = NoTask)
  BY DEF MsiInv, PciOk
<1>1. CASE kernel_main \/ Halt \/ InitCore
  BY <1>0, <1>1, MsiUnchanged DEF kernel_main, Halt, InitCore, At, Devices, pciVars, Asks, BetweenTasks
<1>2. CASE XhciInit
  <2>1. CASE Ask(Xhci, 10, "xhci", "rtl") /\ UNCHANGED config
    <3>1. stage = "xhci"
      BY <2>1 DEF Ask, At
    <3>2. Asks("rtl") = Asks("xhci") + 1 /\ ~BetweenTasks("rtl") /\ BetweenTasks(stage)
      BY <3>1 DEF Asks, BetweenTasks
    <3> QED BY <1>0, <2>1, <3>2, SearchesIs, AskStageInv
  <2>2. CASE Without("xhci", "rtl")
    BY <2>2, MsiUnchanged DEF Without, At, Devices, pciVars, Asks, BetweenTasks
  <2> QED BY <1>2, <2>1, <2>2 DEF XhciInit
<1>3. CASE RtlInit
  <2>1. CASE RtlFound
    <3>1. /\ config' = Written16(Rtl, 4, WithBit(WithBit(pci_read16(Rtl, 4), 4), 1))
          /\ stage = "rtl" /\ stage' = "rtlIrq" /\ UNCHANGED <<task, vectors, asked>> /\ task = NoTask
      BY <1>3, <2>1 DEF RtlInit, At
    <3>2. Rtl \in DOMAIN config
      BY <1>0, <2>1, SearchesIs DEF RtlFound
    <3>3. PciOk(config', task, vectors, asked)
      BY <1>0, <3>1, <3>2, BusMasterInv
    <3>4. HandlersUpTo(vectors, task, 1)
      BY <3>1 DEF MsiInv, Asks
    <3> QED BY <3>1, <3>3, <3>4 DEF MsiInv, Asks
  <2>2. CASE ~RtlFound
    BY <1>3, <2>2, MsiUnchanged DEF RtlInit, Without, At, Devices, pciVars, Asks, BetweenTasks
  <2> QED BY <2>1, <2>2
<1>4. CASE RtlIrq
  <2>1. CASE Ask(Rtl, 15, "rtlIrq", "ps2") /\ UNCHANGED config
    <3>1. stage = "rtlIrq"
      BY <2>1 DEF Ask, At
    <3>2. Asks("ps2") = Asks("rtlIrq") + 1 /\ ~BetweenTasks("ps2") /\ BetweenTasks(stage)
      BY <3>1 DEF Asks, BetweenTasks
    <3> QED BY <1>0, <2>1, <3>2, SearchesIs, AskStageInv
  <2>2. CASE Without("rtlIrq", "ps2")
    BY <2>2, MsiUnchanged DEF Without, At, Devices, pciVars, Asks, BetweenTasks
  <2> QED BY <1>4, <2>1, <2>2 DEF RtlIrq
<1>5. CASE RegisterPs2
  BY <1>5, MsiUnchanged DEF RegisterPs2, At, Devices, pciVars, Asks, BetweenTasks
<1>6. CASE init_device \/ Probing
  BY <1>0, <1>6, MsiUnchanged DEF init_device, Probing, initVars, pciVars, Asks
<1>7. CASE Enumerated
  BY <1>0, <1>7, MsiUnchanged DEF Enumerated, Without, At, Devices, pciVars, Asks, BetweenTasks
<1>8. CASE AhciInit
  <2>1. stage = "ahci"
    BY <1>8 DEF AhciInit, Ask, At
  <2>2. Asks("ahciPorts") = Asks("ahci") + 1 /\ ~BetweenTasks("ahciPorts") /\ BetweenTasks(stage)
    BY <2>1 DEF Asks, BetweenTasks
  <2> QED BY <1>0, <1>8, <2>2, SearchesIs, AskStageInv DEF AhciInit
<1>9. CASE Arming
  <2>1. PciStep /\ stage' = stage /\ asked' = asked
    BY <1>9 DEF Arming, initVars
  <2>2. Asks(stage) \in Nat /\ Asks(stage) <= 3 /\ HandlersUpTo(vectors, task, Asks(stage))
    BY DEF Asks, MsiInv
  <2>3. PciOk(config', task', vectors', asked) /\ HandlersUpTo(vectors', task', Asks(stage))
    BY <1>0, <2>1, <2>2, PciStepInv
  <2>4. task # NoTask
    BY <2>1 DEF PciStep, MsiOff, MsiAddress, MsiData, IntxOff, PciHandler, MsiOn, Step, NoTask
  <2> QED BY <1>0, <2>1, <2>3, <2>4 DEF MsiInv
<1>10. CASE AhciPorts \/ Partitioning
  BY <1>0, <1>10, MsiUnchanged DEF AhciPorts, Partitioning, initVars, pciVars, Asks
<1>11. CASE InitPartitions \/ Wild \/ EnterUser
  BY <1>11, MsiUnchanged DEF InitPartitions, Wild, EnterUser, Without, At, Devices, pciVars, Asks, BetweenTasks
<1>12. CASE KeyboardStep \/ UNCHANGED vars
  BY <1>0, <1>12, MsiUnchanged DEF KeyboardStep, vars, initVars, pciVars, Asks
<1> QED BY <1>1, <1>2, <1>3, <1>4, <1>5, <1>6, <1>7, <1>8, <1>9, <1>10, <1>11, <1>12 DEF Next, KernelStep

LEMMA MsiArmedIs ==
    ASSUME PciOk(config, task, vectors, asked)
    PROVE  BootMsiArmed
<1>1. SUFFICES ASSUME NEW fn \in asked \cap DOMAIN config, ~(task.fn = fn /\ task.step = "off"),
                      NEW cap, cap = get_msi_offset(fn), MsiEnabled(fn, cap)
               PROVE  Armed(fn, cap)
  BY DEF BootMsiArmed, MsiArmed
<1>2. PICK regs : regs = config[fn] /\ regs = Registers(fn)
  BY DEF Registers
<1>4. cap = MsiOffset(regs) /\ cap # 0 /\ Bit(Half(regs, cap + 2), 1) = 1
  BY <1>1, <1>2 DEF get_msi_offset, MsiEnabled, pci_read16
<1>3. ArmedFunction(regs, vectors, fn)
  <2>1. CASE task.fn # fn
    BY <1>1, <1>2, <2>1 DEF PciOk, OthersArmed
  <2>2. CASE task.fn = fn
    <3>1. ~(task = NoTask)
      BY <1>1, <2>2, NoTaskOk DEF PciOk
    <3>2. ~PinTask(config, task)
      BY <1>1, <1>2, <1>4, <2>2 DEF PinTask
    <3>3. MsiTask(config, task, vectors)
      BY <3>1, <3>2 DEF PciOk, TaskOk
    <3>4. Progress(regs, cap, task.control, task.irq, task.step) /\ task.step # "off"
      BY <1>1, <1>2, <1>4, <2>2, <3>3 DEF MsiTask
    <3> QED BY <1>4, <3>4 DEF Progress
  <2> QED BY <2>1, <2>2
<1>5. /\ Word(regs, cap + 4) = ApicBase /\ Bit(Half(regs, 4), 1024) = 1
      /\ OneMessage(Half(regs, cap + 2)) = Half(regs, cap + 2)
      /\ Handled(vectors, Half(regs, DataAt(regs, cap)), fn)
  BY <1>3, <1>4 DEF ArmedFunction, ArmedRegisters
<1>6. MsiVector(fn, cap) = Half(regs, DataAt(regs, cap))
  BY <1>2 DEF MsiVector, pci_read16
<1>7. \A v : Installed(v) = Handlers(vectors, v)
  BY DEF Installed, Handlers
<1>8. \E i \in DOMAIN Installed(MsiVector(fn, cap)) : Installed(MsiVector(fn, cap))[i] = fn
  BY <1>5, <1>6, <1>7 DEF Handled
<1> QED BY <1>2, <1>5, <1>8 DEF Armed, pci_read16, pci_read32

(* What install_interrupt arms is handled, in every state of the boot but  *)
(* before its own first write: a message that is on goes to the local APIC *)
(* with a vector that already has its handler.                             *)
THEOREM BootMsiArmedTheorem == Spec => []BootMsiArmed
<1>1. MsiInv => BootMsiArmed
  BY MsiArmedIs DEF MsiInv
<1> QED BY <1>1, InitMsiInv, StepMsiInv, PTL DEF Spec
=============================================================================

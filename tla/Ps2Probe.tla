------------------------------ MODULE Ps2Probe ------------------------------
(***************************************************************************)
(* drivers::ps2::probe: the 8042 controller is set up and tested, and the  *)
(* device at its first port is reset and asked what it is.  The probe is a *)
(* script, with interrupts off until its end, when it empties the          *)
(* controller beside the keyboard's handler.                               *)
(*                                                                         *)
(* The controller has one output buffer, which the answers of both devices *)
(* and the controller go through; a device keeps what does not fit.        *)
(***************************************************************************)
EXTENDS Integers, Sequences, SequencesExt

CONSTANTS MaxKeys,    \* keys hit while it runs
          KeyBytes    \* the bytes of a key

(* Bytes of the protocol. *)
ACK == 250
BatPassed == 170
KeyboardId == <<171, 131>>
MouseId == <<0>>

ASSUME KeysAssumption == MaxKeys \in Nat /\ KeyBytes \in Seq(0..255) \ {<<>>}

(* config_register; the bits left out are zero but the system flag, 4.     *)
Configs == [irq1 : 0..1, irq2 : 0..1, clock1 : 0..1, clock2 : 0..1, translation : 0..1]

(* The machines: [fadt, resources, has8042] are what the firmware says is  *)
(* there, passes is the answer to the controller's self test, dual whether *)
(* it has a second port, irq the first interrupt of the resources (or -1), *)
(* first what the device at port 1 answers when it is identified, <<>> for *)
(* none; config and left are how the firmware leaves the controller and    *)
(* that device.                                                            *)
Machines ==
    [fadt : BOOLEAN, resources : BOOLEAN, has8042 : BOOLEAN, passes : 0..255, dual : BOOLEAN,
     irq : Int, first : Seq(0..255), config : Configs, left : [scanning : BOOLEAN, set : 1..3]]

VARIABLES
    machine,   \* one of Machines
    phase,     \* "idle" | "running" | "done" | "nodev"
    line,      \* the step of the script
    flag,      \* the interrupt flag
    got,       \* what the data port last returned
    id1,       \* the first byte of the identification
    controller,\* [irq1, irq2, clock1, clock2, translation]: set bits
    saved,     \* the copies of the configuration
    out,       \* the output buffer, and behind it what the devices keep
    device1,   \* [scanning, set] of the device at port 1
    awaits,    \* the device's second byte of a command
    dual,      \* dual_channel
    handler,   \* interrupts keyboard_interrupt has been installed for
    keys,      \* keys that have been hit
    early      \* one of them before the keyboard's name has been kept

ps2Vars == <<machine, phase, line, flag, got, id1, controller, saved, out, device1, awaits, dual,
             handler, keys, early>>

ByteOf(c) == c.irq1 + 2 * c.irq2 + 4 + 16 * c.clock1 + 32 * c.clock2 + 64 * c.translation
ConfigOf(byte) ==
    [irq1 |-> byte % 2, irq2 |-> (byte \div 2) % 2, clock1 |-> (byte \div 16) % 2,
     clock2 |-> (byte \div 32) % 2, translation |-> (byte \div 64) % 2]

Ps2Init(m) ==
    /\ machine = m
    /\ phase = "idle" /\ line = 1 /\ flag = TRUE /\ got = 0 /\ id1 = 0
    /\ controller = m.config /\ saved = m.config
    /\ out = <<>>
    /\ device1 = m.left /\ awaits = 0
    /\ dual = FALSE /\ handler = <<>> /\ keys = 0 /\ early = FALSE

----------------------------------------------------------------------------
(* The script: what probe does, one entry per access or decision. *)

Setup == <<
    <<"cli">>, <<"fadt">>, <<"resources">>, <<"8042">>,
    <<"command", 173>>, <<"command", 167>>, <<"flush">>,
    <<"readConfig">>, <<"quiet">>, <<"writeConfig">>,
    <<"readConfig">>, <<"command", 170>>, <<"read">>, <<"tested">>, <<"writeConfig">>,
    <<"command", 168>>, <<"readConfig">>, <<"second">>,
    <<"readConfig">>, <<"command", 174>>, <<"final">>, <<"writeConfig">> >>
(* reset_device: of the two bytes it reads neither needs to be the ACK.    *)
(* MUTANT: only one byte is read.                                          *)
ResetOnce(port) == << <<"send", port, 255>>, <<"read">> >>
Reset(port) == << <<"send", port, 255>>, <<"read">>, <<"read">> >>
Identify == <<
    <<"send", 1, 245>>, <<"read">>,
    <<"send", 1, 242>>, <<"read">>, <<"read">>, <<"keepId">>, <<"read">>,
    <<"send", 1, 244>>, <<"read">>,
    <<"send", 1, 240>>, <<"send", 1, 1>>, <<"read">>, <<"install">> >>
Script == Setup \o Reset(1) \o Identify \o << <<"dual">> >> \o Reset(2) \o << <<"sti">>, <<"flush">> >>

KeepLine == Len(Setup) + Len(Reset(1)) + 6   \* where the name is kept

Running(op) == phase = "running" /\ Script[line][1] = op
Goto(l) == line' = l /\ UNCHANGED phase

(* Every way out turns interrupts on. *)
NoDevice == phase' = "nodev" /\ flag' = TRUE /\ UNCHANGED line

----------------------------------------------------------------------------
(* The controller and the devices, as the probe uses them. *)

Answer(bytes) == out' = out \o bytes

(* The device at port 1: its answers to reset, identify, scanning off and  *)
(* on, and the two bytes that choose the scan codes.                       *)
Device1(byte) ==
    LET answers == Answer(<<ACK>>)
    IN CASE machine.first = <<>> -> UNCHANGED <<out, device1, awaits>>
         [] machine.first # <<>> /\ awaits # 0 ->
              answers /\ device1' = [device1 EXCEPT !.set = byte] /\ awaits' = 0
         [] OTHER ->
              CASE byte = 255 -> /\ Answer(<<ACK, BatPassed>>) /\ UNCHANGED awaits
                                 /\ device1' = [scanning |-> TRUE, set |-> 2]
                [] byte = 242 -> Answer(<<ACK>> \o machine.first) /\ UNCHANGED <<device1, awaits>>
                [] byte = 240 -> answers /\ awaits' = byte /\ UNCHANGED device1
                [] OTHER -> /\ answers /\ UNCHANGED awaits
                            /\ device1' = [device1 EXCEPT !.scanning = (byte = 244)]

(* Keyboards name themselves with KeyboardId or another second byte. *)
IsKeyboard == machine.first # <<>> /\ machine.first[1] = KeyboardId[1]

KeyHit ==
    /\ phase = "running" /\ keys < MaxKeys /\ device1.scanning /\ IsKeyboard
    /\ controller.clock1 = 0
    /\ keys' = keys + 1 /\ Answer(KeyBytes)
    /\ early' = (early \/ line <= KeepLine)
    /\ UNCHANGED <<machine, phase, line, flag, got, id1, controller, saved, device1, awaits, dual, handler>>

----------------------------------------------------------------------------
(* The steps of the script. *)

Same == UNCHANGED <<machine, keys, early>>

(* The probe is called, perhaps with a byte in the buffer. *)
probe ==
    /\ phase # "running" /\ phase' = "running" /\ line' = 1
    /\ out' \in {out, Append(out, KeyBytes[1])}
    /\ UNCHANGED <<machine, flag, got, id1, controller, saved, device1, awaits, dual, handler, keys, early>>

Cli ==
    /\ Running("cli") /\ Goto(line + 1) /\ flag' = FALSE
    /\ Same /\ UNCHANGED <<got, id1, controller, saved, out, device1, awaits, dual, handler>>

(* Without the table, the resources or the controller there is no device.  *)
Check(op, present) ==
    /\ Running(op)
    /\ IF present THEN Goto(line + 1) /\ UNCHANGED flag ELSE NoDevice
    /\ Same /\ UNCHANGED <<got, id1, controller, saved, out, device1, awaits, dual, handler>>

(* A controller without a second port ignores the commands for it.         *)
Command ==
    /\ Running("command") /\ Goto(line + 1)
    /\ LET byte == Script[line][2]
       IN /\ controller' = CASE byte = 173 -> [controller EXCEPT !.clock1 = 1]
                              [] byte = 174 -> [controller EXCEPT !.clock1 = 0]
                              [] byte = 167 /\ machine.dual -> [controller EXCEPT !.clock2 = 1]
                              [] byte = 168 /\ machine.dual -> [controller EXCEPT !.clock2 = 0]
                              [] OTHER -> controller
          /\ IF byte = 170 THEN Answer(<<machine.passes>>) ELSE UNCHANGED out
    /\ Same /\ UNCHANGED <<flag, got, id1, saved, device1, awaits, dual, handler>>

(* A flush reads while there is a byte.  MUTANT: it only looks. *)
FlushThen(rest) ==
    /\ Running("flush")
    /\ IF out # <<>> THEN out' = rest /\ UNCHANGED <<phase, line>>
       ELSE IF line < Len(Script) THEN Goto(line + 1) /\ UNCHANGED out
       ELSE phase' = "done" /\ UNCHANGED <<line, out>>
    /\ Same /\ UNCHANGED <<flag, got, id1, controller, saved, device1, awaits, dual, handler>>

Flush == FlushThen(Tail(out))

(* read_config: the answer is behind what there is. *)
ReadConfig ==
    /\ Running("readConfig") /\ Goto(line + 1)
    /\ LET answers == out \o <<ByteOf(controller)>>
       IN out' = Tail(answers) /\ got' = Head(answers) /\ saved' = ConfigOf(Head(answers))
    /\ Same /\ UNCHANGED <<flag, id1, controller, device1, awaits, dual, handler>>

WriteConfig ==
    /\ Running("writeConfig") /\ Goto(line + 1)
    /\ controller' = saved
    /\ Same /\ UNCHANGED <<flag, got, id1, saved, out, device1, awaits, dual, handler>>

Quiet ==
    /\ Running("quiet") /\ Goto(line + 1)
    /\ saved' = [saved EXCEPT !.irq1 = 0, !.irq2 = 0, !.translation = 0, !.clock1 = 0]
    /\ Same /\ UNCHANGED <<flag, got, id1, controller, out, device1, awaits, dual, handler>>

(* A second port is there when its clock is on after it has been turned on, *)
(* which it may have been without one.                                      *)
SecondPort ==
    /\ Running("second") /\ Goto(line + 1)
    /\ dual' = (saved.clock2 = 0)
    /\ controller' = IF dual' THEN [saved EXCEPT !.irq2 = 0] ELSE controller
    /\ Same /\ UNCHANGED <<flag, got, id1, saved, out, device1, awaits, handler>>

Final ==
    /\ Running("final") /\ Goto(line + 1)
    /\ saved' = IF dual THEN [saved EXCEPT !.irq1 = 1, !.clock1 = 0, !.irq2 = 1, !.clock2 = 0]
                ELSE [saved EXCEPT !.irq1 = 1, !.clock1 = 0]
    /\ Same /\ UNCHANGED <<flag, got, id1, controller, out, device1, awaits, dual, handler>>

(* What is for the second port goes to a mouse, or to nothing; without one *)
(* the command that says so is ignored, and the byte may go to the first.  *)
Device2(byte) ==
    \/ machine.dual /\ Answer(<<ACK, BatPassed>> \o MouseId) /\ UNCHANGED <<device1, awaits>>
    \/ UNCHANGED <<out, device1, awaits>>
    \/ ~machine.dual /\ Device1(byte)

Send ==
    /\ Running("send") /\ Goto(line + 1)
    /\ IF Script[line][2] = 1 THEN Device1(Script[line][3]) ELSE Device2(Script[line][3])
    /\ Same /\ UNCHANGED <<flag, got, id1, controller, saved, dual, handler>>

(* wait_for_read gives up after a time; the port then reads as it did.     *)
Read ==
    /\ Running("read") /\ Goto(line + 1)
    /\ got' = IF out = <<>> THEN got ELSE Head(out)
    /\ out' = IF out = <<>> THEN out ELSE Tail(out)
    /\ Same /\ UNCHANGED <<flag, id1, controller, saved, device1, awaits, dual, handler>>

KeepId ==
    /\ Running("keepId") /\ Goto(line + 1)
    /\ id1' = got
    /\ Same /\ UNCHANGED <<flag, got, controller, saved, out, device1, awaits, dual, handler>>

(* find_irq: the first interrupt among the resources, else 1. *)
KeyboardIrq == IF machine.irq = -1 THEN 1 ELSE machine.irq

Install ==
    /\ Running("install") /\ Goto(line + 1)
    /\ handler' = IF id1 = KeyboardId[1] THEN Append(handler, KeyboardIrq) ELSE handler
    /\ Same /\ UNCHANGED <<flag, got, id1, controller, saved, out, device1, awaits, dual>>

ResetSecond ==
    /\ Running("dual") /\ Goto(line + 1 + IF dual THEN 0 ELSE Len(Reset(2)))
    /\ Same /\ UNCHANGED <<flag, got, id1, controller, saved, out, device1, awaits, dual, handler>>

Sti ==
    /\ Running("sti") /\ Goto(line + 1) /\ flag' = TRUE
    /\ Same /\ UNCHANGED <<got, id1, controller, saved, out, device1, awaits, dual, handler>>

(* keyboard_interrupt takes bytes the last flush is after, too. *)
KeyboardInterrupt ==
    /\ flag /\ handler # <<>> /\ out # <<>> /\ controller.irq1 = 1
    /\ out' = Tail(out)
    /\ Same /\ UNCHANGED <<phase, line, flag, got, id1, controller, saved, device1, awaits, dual, handler>>

ScriptStep ==
    \/ Cli \/ Check("fadt", machine.fadt) \/ Check("resources", machine.resources)
    \/ Check("8042", machine.has8042) \/ Check("tested", got = 85)
    \/ Command \/ Flush \/ ReadConfig \/ WriteConfig \/ Quiet \/ SecondPort \/ Final \/ Send
    \/ Read \/ KeepId \/ Install \/ ResetSecond \/ Sti

----------------------------------------------------------------------------
(* A controller that has no second port and yet shows the clock of one as  *)
(* running is taken to have it, and the reset of what is not there may     *)
(* reach the keyboard.                                                     *)
SecondKnown == machine.dual \/ machine.config.clock2 = 1

(* Unless a key is hit before the keyboard's name has been kept, a keyboard *)
(* that is there is found, and nothing else is taken for one, however the   *)
(* firmware left the two: each answer is read as the answer to what it was  *)
(* asked with, also the second ACK that stays behind.  Its handler is       *)
(* installed once, for its interrupt, which is on, as is its clock, and     *)
(* what it sends is not translated.  If the ports are told apart it is left *)
(* scanning, with set 1, which the handler decodes.  Whichever way the      *)
(* probe ends, it leaves interrupts on.                                     *)
KeyboardFound ==
    /\ phase \in {"done", "nodev"} => flag
    /\ phase = "done" /\ ~early =>
         handler = IF IsKeyboard THEN <<KeyboardIrq>> ELSE <<>>
    /\ phase = "done" /\ ~early /\ handler # <<>> =>
         /\ controller.irq1 = 1 /\ controller.clock1 = 0 /\ controller.translation = 0
         /\ SecondKnown => device1 = [scanning |-> TRUE, set |-> 1]
=============================================================================

-------------------------------- MODULE Pci --------------------------------
(***************************************************************************)
(* Drivers/PCI.cpp: configuration space through the two ports, the search  *)
(* for a function by its class, and install_interrupt, which arms the      *)
(* function's messages (MSI) or falls back to its pin.                     *)
(*                                                                         *)
(* A function is the number 256 * bus + 8 * device + function, and its     *)
(* registers are 32-bit words, each a pair of halves <<low, high>>.        *)
(***************************************************************************)
EXTENDS Integers, Sequences, FiniteSets, FiniteSetsExt

CONSTANTS ApicBase,   \* the local APIC's address, from its MSR
          PciIrqs     \* numbers Install_handler accepts

VARIABLES
    config,   \* function -> offset -> word, of the functions there are
    task,     \* what install_interrupt does: [step, fn, cap, control, irq]
    vectors   \* vector -> functions whose handlers are installed there

pciVars == <<config, task, vectors>>

None == -1
NoTask == [step |-> "idle", fn |-> None, cap |-> 0, control |-> 0, irq |-> 0]

----------------------------------------------------------------------------
(* The accesses: a read of what is not there is all ones, and a narrow     *)
(* write reads the word and writes it back.                                *)

Aligned4(off) == 4 * (off \div 4)
HalfOf(off) == 1 + ((off \div 2) % 2)

Word(regs, off) == IF Aligned4(off) \in DOMAIN regs THEN regs[Aligned4(off)] ELSE <<0, 0>>
Half(regs, off) == Word(regs, off)[HalfOf(off)]
ByteOfWord(regs, off) == (Half(regs, off) \div (IF off % 2 = 1 THEN 256 ELSE 1)) % 256
With(regs, off, word) ==
    [o \in DOMAIN regs \cup {Aligned4(off)} |-> IF o = Aligned4(off) THEN word ELSE regs[o]]

NoFunction == [off \in {4 * n : n \in 0..63} |-> <<65535, 65535>>]
Registers(fn) == IF fn \in DOMAIN config THEN config[fn] ELSE NoFunction

pci_read32(fn, off) == Word(Registers(fn), off)
pci_read16(fn, off) == Half(Registers(fn), off)
pci_read8(fn, off) == ByteOfWord(Registers(fn), off)

Written32(fn, off, word) == [config EXCEPT ![fn] = With(@, off, word)]

WithHalf(regs, off, value) == With(regs, off, [Word(regs, off) EXCEPT ![HalfOf(off)] = value])
Written16(fn, off, value) == [config EXCEPT ![fn] = WithHalf(@, off, value)]

(* Bits are named by their values. *)
Bit(value, b) == (value \div b) % 2
WithBit(value, b) == IF Bit(value, b) = 1 THEN value ELSE value + b
WithoutBit(value, b) == IF Bit(value, b) = 1 THEN value - b ELSE value

----------------------------------------------------------------------------
(* The searches go by bus, device and function.  A device is there when    *)
(* its function 0 is, and has others when that one's header says so.       *)

Vendor(fn) == pci_read16(fn, 0)
DeviceId(fn) == pci_read16(fn, 2)
Function0(fn) == 8 * (fn \div 8)

Visible(fn) ==
    /\ Vendor(Function0(fn)) # 65535
    /\ fn % 8 = 0 \/ Bit(pci_read8(Function0(fn), 14), 128) = 1
    /\ Vendor(fn) \notin {0, 65535}

(* get_class, as <<base class, subclass, interface>>. *)
ClassOf(fn) == <<pci_read8(fn, 11), pci_read8(fn, 10), pci_read8(fn, 9)>>

First(fns) == IF fns = {} THEN None ELSE Min(fns)

Find_Class(class) == First({fn \in DOMAIN config : Visible(fn) /\ ClassOf(fn) = class})

find_vendor_class(vendor, base, sub) ==
    First({fn \in DOMAIN config : /\ Visible(fn) /\ Vendor(fn) = vendor
                                  /\ SubSeq(ClassOf(fn), 1, 2) = <<base, sub>>})

find_class_with_sub(base, sub) ==
    First({fn \in DOMAIN config : Visible(fn) /\ SubSeq(ClassOf(fn), 1, 2) = <<base, sub>>})

(* Whoever does not look whether a function has been found goes on with a  *)
(* zeroed one, whose address is that of the host bridge.                   *)
OrZeroed(fn) == IF fn = None THEN 0 ELSE fn

----------------------------------------------------------------------------
(* get_msi_offset: the list of capabilities, 32 of them at most, from the  *)
(* first to where each one points; the number 5 is that of messages.       *)
MaxHops == 32

Chain(first, next) ==
    LET caps[hop \in 0..MaxHops - 1] ==
            IF hop = 0 THEN first ELSE IF caps[hop - 1] = 0 THEN 0 ELSE next[caps[hop - 1]]
    IN caps
Capabilities(regs) ==
    Chain(ByteOfWord(regs, 52), [cap \in 0..255 |-> ByteOfWord(regs, cap + 1)])
MsiOffset(regs) ==
    LET caps == Capabilities(regs)
        found == {hop \in 0..MaxHops - 1 : caps[hop] # 0 /\ ByteOfWord(regs, caps[hop]) = 5}
    IN IF found = {} THEN 0 ELSE caps[Min(found)]

get_msi_offset(fn) == MsiOffset(Registers(fn))

(* install_interrupt(fn, handler, irq): without messages the number is     *)
(* that of the function's line.                                            *)
InstallInterrupt(fn, irq) ==
    \E cap \in {get_msi_offset(fn)} :
       task' = IF cap = 0 THEN [NoTask EXCEPT !.step = "handler", !.fn = fn, !.irq = pci_read8(fn, 60)]
               ELSE [step |-> "off", fn |-> fn, cap |-> cap, irq |-> irq,
                     control |-> WithoutBit(pci_read16(fn, cap + 2), 1)]

(* The registers a function may have: aligned words, and capabilities that *)
(* are aligned, follow the header, and stay clear of the one of messages,  *)
(* whose data are its last register.                                       *)
HalfWords == {v \in Nat : v < 65536}
Words == HalfWords \X HalfWords

Is64(control) == Bit(control, 128) = 1
DataAt(regs, cap) == cap + IF Is64(Half(regs, cap + 2)) THEN 12 ELSE 8

Aligned(regs) ==
    /\ regs \in [DOMAIN regs -> Words]
    /\ \A off \in DOMAIN regs : off \in Nat /\ off % 4 = 0
CapabilityOk(regs, cap, msi) ==
    /\ cap % 4 = 0 /\ 64 <= cap
    /\ cap <= msi \/ DataAt(regs, msi) < cap
RegistersOk(regs) ==
    /\ Aligned(regs)
    /\ \A hop \in 0..MaxHops - 1 :
          Capabilities(regs)[hop] # 0 => CapabilityOk(regs, Capabilities(regs)[hop], MsiOffset(regs))

ConfigOk(c) ==
    /\ DOMAIN c \subseteq Nat /\ c = [fn \in DOMAIN c |-> c[fn]]
    /\ \A fn \in DOMAIN c : RegistersOk(c[fn])

----------------------------------------------------------------------------
Step(from, to) == task.step = from /\ task' = [task EXCEPT !.step = to]

MsiOff ==
    /\ Step("off", "address")
    /\ config' = Written16(task.fn, task.cap + 2, task.control)
    /\ UNCHANGED vectors

(* One message only: the bits are cleared in what is written at the end.   *)
OneMessage(control) == WithoutBit(WithoutBit(WithoutBit(control, 16), 32), 64)

MsiAddress ==
    /\ task.step = "address"
    /\ task' = [task EXCEPT !.step = "data", !.control = OneMessage(@)]
    /\ config' = Written32(task.fn, task.cap + 4, ApicBase)
    /\ UNCHANGED vectors

Vector == task.irq + 32

(* The data is behind the address, which may have an upper half. *)
MsiData ==
    /\ Step("data", "intx")
    /\ config' = IF Is64(task.control)
                 THEN [config EXCEPT ![task.fn] =
                         WithHalf(With(@, task.cap + 8, <<0, 0>>), task.cap + 12, Vector)]
                 ELSE Written16(task.fn, task.cap + 8, Vector)
    /\ UNCHANGED vectors

IntxOff ==
    /\ Step("intx", "handler")
    /\ config' = Written16(task.fn, 4, WithBit(pci_read16(task.fn, 4), 1024))
    /\ UNCHANGED vectors

(* Install_handler, which may refuse; nobody asks. *)
Installed(v) == IF v \in DOMAIN vectors THEN vectors[v] ELSE <<>>

HandlerInstalled ==
    vectors' = IF task.irq >= PciIrqs \/ Len(Installed(task.irq + 32)) >= 4 THEN vectors
               ELSE [v \in DOMAIN vectors \cup {task.irq + 32} |->
                        IF v = task.irq + 32 THEN Append(Installed(v), task.fn) ELSE vectors[v]]

PciHandler ==
    /\ task.step = "handler"
    /\ task' = IF task.cap = 0 THEN NoTask ELSE [task EXCEPT !.step = "on"]
    /\ HandlerInstalled
    /\ UNCHANGED config

EnableWritten == config' = Written16(task.fn, task.cap + 2, WithBit(task.control, 1))

MsiOn ==
    /\ task.step = "on" /\ task' = NoTask
    /\ EnableWritten
    /\ UNCHANGED vectors

(* MUTANT: messages are turned on first, then their handler is installed. *)
PciStepSwapped ==
    \/ MsiOff \/ MsiAddress \/ MsiData \/ IntxOff
    \/ task.cap = 0 /\ PciHandler
    \/ task.cap # 0 /\ Step("handler", "on") /\ EnableWritten /\ UNCHANGED vectors
    \/ task.step = "on" /\ task' = NoTask /\ HandlerInstalled /\ UNCHANGED config

PciStep == MsiOff \/ MsiAddress \/ MsiData \/ IntxOff \/ PciHandler \/ MsiOn

----------------------------------------------------------------------------
(* The messages of a function whose capability is at cap, as the hardware  *)
(* reads its registers.                                                    *)
MsiEnabled(fn, cap) == cap # 0 /\ Bit(pci_read16(fn, cap + 2), 1) = 1
MsiVector(fn, cap) == pci_read16(fn, DataAt(Registers(fn), cap))

(* A function that install_interrupt has been asked for sends no message   *)
(* that is not handled, while it is being installed and ever after: when   *)
(* its messages are on, they carry a vector with its handler to the local  *)
(* APIC, one vector is all it uses, and its pin is off.  The firmware may  *)
(* have left them on, which lasts until the first write.                   *)
Armed(fn, cap) ==
    /\ \E i \in DOMAIN Installed(MsiVector(fn, cap)) : Installed(MsiVector(fn, cap))[i] = fn
    /\ pci_read32(fn, cap + 4) = ApicBase
    /\ Bit(pci_read16(fn, 4), 1024) = 1
    /\ OneMessage(pci_read16(fn, cap + 2)) = pci_read16(fn, cap + 2)

MsiArmed(asked) ==
    \A fn \in asked \cap DOMAIN config :
        ~(task.fn = fn /\ task.step = "off") =>
            \A cap \in {get_msi_offset(fn)} : MsiEnabled(fn, cap) => Armed(fn, cap)
============================================================================

-------------------------------- MODULE Boot --------------------------------
(***************************************************************************)
(* kernel_main and systemPL::Init: the order in which the system is        *)
(* brought up, from what Limine hands over to user mode.  The composition  *)
(* of Pci, Ps2Probe and Storage: a device is looked for, asked to          *)
(* interrupt, and used, and an ACPI device is given to its driver's probe. *)
(* What the devices do afterwards is in modules of their own.              *)
(***************************************************************************)
EXTENDS Pci, Ps2Probe, Storage

(* What there may be: the functions on the bus, what the firmware says     *)
(* ([framebuffer, memmap, acpi, namespace]), the keyboard's controller,    *)
(* the AHCI ports and the disk.                                            *)
CONSTANT Computers   \* [config, firmware, machine, ports, disk]

ASSUME ConfigsAssumption ==
    /\ ApicBase \in Words /\ PciIrqs \in Nat /\ PciIrqs > 15
    /\ \A c \in Computers : ConfigOk(c.config)
ASSUME DisksAssumption == \A c \in Computers : DiskOk(c.disk)

(* There is one keyboard's controller, and the namespace has it once. *)
ps2k_pnp_ids == <<"PNP0303">>

Nodes == [hid : STRING, cids : SUBSET STRING]
KeyboardNode(node) == node.hid = ps2k_pnp_ids[1] \/ ps2k_pnp_ids[1] \in node.cids
KeyboardOnce(namespace) ==
    \A i, j \in DOMAIN namespace :
        KeyboardNode(namespace[i]) /\ KeyboardNode(namespace[j]) => i = j

ASSUME KeyboardsAssumption ==
    \A c \in Computers :
        /\ c.machine \in Machines
        /\ c.firmware.namespace \in Seq(Nodes) /\ KeyboardOnce(c.firmware.namespace)

VARIABLES
    stage,     \* how far Init has come
    firmware,  \* what Limine and ACPI say
    heap,      \* where heap_init has been told to begin
    drivers,   \* acpi.drivers: [ids] in the order of registration
    nodes,     \* devices of the namespace still to visit
    asked      \* functions install_interrupt has been called for

initVars == <<stage, firmware, heap, drivers, nodes, asked>>
vars == <<initVars, pciVars, ps2Vars, storageVars>>

Init ==
    /\ stage = "entry" /\ heap = None
    /\ drivers = <<>> /\ nodes = <<>> /\ asked = {}
    /\ task = NoTask /\ vectors = <<>>
    /\ \E c \in Computers :
         /\ config = c.config /\ firmware = c.firmware
         /\ Ps2Init(c.machine) /\ StorageInit(c.ports, c.disk)

Devices == <<pciVars, ps2Vars, storageVars>>
At(from, to) == stage = from /\ stage' = to

----------------------------------------------------------------------------
(* kernel_main: the heap goes to the first usable entry of 8 MiB or more.  *)
MinHeap == 8
Usable8(entry) == entry.type = "usable" /\ entry.mib >= MinHeap
Candidates == {i \in DOMAIN firmware.memmap : Usable8(firmware.memmap[i])}

kernel_main ==
    /\ firmware.framebuffer /\ Candidates # {}
    /\ At("entry", "memory")
    /\ heap' = firmware.memmap[Min(Candidates)].base
    /\ UNCHANGED <<firmware, drivers, nodes, asked, Devices>>

Halt ==
    /\ ~firmware.framebuffer \/ Candidates = {}
    /\ At("entry", "halted")
    /\ UNCHANGED <<firmware, heap, drivers, nodes, asked, Devices>>

(* The heap, the page tables, the IDT, the timers and ACPI; each is a      *)
(* component of its own.  That ACPI fails is not noticed.                  *)
InitCore ==
    /\ At("memory", "xhci")
    /\ UNCHANGED <<firmware, heap, drivers, nodes, asked, Devices>>

----------------------------------------------------------------------------
(* Find a function and install its interrupt, or go on without. *)

Ask(fn, irq, from, to) ==
    /\ At(from, to)
    /\ \E f \in {fn} : InstallInterrupt(f, irq) /\ asked' = asked \cup {f}
    /\ UNCHANGED <<firmware, heap, drivers, nodes, vectors, ps2Vars, storageVars>>

Without(from, to) ==
    At(from, to) /\ UNCHANGED <<firmware, heap, drivers, nodes, asked, Devices>>

IoBar(fn) == pci_read32(fn, 16)[1] % 2 = 1
Xhci == Find_Class(<<12, 3, 48>>)

(* xhci_driver::init_device; the controller's reset may time out. *)
XhciInit ==
    /\ task = NoTask
    /\ \/ /\ Xhci # None /\ ~IoBar(Xhci)
          /\ Ask(Xhci, 10, "xhci", "rtl") /\ UNCHANGED config
       \/ Without("xhci", "rtl")

(* RTL8139::Init: the card is told to be bus master first. *)
Rtl == find_vendor_class(4332, 2, 0)
RtlFound == Rtl # None /\ DeviceId(Rtl) = 33081

RtlInit ==
    /\ task = NoTask
    /\ IF RtlFound
       THEN /\ \E fn \in {Rtl} :
                 config' = Written16(fn, 4, WithBit(WithBit(pci_read16(fn, 4), 4), 1))
            /\ At("rtl", "rtlIrq")
            /\ UNCHANGED <<firmware, heap, drivers, nodes, asked, task, vectors, ps2Vars, storageVars>>
       ELSE Without("rtl", "ps2")

(* Reset_Device gives up after five times, and the card is left out. *)
RtlIrq ==
    \/ Ask(Rtl, 15, "rtlIrq", "ps2") /\ UNCHANGED config
    \/ Without("rtlIrq", "ps2")

----------------------------------------------------------------------------
(* ACPI: drivers are registered, and the namespace's devices are given to  *)
(* the first driver with the device's hardware id, or else a compatible    *)
(* one.                                                                    *)

RegisterPs2 ==
    /\ task = NoTask
    /\ At("ps2", "nodes")
    /\ drivers' = Append(drivers, [ids |-> ps2k_pnp_ids])
    /\ nodes' = IF firmware.acpi THEN firmware.namespace ELSE <<>>
    /\ UNCHANGED <<firmware, heap, asked, Devices>>

DriverOf(ids) == First({d \in DOMAIN drivers : ToSet(drivers[d].ids) \cap ids # {}})
Driver(node) == IF DriverOf({node.hid}) # None THEN DriverOf({node.hid}) ELSE DriverOf(node.cids)

(* init_device: probe runs to its end before the next device. *)
init_device ==
    /\ stage = "nodes" /\ nodes # <<>> /\ phase # "running"
    /\ nodes' = Tail(nodes)
    /\ IF Driver(Head(nodes)) = None THEN UNCHANGED ps2Vars ELSE probe
    /\ UNCHANGED <<stage, firmware, heap, drivers, asked, pciVars, storageVars>>

Probing == ScriptStep /\ UNCHANGED <<initVars, pciVars, storageVars>>

Enumerated ==
    /\ nodes = <<>> /\ phase # "running"
    /\ Without("nodes", "ahci")

----------------------------------------------------------------------------
(* ahci::init, the partitions, and user mode.  Without a controller the    *)
(* registers are taken to be at address 0, and a port that has not been    *)
(* configured is used all the same: what happens then is not modelled.     *)

Ahci == find_class_with_sub(1, 6)

AhciInit == Ask(OrZeroed(Ahci), 11, "ahci", "ahciPorts") /\ UNCHANGED config

Arming == PciStep /\ UNCHANGED <<initVars, ps2Vars, storageVars>>

AhciPorts ==
    /\ stage = "ahciPorts" /\ task = NoTask /\ Ahci # None
    /\ AhciStep
    /\ UNCHANGED <<initVars, pciVars, ps2Vars>>

AllIdentified == ahci = "ready" /\ identified = active

InitPartitions ==
    AllIdentified /\ request_device(0).active /\ Without("ahciPorts", "partitions")
Partitioning == stage = "partitions" /\ PartitionStep /\ UNCHANGED <<initVars, pciVars, ps2Vars>>

Wild ==
    /\ task = NoTask
    /\ Ahci = None \/ (AllIdentified /\ ~request_device(0).active)
    /\ Without("ahciPorts", "wild")

EnterUser == pm \in {"done", "failed"} /\ Without("partitions", "user")

KernelStep ==
    \/ kernel_main \/ Halt \/ InitCore \/ XhciInit \/ RtlInit \/ RtlIrq \/ RegisterPs2
    \/ init_device \/ Probing \/ Enumerated \/ AhciInit \/ Arming \/ AhciPorts
    \/ InitPartitions \/ Partitioning \/ Wild \/ EnterUser

KeyboardStep == (KeyHit \/ KeyboardInterrupt) /\ UNCHANGED <<initVars, pciVars, storageVars>>

Next == KernelStep \/ KeyboardStep

(* The one thread of the boot goes on whenever it can. *)
Spec == Init /\ [][Next]_vars /\ WF_vars(KernelStep)

----------------------------------------------------------------------------
(* install_interrupt, for all that Init installs. *)
BootMsiArmed == MsiArmed(asked)

(* Given a frame buffer, enough memory, an AHCI controller anywhere on the *)
(* bus and a SATA drive awake at its port 0, the kernel comes to user mode,*)
(* whatever the firmware left in the other devices and whatever the disk   *)
(* holds, but for a header that has the reader leave its buffers: one that *)
(* says it is longer than a header is, whose entries take no room or more  *)
(* than 32 bits of it, or whose table is of 512 MiB.                       *)
HasAhci == \E fn \in DOMAIN config : SubSeq(ClassOf(fn), 1, 2) = <<1, 6>>
Bootable ==
    /\ firmware.framebuffer
    /\ \E i \in DOMAIN firmware.memmap :
          firmware.memmap[i].type = "usable" /\ firmware.memmap[i].mib >= 8
    /\ HasAhci
    /\ 0 \in DOMAIN ports /\ ports[0] = [det |-> 3, ipm |-> 1, sig |-> "sata"]
    /\ Contained(drive)
    /\ HasSector1(drive) /\ HeaderOn(drive).kind = "header" =>
          TableSize(drive) \div SectorUnits <= Limit

=============================================================================

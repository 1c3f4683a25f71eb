------------------------------- MODULE MCBoot -------------------------------
(* Four busses, fourteen keyboards, five firmwares, three sets of ports    *)
(* and 21 disks: each keyboard with each firmware, each disk, and each bus *)
(* with each set of ports.                                                 *)
EXTENDS Boot, Crc, TLC

MCApicBase == <<0, 65248>>

----------------------------------------------------------------------------
(* A function: identification, command, class, header type, and the rest.  *)
Fn(vendor, device, class, header, rest) ==
    rest @@ (0 :> <<vendor, device>>) @@ (4 :> <<0, 16>>)
         @@ (8 :> <<256 * class[3], 256 * class[1] + class[2]>>) @@ (12 :> <<0, header>>)

Bar == 16 :> <<0, 65024>>
Bridge(header) == Fn(32902, 10688, <<6, 0, 0>>, header, 60 :> <<0, 0>>)
Line(irq) == 60 :> <<256 + irq, 0>>
(* The capability is the second of the list; its control word. *)
Msi(control) ==
    (52 :> <<64, 0>>) @@ (64 :> <<1 + 256 * 80, 3>>) @@ (80 :> <<5, control>>)
        @@ (84 :> <<0, 0>>) @@ (88 :> <<0, 0>>) @@ (92 :> <<0, 0>>)
MsiOnly32 == 16 + 2 * 16 + 2 \* of 4 messages, 4 of them and no enable; 32 bits
Msi64 == 128 + 1             \* 64 bits, left on by the firmware

XhciFn(rest) == Fn(6966, 13, <<12, 3, 48>>, 0, rest)
AhciFn(header, rest) == Fn(32902, 10530, <<1, 6, 1>>, header, rest)
RtlFn(device, rest) == Fn(4332, device, <<2, 0, 0>>, 0, rest)

(* AHCI is the third function of a device; the line of the network card is *)
(* shared with it on the second bus, and not connected on the third.       *)
Bus1 ==
    (0 :> Bridge(0)) @@ (24 :> RtlFn(33081, Bar @@ Line(11))) @@ (32 :> XhciFn(Bar @@ Msi(Msi64)))
        @@ (248 :> Bridge(128)) @@ (250 :> AhciFn(128, Msi(Msi64)))
MCConfigs == {
    Bus1,
    (0 :> Bridge(0)) @@ (16 :> AhciFn(0, Line(11))) @@ (24 :> RtlFn(33081, Bar @@ Line(11)))
        @@ (256 :> XhciFn(Bar @@ Msi(MsiOnly32))),
    (0 :> Bridge(0)) @@ (16 :> AhciFn(0, Msi(MsiOnly32))) @@ (24 :> RtlFn(33128, Bar @@ Line(255)))
        @@ (32 :> XhciFn((16 :> <<1, 49152>>) @@ Line(10))),
    (0 :> Bridge(0)) @@ (24 :> RtlFn(33081, Bar @@ Line(255))) }

----------------------------------------------------------------------------
(* The firmware leaves the keyboard to interrupts; or everything off, or    *)
(* the clock of a second port that is not there running.                   *)
Keyboard(port2, irq) ==
    [fadt |-> TRUE, resources |-> TRUE, has8042 |-> TRUE, passes |-> 85, dual |-> port2,
     irq |-> irq, first |-> KeyboardId, left |-> [scanning |-> TRUE, set |-> 2],
     config |-> [irq1 |-> 1, irq2 |-> 0, clock1 |-> 0, clock2 |-> 1, translation |-> 1]]
LeftOff(keyboard) ==
    [keyboard EXCEPT !.left = [scanning |-> FALSE, set |-> 1],
                     !.config = [irq1 |-> 0, irq2 |-> 1, clock1 |-> 1, clock2 |-> 0, translation |-> 0]]
MCMachines == {
    Keyboard(FALSE, 1), Keyboard(TRUE, -1), Keyboard(TRUE, 12),
    [Keyboard(FALSE, 1) EXCEPT !.fadt = FALSE], [Keyboard(FALSE, 1) EXCEPT !.resources = FALSE],
    [Keyboard(FALSE, 1) EXCEPT !.has8042 = FALSE], [Keyboard(FALSE, 1) EXCEPT !.passes = 252],
    [Keyboard(TRUE, 1) EXCEPT !.first = MouseId], [Keyboard(TRUE, 1) EXCEPT !.first = <<171, 65>>],
    [Keyboard(FALSE, 1) EXCEPT !.first = <<>>],
    LeftOff(Keyboard(FALSE, 1)), LeftOff(Keyboard(TRUE, 1)), LeftOff([Keyboard(FALSE, 1) EXCEPT !.first = <<>>]),
    [Keyboard(FALSE, 1) EXCEPT !.config.clock2 = 0] }
MCKeyBytes == <<30, 158>>
(* A keyboard alone, whatever the firmware has left the two in. *)
Bits == [{"irq1", "irq2", "clock1", "clock2", "translation"} -> {0, 1}]
Lefts == [scanning : BOOLEAN, set : {1, 2}]
MCKeyboards == { [Keyboard(p, 1) EXCEPT !.config = c, !.left = l] : p \in BOOLEAN, c \in Bits, l \in Lefts }

Entry(type, mib, base) == [type |-> type, mib |-> mib, base |-> base]
Node(hid, cids) == [hid |-> hid, cids |-> cids]
Firmware ==
    [framebuffer |-> TRUE, acpi |-> TRUE,
     memmap |-> <<Entry("reserved", 64, 0), Entry("usable", 7, 1), Entry("usable", 128, 2)>>,
     namespace |-> <<Node("PNP0A08", {}), Node("PNP0303", {})>>]
MCFirmwares == {
    Firmware, [Firmware EXCEPT !.namespace = <<Node("LEN0071", {"PNP0F13", "PNP0303"})>>],
    [Firmware EXCEPT !.framebuffer = FALSE], [Firmware EXCEPT !.acpi = FALSE],
    [Firmware EXCEPT !.memmap = <<Entry("usable", 7, 1)>>] }

----------------------------------------------------------------------------
Port(det, ipm, sig) == [det |-> det, ipm |-> ipm, sig |-> sig]
Sata == Port(3, 1, "sata")
SataPorts == (0 :> Sata) @@ (2 :> Port(3, 1, "satapi"))
MCPorts == { SataPorts, 0 :> Port(3, 2, "sata"), 1 :> Sata }

(* Disks: a table of so many entries, each of so many units. *)
Item(n) == [kind |-> "entry", type |-> IF n % 3 = 2 THEN 0 ELSE n, start |-> n, name |-> (n % 4) + 1]
Lba(n) == <<n, 0, 0, 0, 0, 0, 0, 0>>
Table(count, size) == [u \in 1..count * size |-> IF u % size = 1 % size THEN Item((u - 1) \div size + 1) ELSE Unused]
Summed(h) == [h EXCEPT !.sum = crc32(SubSeq(HeaderBytes(h), 1, h.hsize))]
HeaderOf(table, count, size, at) ==
    LET h == [kind |-> "header", signature |-> TRUE, hsize |-> HeaderSize, lba |-> Lba(1), table |-> Lba(at), count |-> count,
              size |-> size, arraySum |-> crc32(TableBytes(table)), sum |-> <<0, 0>>]
    IN Summed(h)
Padded(units) == units \o [u \in 1..SectorUnits |-> Unused]
Disk(header, table) ==
    (<<1, 0, 0, 0, 0, 0>> :> Padded(<<header>>)) @@ (SubSeq(header.table, 1, 6) :> Padded(table))
Gpt(count, size, at) == LET t == Table(count, size) IN Disk(HeaderOf(t, count, size, at), t)

Small == HeaderOf(Table(4, 1), 4, 1, 2)
MCDisks == {
    Gpt(4, 1, 2), Gpt(8, 1, 2), Gpt(12, 1, 34), Gpt(8, 2, 2), Gpt(6, 1, 2), Gpt(20, 1, 2), Gpt(3, 1, 2),
    Disk(Small, [Table(4, 1) EXCEPT ![3] = Item(7)]),
    Disk([Small EXCEPT !.signature = FALSE], Table(4, 1)),
    Disk([Small EXCEPT !.count = 3], Table(3, 1)),
    [Gpt(4, 1, 2) EXCEPT ![SplitAddress(Lba(2))] = <<>>],
    Disk(Summed([Small EXCEPT !.lba = Lba(9)]), Table(4, 1)),
    \* no sum at all, one over the first half, and a length of more than the copy
    Disk([Small EXCEPT !.hsize = 0, !.sum = <<0, 0>>], Table(4, 1)),
    Disk(Summed([Small EXCEPT !.hsize = 9]), Table(4, 1)),
    Disk([Summed([Small EXCEPT !.hsize = 9]) EXCEPT !.count = 3], Table(4, 1)),
    Disk([Small EXCEPT !.hsize = 200], Table(4, 1)),
    \* no entries, on a disk that has the sectors of a count of 0 and on one that has not;
    \* entries of no size; a product that wraps; and regions that do
    Disk(HeaderOf(<<>>, 0, 1, 2), Table(32, 1)), Disk(HeaderOf(<<>>, 0, 1, 2), Table(4, 1)),
    Disk(HeaderOf(<<>>, 3, 0, 2), Table(32, 1)),
    Disk(HeaderOf(Table(4, 1), 33, 4, 2), Table(4, 1)),
    Disk(HeaderOf(Table(4, 1), 18, 4, 2), Table(4, 1)) }

----------------------------------------------------------------------------
Computer(c, f, m, p, d) == [config |-> c, firmware |-> f, machine |-> m, ports |-> p, disk |-> d]
Fadtless == [Keyboard(FALSE, 1) EXCEPT !.fadt = FALSE]
MCComputers ==
    { Computer(Bus1, f, m, SataPorts, Gpt(4, 1, 2)) : f \in MCFirmwares, m \in MCMachines }
    \cup { Computer(Bus1, Firmware, Fadtless, SataPorts, d) : d \in MCDisks }
    \cup { Computer(0 :> Bridge(0), Firmware, m, SataPorts, Gpt(4, 1, 2)) : m \in MCKeyboards }
    \cup { Computer(c, Firmware, Fadtless, p, Gpt(4, 1, 2)) : c \in MCConfigs, p \in MCPorts }
=============================================================================

------------------------------ MODULE Storage ------------------------------
(***************************************************************************)
(* From the AHCI controller to the partitions: ahci::init and its devices, *)
(* the transfers a port is asked for (the table of memory regions and the  *)
(* command), and partition_manager::init, which reads a GPT.  How a        *)
(* command is issued and completes is in AhciPort.                         *)
(*                                                                         *)
(* Memory and disk are counted in units of one partition entry, which is a *)
(* quarter of a sector; the header of a GPT is in one unit too.  A disk    *)
(* address is the tuple of its 8 bytes.                                    *)
(***************************************************************************)
EXTENDS Integers, Sequences, FiniteSets, SequencesExt

CONSTANTS SectorUnits,   \* units of a sector (512 bytes)
          RegionUnits,   \* units of a region (8192 bytes)
          MaxRegions,    \* MAX_PRDT_SIZE (8)
          CountValues,   \* values of the 16 bits of a count (65536)
          SizeValues,    \* units that 32 bits count in bytes (2^32 / 128)
          Crc32(_)       \* crc32 of bytes: crc32 of Crc

PerRegion == RegionUnits \div SectorUnits   \* sectors_per_prdt

(* A region is of whole sectors, and the 16 bits of a command are enough   *)
(* for the sectors of a table.                                             *)
ASSUME SizesAssumption ==
    /\ SectorUnits \in Nat \ {0} /\ RegionUnits \in Nat \ {0} /\ MaxRegions \in Nat \ {0}
    /\ CountValues \in Nat \ {0} /\ SizeValues \in Nat \ {0}
    /\ RegionUnits = PerRegion * SectorUnits
    /\ MaxRegions * PerRegion < CountValues

VARIABLES
    ahci,       \* "start" | "enabled" | "ready" : ahci::init
    ports,      \* the ports' registers: port -> [det, ipm, sig]
    active,     \* ports that are configured
    identified, \* ports whose device has been initialized
    drive,      \* behind port 0: address -> units that are there and behind it
    req,        \* the transfer: [start, count, buffer, i, left, next]
    regions,    \* the command table: [base, units]
    fis,        \* the command: [lba, count]
    memory,     \* address -> unit; what malloc has not handed out is junk
    pm,         \* where partition_manager::init is
    partitions  \* the vector's entries

storageVars == <<ahci, ports, active, identified, drive, req, regions, fis, memory, pm, partitions>>

(* What only ahci::init and initialize change. *)
PmVars == <<ahci, ports, active, identified, drive>>

Bytes == 0..255
Unused == [kind |-> "unused"]
Junk == [kind |-> "junk"]
Entries == [kind : {"entry"}, type : Nat, start : Nat, name : Nat]
Headers ==
    [kind : {"header"}, signature : BOOLEAN, hsize : Nat, lba : Seq(Bytes), table : Seq(Bytes),
     count : Nat, size : Nat, arraySum : Nat \X Nat, sum : Nat \X Nat]
Units == Entries \cup Headers \cup {Unused, Junk}

HeaderBuf == 0            \* malloc_align(512, 4)
TableBuf == SectorUnits   \* malloc_align(total_size, 4)

(* A command of zeros, and what read and write put into it. *)
NoFis == [lba |-> <<>>, count |-> 0]
NoReq == [start |-> <<>>, count |-> 0, buffer |-> 0, i |-> 1, left |-> 0, next |-> 0]

Memory == 0..TableBuf + RegionUnits * (MaxRegions + 1)

StorageInit(registers, disk) ==
    /\ ahci = "start" /\ ports = registers /\ active = {} /\ identified = {}
    /\ drive = disk
    /\ req = NoReq /\ regions = <<>> /\ fis = NoFis
    /\ memory = [a \in Memory |-> Junk]
    /\ pm = "start" /\ partitions = <<>>

----------------------------------------------------------------------------
(* The controller. *)

(* get_port_type: a device is there and awake; the packet devices count,   *)
(* enclosures and port multipliers do not.                                 *)
get_port_type(port) ==
    IF port.det # 3 \/ port.ipm # 1 THEN "none" ELSE port.sig

EnableAhci ==
    /\ ahci = "start" /\ ahci' = "enabled"
    /\ UNCHANGED <<ports, active, identified, drive, req, regions, fis, memory, pm, partitions>>

(* probe_ports, and the controller's interrupts behind it. *)
ProbePorts ==
    /\ ahci = "enabled" /\ ahci' = "ready"
    /\ active' = {p \in DOMAIN ports : get_port_type(ports[p]) \in {"sata", "satapi"}}
    /\ UNCHANGED <<ports, identified, drive, req, regions, fis, memory, pm, partitions>>

(* ahci_port::identify asks for one sector in one region; the buffer of    *)
(* ahci_device::initialize is used for nothing else.                       *)
IdentifyBuf == -SectorUnits
IdentifyTable == <<[base |-> IdentifyBuf, units |-> SectorUnits]>>

(* Init initializes the device of each active port, the lowest first, and  *)
(* does not look at the result.                                            *)
Initialize(p) ==
    /\ ahci = "ready" /\ p \in active \ identified
    /\ \A q \in active \ identified : p <= q
    /\ identified' = identified \cup {p}
    /\ regions' = IdentifyTable /\ fis' = NoFis
    /\ UNCHANGED <<ahci, ports, active, drive, req, memory, pm, partitions>>

(* A new device has sectors of 512 bytes until it is initialized.  That is *)
(* what request_device makes each time, whatever an earlier one has learnt. *)
ahci_device(port, is_active) ==
    [port |-> port, active |-> is_active, sectorUnits |-> SectorUnits]
request_device(p) == ahci_device(p, p \in active)

----------------------------------------------------------------------------
(* ahci_port::read and write. *)

(* MUTANT: a whole region too many when the sectors fill the last one. *)
RegionCountUp(count) == (count * SectorUnits) \div RegionUnits + 1

(* prd_table_length has 16 bits.  For no sectors count - 1 wraps, and the  *)
(* 2^32 / 16 regions are none of them.                                     *)
RegionCount(count) ==
    IF count = 0 THEN 0 ELSE ((count - 1) \div PerRegion + 1) % CountValues
Limit == (CountValues - 1) * PerRegion   \* the sectors whose regions 16 bits can count

SplitAddress(start) == [i \in 1..6 |-> start[i]]

(* The table is built after the length has been checked; a request that is *)
(* too long leaves it as it was.                                           *)
ReadBegin(start, count, buffer) ==
    /\ req' = [start |-> start, count |-> count, buffer |-> buffer, i |-> 1,
               left |-> count, next |-> buffer]
    /\ regions' = [i \in 1..RegionCount(count) |-> [base |-> 0, units |-> 0]]

(* The loop: full regions, and the buffer and the count move on. *)
FillRegion ==
    /\ req.i < Len(regions)
    /\ regions' = [regions EXCEPT ![req.i] = [base |-> req.next, units |-> RegionUnits]]
    /\ req' = [req EXCEPT !.i = @ + 1, !.next = @ + RegionUnits, !.left = @ - PerRegion]
    /\ UNCHANGED fis

(* The last entry is written always: of a table without regions it is the  *)
(* one in front, which the table's reserved bytes are.                     *)
LastTurn == IF regions = <<>> THEN 1 ELSE Len(regions)

LastRegion ==
    /\ req.i = LastTurn
    /\ regions' = IF regions = <<>> THEN regions
                  ELSE [regions EXCEPT ![req.i] = [base |-> req.next, units |-> req.left * SectorUnits]]
    /\ req' = [req EXCEPT !.i = @ + 1]
    /\ fis' = [lba |-> SplitAddress(req.start), count |-> req.count % CountValues]

TableStep ==
    /\ pm \in {"header", "table"} /\ (FillRegion \/ LastRegion)
    /\ UNCHANGED <<PmVars, memory, pm, partitions>>

(* The drive moves the sectors it is told into the regions, one after the  *)
(* other, unless it does not have them.                                    *)
Built == req.i > LastTurn
PlacesUpTo[i \in 0..Len(regions)] ==
    IF i = 0 THEN <<>>
    ELSE PlacesUpTo[i - 1] \o [u \in 1..regions[i].units |-> regions[i].base + u - 1]
Places == PlacesUpTo[Len(regions)]

(* A command that says no sectors is for all that 16 bits can count, and   *)
(* what is more than the regions take goes nowhere.                        *)
Told == (IF fis.count = 0 THEN CountValues ELSE fis.count) * SectorUnits
Has(disk, lba, units) == lba \in DOMAIN disk /\ Len(disk[lba]) >= units
Transferred ==
    [a \in DOMAIN memory |->
        IF \E i \in DOMAIN Places : Places[i] = a /\ i <= Told
        THEN drive[fis.lba][CHOOSE i \in DOMAIN Places : Places[i] = a] ELSE memory[a]]

----------------------------------------------------------------------------
(* An entry may be followed by units that are not used, and are zero. *)
UnitBytes(u) == CASE u.kind = "entry" -> <<u.type, u.start, u.name>>
                  [] u.kind = "unused" -> <<0, 0, 0>>
                  [] OTHER -> <<170, 170, 170>>
HeaderBytes(h) == <<h.hsize>> \o h.lba \o h.table \o <<h.count, h.size>> \o h.arraySum
HeaderSize == 21   \* of a gpt_header, here that many HeaderBytes

----------------------------------------------------------------------------
(* partition_manager::init. *)

PmStep(from, to) == pm = from /\ pm' = to
Header == memory[HeaderBuf]
HeaderLba == <<1, 0, 0, 0, 0, 0, 0, 0>>

ReadHeader(p) ==
    /\ PmStep("start", "header")
    /\ request_device(p).active
    /\ ReadBegin(HeaderLba, 1, HeaderBuf)
    /\ UNCHANGED <<PmVars, fis, memory, partitions>>

(* The command succeeds or fails; a failure leaves the buffers as they are.*)
HeaderRead ==
    /\ PmStep("header", "validate") /\ Built /\ Has(drive, fis.lba, Told)
    /\ memory' = Transferred
    /\ UNCHANGED <<PmVars, req, regions, fis, partitions>>

ReadFails ==
    /\ pm \in {"header", "table"} /\ Built /\ pm' = "failed"
    /\ UNCHANGED <<PmVars, req, regions, fis, memory, partitions>>

(* validate_gpt: signature, check sum over a copy without it, own address. *)
(* The sum is over as many bytes as the header itself says: over none of   *)
(* them it is 0, and over more than the copy has it is of the stack behind *)
(* it, of which nobody knows what it comes to, or where it ends.           *)
SumIsRight(h) == Crc32(SubSeq(HeaderBytes(h), 1, h.hsize)) = h.sum
WithinCopy(h) == h.hsize <= HeaderSize

validate_gpt ==
    /\ Header.kind = "header" /\ Header.signature
    /\ WithinCopy(Header) => SumIsRight(Header)
    /\ Header.lba = HeaderLba
Refused ==
    \/ Header.kind # "header" \/ ~Header.signature \/ Header.lba # HeaderLba
    \/ WithinCopy(Header) => ~SumIsRight(Header)

(* The product has 32 bits.  A table too large for 16 bits of regions is   *)
(* one the heap has no buffer for: the drive is given the address 0.  What *)
(* happens when memory is used that has not been handed out is not         *)
(* modelled; pm stays at "wild".                                           *)
TotalUnits == (Header.count * Header.size) % SizeValues
Sectors == TotalUnits \div SectorUnits

ReadTable ==
    /\ validate_gpt
    /\ \/ /\ RegionCount(Sectors) > MaxRegions
          /\ PmStep("validate", "failed") /\ UNCHANGED <<req, regions>>
       \/ /\ RegionCount(Sectors) <= MaxRegions /\ Sectors > Limit
          /\ PmStep("validate", "wild") /\ UNCHANGED <<req, regions>>
       \/ /\ RegionCount(Sectors) <= MaxRegions /\ Sectors <= Limit
          /\ PmStep("validate", "table") /\ ReadBegin(Header.table, Sectors, TableBuf)
    /\ UNCHANGED <<PmVars, fis, memory, partitions>>

NoGpt ==
    /\ PmStep("validate", "done") /\ Refused
    /\ UNCHANGED <<PmVars, req, regions, fis, memory, partitions>>

HeaderFaults ==
    /\ PmStep("validate", "wild")
    /\ Header.kind = "header" /\ Header.signature /\ ~WithinCopy(Header)
    /\ UNCHANGED <<PmVars, req, regions, fis, memory, partitions>>

TableRead ==
    /\ PmStep("table", "entries") /\ Built /\ Has(drive, fis.lba, Told)
    /\ memory' = Transferred
    /\ UNCHANGED <<PmVars, req, regions, fis, partitions>>

EntryAt(i) == memory[TableBuf + (i - 1) * Header.size]
TableBytes(units) ==
    [b \in 1..3 * Len(units) |-> UnitBytes(units[(b - 1) \div 3 + 1])[((b - 1) % 3) + 1]]

(* MUTANT: the array's check sum is not compared. *)
EntriesUnchecked == TRUE

validate_gpt_partition_entries ==
    Crc32(TableBytes([u \in 1..TotalUnits |-> memory[TableBuf + u - 1]])) = Header.arraySum

(* An entry without a type, a first sector or a name is not used. *)
Usable(e) == e.kind = "entry" /\ e.type # 0 /\ e.start # 0 /\ e.name # 0
UsableOf(entries) == SelectSeq(entries, Usable)

(* Entries that take no room, or whose product has wrapped, are looked for *)
(* behind the buffer.                                                      *)
Strays(h) == h.count # 0 /\ (h.size = 0 \/ h.count * h.size >= SizeValues)

(* They are pushed onto the vector, which nothing has been pushed onto. *)
PushEntries ==
    /\ PmStep("entries", "done") /\ validate_gpt_partition_entries /\ ~Strays(Header)
    /\ partitions = <<>> /\ partitions' = UsableOf([i \in 1..Header.count |-> EntryAt(i)])
    /\ UNCHANGED <<PmVars, req, regions, fis, memory>>

StrayEntries ==
    /\ pm = "entries" /\ validate_gpt_partition_entries /\ Strays(Header)
    /\ \/ pm' = "done" /\ partitions' \in {<<>>, <<Junk>>}
       \/ pm' = "wild" /\ UNCHANGED partitions
    /\ UNCHANGED <<PmVars, req, regions, fis, memory>>

BadTable ==
    /\ PmStep("entries", "done") /\ ~validate_gpt_partition_entries
    /\ UNCHANGED <<PmVars, req, regions, fis, memory, partitions>>

AhciStep == EnableAhci \/ ProbePorts \/ \E p \in active : Initialize(p)
PartitionStep ==
    \/ TableStep \/ ReadHeader(0) \/ HeaderRead \/ ReadFails \/ ReadTable \/ NoGpt \/ HeaderFaults
    \/ TableRead \/ PushEntries \/ StrayEntries \/ BadTable

----------------------------------------------------------------------------
(* What the drive is told is what the caller asked for, if that is any     *)
(* sector at all: the regions cover the buffer from its start without a    *)
(* gap, each small enough for its entry, in a table that holds them, and   *)
(* the command has the address and the count.  (A caller that asks for     *)
(* none, as for a table of no sector, has the drive read 65536.)           *)
TransferExact ==
    pm \in {"header", "table"} /\ Built /\ req.count # 0 =>
        /\ Places = [u \in 1..req.count * SectorUnits |-> req.buffer + u - 1]
        /\ Len(regions) <= MaxRegions
        /\ \A i \in DOMAIN regions : regions[i].units \in 1..RegionUnits
        /\ fis.lba = SplitAddress(req.start) /\ fis.count = req.count

(* What a disk has: at its first sector a header that is in order as far   *)
(* as it says that it is long, where that one says a table, and what is    *)
(* read of it when the table is not of whole sectors.                      *)
HeaderOn(disk) == disk[SplitAddress(HeaderLba)][1]
HeaderIntact(h) ==
    h.kind = "header" /\ h.signature /\ h.lba = HeaderLba /\ WithinCopy(h) /\ SumIsRight(h)
HasSector1(disk) == Has(disk, SplitAddress(HeaderLba), SectorUnits)
HasGpt(disk) == HasSector1(disk) /\ HeaderIntact(HeaderOn(disk))

TableSize(disk) == HeaderOn(disk).count * HeaderOn(disk).size
TableSector(disk) == SplitAddress(HeaderOn(disk).table)
TableOn(disk) == [u \in 1..TableSize(disk) |-> disk[TableSector(disk)][u]]
EntriesOn(disk) ==
    [i \in 1..HeaderOn(disk).count |-> TableOn(disk)[(i - 1) * HeaderOn(disk).size + 1]]

WholeSectors(units) == (units \div SectorUnits) * SectorUnits
TableRest(disk) ==
    [u \in 1..TableSize(disk) |->
        IF u <= WholeSectors(TableSize(disk)) THEN disk[TableSector(disk)][u] ELSE Junk]
PartialDiffers(disk) ==
    TableSize(disk) % SectorUnits # 0 /\ Has(disk, TableSector(disk), WholeSectors(TableSize(disk))) =>
        Crc32(TableBytes(TableRest(disk))) # HeaderOn(disk).arraySum

DiskOk(disk) == \A lba \in DOMAIN disk : disk[lba] \in Seq(Units)

(* A disk whose header does not lead the reader out of its buffers.  What  *)
(* an incomplete last sector leaves of the heap can only by chance have    *)
(* the sum of the table.                                                   *)
Contained(disk) ==
    HasSector1(disk) /\ HeaderOn(disk).kind = "header" =>
        WithinCopy(HeaderOn(disk)) /\ ~Strays(HeaderOn(disk))
Checkable(disk) == Contained(disk) /\ (HasGpt(disk) => PartialDiffers(disk))

(* The partitions found are those of a table that is on the disk, entire   *)
(* and undamaged by the sum of a header whose own sum is right, in its     *)
(* order; and a disk whose table is in order and can be read at once has   *)
(* them all found.                                                         *)
TableGood(disk) ==
    /\ HasGpt(disk) /\ Has(disk, TableSector(disk), TableSize(disk))
    /\ Crc32(TableBytes(TableOn(disk))) = HeaderOn(disk).arraySum
ReadAtOnce(disk) ==
    TableSize(disk) % SectorUnits = 0 /\ TableSize(disk) <= RegionUnits * MaxRegions

PartitionsVerified ==
    /\ partitions # <<>> /\ Checkable(drive) =>
         TableGood(drive) /\ partitions = UsableOf(EntriesOn(drive))
    /\ pm = "done" /\ Checkable(drive) /\ TableGood(drive) /\ ReadAtOnce(drive) =>
         partitions = UsableOf(EntriesOn(drive))
============================================================================

------------------------------- MODULE Paging -------------------------------
(***************************************************************************)
(* The page tables (kernel/Paging.cpp): four levels of tables, built on    *)
(* demand while a range is mapped page by page.  Tables come from the heap *)
(* and are never given back.                                               *)
(*                                                                         *)
(* Addresses are bytes; a table entry is a frame and a set of flags, which *)
(* in the machine are the upper and the lower bits of one word.            *)
(***************************************************************************)
EXTENDS Integers, FiniteSets

CONSTANTS PageSize, Fanout,  \* 4096 and 512
          Frames,            \* the frames of the heap that may become tables
          Root,              \* the frame of PML4
          Requests,          \* bound: the calls made
          MaxCalls           \* bound: their number

ASSUME SizeAssumption == PageSize \in Nat \ {0, 1} /\ Fanout \in Nat \ {0, 1}
ASSUME FrameAssumption == IsFiniteSet(Frames) /\ Frames \subseteq Nat /\ Root \in Nat \ Frames
ASSUME CallAssumption == MaxCalls \in Nat

Flags == {"Present", "Writable", "User", "CacheDisable", "NoExecute", "Global"}
TableFlags == {"Present", "Writable", "User"}

(* A call of Map_memory_vp, or of Map_memory, which maps start..end-1 to    *)
(* itself.                                                                 *)
ASSUME RequestAssumption ==
    Requests \subseteq [op : {"map", "map_vp"}, virt : Nat, phys : Nat, size : Nat,
                        flags : {f \in SUBSET Flags : "Present" \in f}]

(* No call maps as much as the tables can hold, 2^48 bytes. *)
Span == PageSize * Fanout * Fanout * Fanout * Fanout
ASSUME SpanAssumption == \A r \in Requests : r.size + 2 * PageSize <= Span

Idx == 0..Fanout - 1
Levels == 1..4
Tables == Frames \cup {Root}
Absent == [frame |-> 0, flags |-> {}]

VARIABLES
    mem,         \* the contents of the tables
    free,        \* frames the heap has left
    pc,          \* "idle", "walk" through the levels, "crashed"
    call,        \* the call under way
    virt, phys,  \* the addresses of this turn of its loop
    left,        \* bytes still to map
    level, dir,  \* the table the walk has reached
    calls        \* calls made

walk == <<virt, phys, left, level, dir>>
vars == <<mem, free, pc, call, walk, calls>>

(* What the heap hands out holds whatever was there before. *)
Garbage == [frame |-> Root, flags |-> TableFlags]

(* PML4 is cleared by Paging::Init. *)
Init ==
    /\ mem = [t \in Tables |-> [i \in Idx |-> IF t = Root THEN Absent ELSE Garbage]]
    /\ free = Frames
    /\ pc = "idle" /\ call \in Requests
    /\ virt = 0 /\ phys = 0 /\ left = 0 /\ level = 1 /\ dir = Root
    /\ calls = 0

----------------------------------------------------------------------------
Present(e) == "Present" \in e.flags

(* MUTANT: the directory index is shifted by the bits of the level below. *)
IndexShifted(v, l) ==
    LET n == v \div PageSize
    IN  CASE l = 1 -> (n \div (Fanout * Fanout * Fanout)) % Fanout
          [] l = 2 -> (n \div (Fanout * Fanout)) % Fanout
          [] l = 3 -> n % Fanout
          [] l = 4 -> n % Fanout

(* pml4_i, pdpt_i, pd_i and pt_i *)
Index(v, l) ==
    LET n == v \div PageSize
    IN  CASE l = 1 -> (n \div (Fanout * Fanout * Fanout)) % Fanout
          [] l = 2 -> (n \div (Fanout * Fanout)) % Fanout
          [] l = 3 -> (n \div Fanout) % Fanout
          [] l = 4 -> n % Fanout

RoundDown(a) == a - (a % PageSize)
RoundUp(a) == RoundDown(a + PageSize - 1)

Call(r) ==
    /\ pc = "idle" /\ calls < MaxCalls
    /\ pc' = "walk" /\ call' = r /\ calls' = calls + 1
    /\ level' = 1 /\ dir' = Root
    /\ UNCHANGED <<mem, free>>

MapMemory(r) ==
    /\ Call(r) /\ r.op = "map"
    /\ virt' = RoundDown(r.virt) /\ phys' = virt'
    /\ left' = RoundUp(r.virt + r.size) - virt'

MapMemoryVp(r) ==
    /\ Call(r) /\ r.op = "map_vp"
    /\ virt' = r.virt /\ phys' = r.phys /\ left' = r.size

Entry == mem[dir][Index(virt, level)]

(* alloc_page: the new table is cleared before it is entered. *)
AllocPage(f) ==
    /\ free' = free \ {f}
    /\ mem' = [mem EXCEPT ![f] = [i \in Idx |-> Absent],
                          ![dir] = [mem[dir] EXCEPT ![Index(virt, level)] =
                                      [frame |-> f, flags |-> TableFlags]]]

(* MUTANT: an entry that is present is replaced as well. *)
NeedsTableAlways(e) == TRUE

NeedsTable(e) == ~Present(e)

(* The heap gives the lowest page it has. *)
NewTable(f) ==
    /\ pc = "walk" /\ left > 0 /\ level < 4 /\ NeedsTable(Entry)
    /\ \A g \in free : f <= g
    /\ AllocPage(f)
    /\ dir' = f /\ level' = level + 1
    /\ UNCHANGED <<pc, call, virt, phys, left, calls>>

(* The result of malloc_align is not checked: page 0 is not writable. *)
NoTable ==
    /\ pc = "walk" /\ left > 0 /\ level < 4 /\ NeedsTable(Entry) /\ free = {}
    /\ pc' = "crashed"
    /\ UNCHANGED <<mem, free, call, walk, calls>>

Descend ==
    /\ pc = "walk" /\ left > 0 /\ level < 4 /\ ~NeedsTable(Entry)
    /\ dir' = Entry.frame /\ level' = level + 1
    /\ UNCHANGED <<mem, free, pc, call, virt, phys, left, calls>>

(* `p | flags`: the bits of p below the page size are flags as well.  The  *)
(* model has the three lowest.                                             *)
LowBits(a) ==
    LET low == a % PageSize
    IN  {f \in {"Present"} : low % 2 = 1} \cup {f \in {"Writable"} : (low \div 2) % 2 = 1}
          \cup {f \in {"User"} : (low \div 4) % 2 = 1}

LeafEntry == [frame |-> phys \div PageSize, flags |-> call.flags \cup LowBits(phys)]

(* The page's entry is written and the loop goes on to the next page. *)
WriteEntry ==
    /\ pc = "walk" /\ left > 0 /\ level = 4
    /\ mem' = [mem EXCEPT ![dir] = [mem[dir] EXCEPT ![Index(virt, 4)] = LeafEntry]]
    /\ virt' = virt + PageSize /\ phys' = phys + PageSize /\ left' = left - PageSize
    /\ level' = 1 /\ dir' = Root
    /\ UNCHANGED <<free, pc, call, calls>>

Return ==
    /\ pc = "walk" /\ left <= 0
    /\ pc' = "idle"
    /\ UNCHANGED <<mem, free, call, walk, calls>>

Next ==
    \/ \E r \in Requests : MapMemory(r) \/ MapMemoryVp(r)
    \/ \E f \in free : NewTable(f)
    \/ NoTable \/ Descend \/ WriteEntry \/ Return

Spec == Init /\ [][Next]_vars

----------------------------------------------------------------------------
(* The processor's walk, from a table down. *)
Child(t, v, l) ==
    IF t \in Tables /\ Present(mem[t][Index(v, l)]) THEN mem[t][Index(v, l)].frame ELSE -1

Translate(v) ==
    LET t == Child(Child(Child(Root, v, 1), v, 2), v, 3)
    IN  IF t \in Tables THEN mem[t][Index(v, 4)] ELSE Absent

(* The virtual pages that the tables tell apart. *)
Pages == {n * PageSize : n \in 0..(Fanout * Fanout * Fanout * Fanout) - 1}

(* No step changes the translation of any page but the one being mapped:   *)
(* what was mapped before stays, and a new table maps nothing by itself.   *)
OnlyThisPage ==
    [][\A v \in Pages :
          Translate(v)' # Translate(v) =>
              pc = "walk" /\ \A l \in Levels : Index(v, l) = Index(virt, l)]_vars

(* A byte is mapped where the call says and with the call's flags.         *)
MappedTo(v, p, flags) ==
    Translate(v) = [frame |-> p \div PageSize, flags |-> flags]

Aligned(r) == r.virt % PageSize = 0 /\ r.phys % PageSize = 0

(* When Map_memory returns, every byte of its range is mapped to itself.   *)
(* When Map_memory_vp returns, the byte at every multiple of the page size *)
(* from virt on is mapped to the frame of the byte at the same offset of   *)
(* phys, with the call's flags and the low bits of phys: from an unaligned *)
(* address that is all it promises, and what lies beyond in the last page  *)
(* may be left out.  From aligned addresses every byte of the range is     *)
(* mapped to the byte at the same offset, with the call's flags.           *)
RangeMapped ==
    pc = "walk" /\ left <= 0 =>
        \A b \in 0..call.size - 1 :
            /\ call.op = "map" => MappedTo(call.virt + b, call.virt + b, call.flags)
            /\ call.op = "map_vp" =>
                  MappedTo(call.virt + RoundDown(b), call.phys + RoundDown(b),
                           call.flags \cup LowBits(call.phys))
            /\ call.op = "map_vp" /\ Aligned(call) =>
                  MappedTo(call.virt + b, call.phys + b, call.flags)

=============================================================================

---------------------------- MODULE PagingProofs ----------------------------
(***************************************************************************)
(* Proofs about the page tables (Paging): no call changes the translation  *)
(* of a page it is not mapping, and a call that returns has mapped its     *)
(* whole range.  The tables in use form a tree, so that two walks that     *)
(* meet came the same way; the rest is arithmetic on page numbers.         *)
(***************************************************************************)
EXTENDS Paging, TLAPS

(* The walk in given contents m of the tables, and its result. *)
ChildIn(m, t, v, l) ==
    IF t \in Tables /\ Present(m[t][Index(v, l)]) THEN m[t][Index(v, l)].frame ELSE -1
Walk2(m, v) == ChildIn(m, Root, v, 1)
Walk3(m, v) == ChildIn(m, Walk2(m, v), v, 2)
Walk4(m, v) == ChildIn(m, Walk3(m, v), v, 3)
Walked(m, v, l) ==
    CASE l = 1 -> Root [] l = 2 -> Walk2(m, v) [] l = 3 -> Walk3(m, v) [] l = 4 -> Walk4(m, v)
TranslateIn(m, v) == IF Walk4(m, v) \in Tables THEN m[Walk4(m, v)][Index(v, 4)] ELSE Absent

(* The tables in use form a tree: lev gives each its level, none to what   *)
(* the heap still has.  An entry of a table of level 1 to 3 leads one      *)
(* level down, and no two entries to the same table.                       *)
TreeOf(m, unused, lev) ==
    /\ lev \in [Tables -> 0..4]
    /\ \A t \in Tables : lev[t] = 1 <=> t = Root
    /\ \A t \in unused : lev[t] = 0
    /\ \A t \in Tables, i \in Idx :
          lev[t] \in 1..3 /\ Present(m[t][i]) =>
              m[t][i].frame \in Tables /\ lev[m[t][i].frame] = lev[t] + 1
    /\ \A t, u \in Tables, i, j \in Idx :
          /\ lev[t] \in 1..3 /\ lev[u] \in 1..3
          /\ Present(m[t][i]) /\ Present(m[u][j]) /\ m[t][i].frame = m[u][j].frame
          => t = u /\ i = j

EntryType == [frame : Nat, flags : SUBSET Flags]
PageTypes ==
    /\ mem \in [Tables -> [Idx -> EntryType]]
    /\ free \subseteq Frames
    /\ pc \in {"idle", "walk", "crashed"}
    /\ call \in Requests
    /\ virt \in Nat /\ phys \in Nat /\ left \in Int
    /\ level \in Levels /\ dir \in Tables

(* The call under way stands at the table its address leads to. *)
TreeInv ==
    /\ PageTypes
    /\ \E lev \in [Tables -> 0..4] :
          TreeOf(mem, free, lev) /\ (pc = "walk" => lev[dir] = level)
    /\ pc = "walk" => dir = Walked(mem, virt, level)

----------------------------------------------------------------------------
(* What a call has done so far: the pages from its first on, and the parts *)
(* of its addresses below a page, which Map_memory has rounded away.       *)
FirstPage == call.virt \div PageSize
FirstFrame == (IF call.op = "map" THEN call.virt ELSE call.phys) \div PageSize
Bytes == IF call.op = "map" THEN RoundUp(call.virt + call.size) - RoundDown(call.virt) ELSE call.size
VirtRest == IF call.op = "map" THEN 0 ELSE call.virt % PageSize
PhysRest == IF call.op = "map" THEN 0 ELSE call.phys % PageSize
CallFlags == call.flags \cup LowBits(PhysRest)
PagesDone == (virt \div PageSize) - FirstPage

RangeInv ==
    pc = "walk" =>
        /\ PagesDone \in Nat
        /\ virt = (FirstPage + PagesDone) * PageSize + VirtRest
        /\ phys = (FirstFrame + PagesDone) * PageSize + PhysRest
        /\ left = Bytes - PagesDone * PageSize
        /\ \A j \in 0..PagesDone - 1 :
              Translate((FirstPage + j) * PageSize) = [frame |-> FirstFrame + j, flags |-> CallFlags]

----------------------------------------------------------------------------
(* Indices and entries. *)

LEMMA QuotientNat ==
    ASSUME NEW a \in Nat, NEW b \in Nat \ {0}
    PROVE  a \div b \in Nat /\ a % b \in 0..b - 1 /\ a = b * (a \div b) + (a % b)
  OBVIOUS

LEMMA PowerNat ==
    /\ PageSize \in Nat \ {0} /\ Fanout \in Nat \ {0}
    /\ Fanout * Fanout \in Nat \ {0} /\ Fanout * Fanout * Fanout \in Nat \ {0}
<1>1. PageSize \in Nat \ {0} /\ Fanout \in Nat \ {0}
  BY SizeAssumption
<1>2. \A a, b \in Nat \ {0} : a * b \in Nat \ {0}
  OBVIOUS
<1> QED BY <1>1, <1>2

LEMMA IndexInRange ==
    ASSUME NEW v \in Nat, NEW l \in Levels
    PROVE  Index(v, l) \in Idx
<1> DEFINE n == v \div PageSize
<1>1. n \in Nat
  BY PowerNat, QuotientNat
<1>2. \A b \in Nat \ {0} : (n \div b) % Fanout \in Idx
  BY <1>1, PowerNat, QuotientNat DEF Idx
<1>3. n % Fanout \in Idx
  BY <1>1, PowerNat, QuotientNat DEF Idx
<1>4. l = 1 \/ l = 2 \/ l = 3 \/ l = 4
  BY DEF Levels
<1>5. l = 1 => Index(v, l) = (n \div (Fanout * Fanout * Fanout)) % Fanout
  BY DEF Index
<1>6. l = 2 => Index(v, l) = (n \div (Fanout * Fanout)) % Fanout
  BY DEF Index
<1>7. l = 3 => Index(v, l) = (n \div Fanout) % Fanout
  BY DEF Index
<1>8. l = 4 => Index(v, l) = n % Fanout
  BY DEF Index
<1> QED BY <1>2, <1>3, <1>4, <1>5, <1>6, <1>7, <1>8, PowerNat

LEMMA NotATable == -1 \notin Tables
  BY FrameAssumption DEF Tables

(* The program's walk is the walk in the present contents. *)
LEMMA WalkIs ==
    ASSUME NEW v
    PROVE  Translate(v) = TranslateIn(mem, v)
  BY DEF Translate, TranslateIn, Child, ChildIn, Walk2, Walk3, Walk4

LEMMA WalkIsNext ==
    ASSUME NEW v
    PROVE  Translate(v)' = TranslateIn(mem', v)
  BY DEF Translate, TranslateIn, Child, ChildIn, Walk2, Walk3, Walk4

(* A step of the walk goes one level down or ends. *)
LEMMA StepDown ==
    ASSUME NEW m, NEW unused, NEW lev, TreeOf(m, unused, lev), NEW v \in Nat, NEW l \in 1..3,
           NEW t \in Tables \cup {-1}, t \in Tables => lev[t] = l
    PROVE  /\ ChildIn(m, t, v, l) \in Tables \cup {-1}
           /\ ChildIn(m, t, v, l) \in Tables =>
                /\ lev[ChildIn(m, t, v, l)] = l + 1 /\ t \in Tables
                /\ Present(m[t][Index(v, l)]) /\ ChildIn(m, t, v, l) = m[t][Index(v, l)].frame
<1>1. Index(v, l) \in Idx
  BY IndexInRange DEF Levels
<1>2. CASE t \in Tables /\ Present(m[t][Index(v, l)])
  <2>1. lev[t] \in 1..3 /\ lev[t] = l
    BY <1>2
  <2>2. m[t][Index(v, l)].frame \in Tables /\ lev[m[t][Index(v, l)].frame] = lev[t] + 1
    BY <1>1, <1>2, <2>1 DEF TreeOf
  <2> QED BY <1>2, <2>1, <2>2 DEF ChildIn
<1>3. CASE ~(t \in Tables /\ Present(m[t][Index(v, l)]))
  BY <1>3, NotATable DEF ChildIn
<1> QED BY <1>2, <1>3

LEMMA WalkLevels ==
    ASSUME NEW m, NEW unused, NEW lev, TreeOf(m, unused, lev), NEW v \in Nat
    PROVE  /\ Root \in Tables /\ lev[Root] = 1
           /\ Walk2(m, v) \in Tables \cup {-1} /\ (Walk2(m, v) \in Tables => lev[Walk2(m, v)] = 2)
           /\ Walk3(m, v) \in Tables \cup {-1} /\ (Walk3(m, v) \in Tables => lev[Walk3(m, v)] = 3)
           /\ Walk4(m, v) \in Tables \cup {-1} /\ (Walk4(m, v) \in Tables => lev[Walk4(m, v)] = 4)
<1>1. Root \in Tables /\ lev[Root] = 1
  BY DEF Tables, TreeOf
<1>2. Walk2(m, v) \in Tables \cup {-1} /\ (Walk2(m, v) \in Tables => lev[Walk2(m, v)] = 2)
  BY <1>1, StepDown DEF Walk2
<1>3. Walk3(m, v) \in Tables \cup {-1} /\ (Walk3(m, v) \in Tables => lev[Walk3(m, v)] = 3)
  BY <1>2, StepDown DEF Walk3
<1>4. Walk4(m, v) \in Tables \cup {-1} /\ (Walk4(m, v) \in Tables => lev[Walk4(m, v)] = 4)
  BY <1>3, StepDown DEF Walk4
<1> QED BY <1>1, <1>2, <1>3, <1>4

(* Two walks that meet have come the same way. *)
LEMMA SameStep ==
    ASSUME NEW m, NEW unused, NEW lev, TreeOf(m, unused, lev), NEW v \in Nat, NEW w \in Nat, NEW l \in 1..3,
           NEW t \in Tables \cup {-1}, t \in Tables => lev[t] = l,
           NEW u \in Tables \cup {-1}, u \in Tables => lev[u] = l,
           ChildIn(m, t, v, l) = ChildIn(m, u, w, l), ChildIn(m, t, v, l) \in Tables
    PROVE  t = u /\ t \in Tables /\ Index(v, l) = Index(w, l)
<1>1. Index(v, l) \in Idx /\ Index(w, l) \in Idx
  BY IndexInRange DEF Levels
<1>2. /\ t \in Tables /\ u \in Tables
      /\ Present(m[t][Index(v, l)]) /\ Present(m[u][Index(w, l)])
      /\ m[t][Index(v, l)].frame = m[u][Index(w, l)].frame
  BY StepDown
<1>3. lev[t] \in 1..3 /\ lev[u] \in 1..3
  BY <1>2
<1> QED BY <1>1, <1>2, <1>3 DEF TreeOf

LEMMA SameTable ==
    ASSUME NEW m, NEW unused, NEW lev, TreeOf(m, unused, lev), NEW v \in Nat, NEW w \in Nat,
           Walk4(m, v) = Walk4(m, w), Walk4(m, v) \in Tables
    PROVE  \A l \in 1..3 : Index(v, l) = Index(w, l)
<1>1. Walk3(m, v) = Walk3(m, w) /\ Walk3(m, v) \in Tables /\ Index(v, 3) = Index(w, 3)
  BY WalkLevels, SameStep DEF Walk4
<1>2. Walk2(m, v) = Walk2(m, w) /\ Walk2(m, v) \in Tables /\ Index(v, 2) = Index(w, 2)
  BY <1>1, WalkLevels, SameStep DEF Walk3
<1>3. Index(v, 1) = Index(w, 1)
  BY <1>2, WalkLevels, SameStep DEF Walk2
<1> QED BY <1>1, <1>2, <1>3

LEMMA WalkedOn ==
    ASSUME NEW m, NEW v, NEW l \in 1..3
    PROVE  Walked(m, v, l + 1) = ChildIn(m, Walked(m, v, l), v, l)
<1>1. l = 1 \/ l = 2 \/ l = 3
  OBVIOUS
<1> QED BY <1>1 DEF Walked, Walk2, Walk3, Walk4

----------------------------------------------------------------------------
(* A new table. *)

(* What the step does to the contents: table f is cleared and the entry    *)
(* that was missing leads to it. *)
Added(m, n, d, x, f) ==
    /\ f \in Tables /\ d \in Tables /\ f # d /\ x \in Idx
    /\ \A i \in Idx : n[f][i] = Absent /\ ~Present(n[f][i])
    /\ ~Present(m[d][x]) /\ Present(n[d][x]) /\ n[d][x].frame = f
    /\ \A i \in Idx \ {x} : n[d][i] = m[d][i]
    /\ \A t \in Tables \ {f, d} : n[t] = m[t]

LEMMA NewTableAdds ==
    ASSUME PageTypes, NEW lev, TreeOf(mem, free, lev), pc = "walk" => lev[dir] = level,
           NEW f \in free, NewTable(f)
    PROVE  /\ Added(mem, mem', dir, Index(virt, level), f)
           /\ lev[dir] = level /\ level \in 1..3 /\ lev[f] = 0 /\ f # Root
           /\ mem' \in [Tables -> [Idx -> EntryType]]
<1> DEFINE x == Index(virt, level)
<1> DEFINE e == [frame |-> f, flags |-> TableFlags]
<1> DEFINE new == [i \in Idx |-> Absent]
<1> DEFINE row == [mem[dir] EXCEPT ![x] = e]
<1>1. /\ level \in 1..3 /\ dir \in Tables /\ f \in Frames /\ f \in Tables /\ virt \in Nat
      /\ mem \in [Tables -> [Idx -> EntryType]]
  BY DEF PageTypes, NewTable, Levels, Tables
<1>2. lev[dir] = level /\ lev[f] = 0 /\ f # dir /\ f # Root
  <2>1. pc = "walk"
    BY DEF NewTable
  <2>2. lev[dir] = level /\ lev[f] = 0 /\ lev[Root] = 1
    BY <2>1 DEF TreeOf, Tables
  <2> QED BY <1>1, <2>2
<1>3. x \in Idx
  BY <1>1, IndexInRange DEF Levels
<1>4. e \in EntryType /\ Present(e) /\ e.frame = f
  BY <1>1, FrameAssumption DEF EntryType, TableFlags, Flags, Present
<1>5. Absent \in EntryType /\ ~Present(Absent)
  BY DEF EntryType, Absent, Present
<1>6. row \in [Idx -> EntryType] /\ row[x] = e /\ \A i \in Idx \ {x} : row[i] = mem[dir][i]
  BY <1>1, <1>3, <1>4
<1>7. new \in [Idx -> EntryType] /\ \A i \in Idx : new[i] = Absent
  BY <1>5
<1>8. mem' = [mem EXCEPT ![f] = new, ![dir] = row]
  BY DEF NewTable, AllocPage
<1> HIDE DEF x, e, new, row
<1>9. /\ mem' \in [Tables -> [Idx -> EntryType]]
      /\ mem'[f] = new /\ mem'[dir] = row /\ \A t \in Tables \ {f, dir} : mem'[t] = mem[t]
  BY <1>1, <1>2, <1>6, <1>7, <1>8
<1>10. ~Present(mem[dir][x])
  BY DEF NewTable, NeedsTable, Entry, x
<1>11. Added(mem, mem', dir, x, f)
  BY <1>1, <1>2, <1>3, <1>4, <1>5, <1>6, <1>7, <1>9, <1>10 DEF Added
<1> QED BY <1>1, <1>2, <1>9, <1>11 DEF x

(* Every walk comes to where it came before, except that one that ended    *)
(* may come to the new table. *)
Later(f, a, b) == b = a \/ (a = -1 /\ b \in {f, -1})

LEMMA StepAfter ==
    ASSUME NEW m, NEW n, NEW d, NEW x, NEW f, Added(m, n, d, x, f),
           NEW v \in Nat, NEW l \in 1..3, NEW a \in Tables \cup {-1}, NEW b,
           a # f, Later(f, a, b)
    PROVE  Later(f, ChildIn(m, a, v, l), ChildIn(n, b, v, l))
<1>1. Index(v, l) \in Idx
  BY IndexInRange DEF Levels
<1>2. ChildIn(m, -1, v, l) = -1 /\ ChildIn(n, -1, v, l) = -1 /\ ChildIn(n, f, v, l) = -1
  BY <1>1, NotATable DEF Added, ChildIn
<1>3. CASE a = -1
  BY <1>2, <1>3 DEF Later
<1>4. CASE a \in Tables
  <2>1. b = a
    BY <1>4, NotATable DEF Later
  <2>2. CASE a # d
    <3>1. n[a] = m[a]
      BY <1>4, <2>2 DEF Added
    <3> QED BY <2>1, <3>1 DEF ChildIn, Later
  <2>3. CASE a = d /\ Index(v, l) # x
    <3>1. n[a][Index(v, l)] = m[a][Index(v, l)]
      BY <1>1, <2>3 DEF Added
    <3> QED BY <2>1, <3>1 DEF ChildIn, Later
  <2>4. CASE a = d /\ Index(v, l) = x
    <3>1. ChildIn(m, a, v, l) = -1 /\ ChildIn(n, a, v, l) = f
      BY <1>4, <2>4 DEF Added, ChildIn
    <3> QED BY <2>1, <3>1 DEF Later
  <2> QED BY <2>2, <2>3, <2>4
<1> QED BY <1>3, <1>4

LEMMA WalksAfter ==
    ASSUME NEW m, NEW n, NEW d, NEW x, NEW f, Added(m, n, d, x, f),
           NEW unused, NEW lev, TreeOf(m, unused, lev), lev[f] = 0, NEW v \in Nat
    PROVE  /\ Later(f, Walk2(m, v), Walk2(n, v)) /\ Walk2(m, v) # f
           /\ Later(f, Walk3(m, v), Walk3(n, v)) /\ Walk3(m, v) # f
           /\ Later(f, Walk4(m, v), Walk4(n, v)) /\ Walk4(m, v) # f
           /\ Root # f
<1>1. f \in Tables
  BY DEF Added
<1>2. Walk2(m, v) # f /\ Walk3(m, v) # f /\ Walk4(m, v) # f /\ Root # f
  BY <1>1, WalkLevels
<1>3. Later(f, Walk2(m, v), Walk2(n, v))
  <2>1. Later(f, Root, Root) /\ Root \in Tables
    BY DEF Later, Tables
  <2> QED BY <1>2, <2>1, StepAfter DEF Walk2
<1>4. Later(f, Walk3(m, v), Walk3(n, v))
  BY <1>2, <1>3, WalkLevels, StepAfter DEF Walk3
<1>5. Later(f, Walk4(m, v), Walk4(n, v))
  BY <1>2, <1>4, WalkLevels, StepAfter DEF Walk4
<1> QED BY <1>2, <1>3, <1>4, <1>5

(* A new table maps nothing and unmaps nothing. *)
LEMMA TranslationsKept ==
    ASSUME NEW m, NEW n, NEW d, NEW x, NEW f, Added(m, n, d, x, f),
           NEW unused, NEW lev, TreeOf(m, unused, lev), lev[f] = 0, lev[d] \in 1..3, NEW v \in Nat
    PROVE  TranslateIn(n, v) = TranslateIn(m, v)
<1>1. Later(f, Walk4(m, v), Walk4(n, v)) /\ Walk4(m, v) # f /\ f \in Tables
  BY WalksAfter DEF Added
<1>2. Index(v, 4) \in Idx
  BY IndexInRange DEF Levels
<1>3. Walk4(m, v) \in Tables \cup {-1} /\ (Walk4(m, v) \in Tables => lev[Walk4(m, v)] = 4)
  BY WalkLevels
<1>4. CASE Walk4(m, v) \in Tables
  <2>1. Walk4(n, v) = Walk4(m, v) /\ Walk4(m, v) # d
    BY <1>1, <1>3, <1>4, NotATable DEF Later
  <2>2. n[Walk4(m, v)] = m[Walk4(m, v)]
    BY <1>1, <1>4, <2>1 DEF Added
  <2> QED BY <2>1, <2>2 DEF TranslateIn
<1>5. CASE Walk4(m, v) = -1
  <2>1. TranslateIn(m, v) = Absent
    BY <1>5, NotATable DEF TranslateIn
  <2>2. CASE Walk4(n, v) = -1
    BY <2>1, <2>2, NotATable DEF TranslateIn
  <2>3. CASE Walk4(n, v) = f
    <3>1. n[f][Index(v, 4)] = Absent
      BY <1>2 DEF Added
    <3> QED BY <1>1, <2>1, <2>3, <3>1 DEF TranslateIn
  <2> QED BY <1>1, <1>5, <2>2, <2>3 DEF Later
<1> QED BY <1>3, <1>4, <1>5

(* The tree has one leaf more. *)
LEMMA TreeGrows ==
    ASSUME NEW m, NEW n, NEW d, NEW x, NEW f, Added(m, n, d, x, f),
           NEW unused, unused \subseteq Tables, NEW lev, TreeOf(m, unused, lev),
           lev[f] = 0, lev[d] \in 1..3
    PROVE  TreeOf(n, unused \ {f}, [lev EXCEPT ![f] = lev[d] + 1])
<1> DEFINE new == [lev EXCEPT ![f] = lev[d] + 1]
<1>1. f \in Tables /\ d \in Tables /\ f # d /\ lev \in [Tables -> 0..4] /\ x \in Idx
  BY DEF Added, TreeOf
<1>2. /\ new \in [Tables -> 0..4] /\ new[f] = lev[d] + 1 /\ new[d] = lev[d]
      /\ \A t \in Tables \ {f} : new[t] = lev[t]
  BY <1>1
<1> HIDE DEF new
<1>3. \A t \in Tables : new[t] = 1 <=> t = Root
  <2>1. Root # f
    BY DEF TreeOf, Tables
  <2> QED BY <1>2, <2>1 DEF TreeOf
<1>4. \A t \in unused \ {f} : new[t] = 0
  BY <1>2 DEF TreeOf
<1>5. ASSUME NEW t \in Tables, NEW i \in Idx, new[t] \in 1..3, Present(n[t][i]), ~(t = d /\ i = x)
      PROVE  /\ lev[t] = new[t] /\ Present(m[t][i]) /\ n[t][i] = m[t][i]
             /\ m[t][i].frame \in Tables /\ lev[m[t][i].frame] = lev[t] + 1 /\ m[t][i].frame # f
  <2>1. t # f
    BY <1>5 DEF Added
  <2>2. n[t][i] = m[t][i]
    BY <1>5, <2>1 DEF Added
  <2>3. lev[t] = new[t]
    BY <1>2, <2>1
  <2>4. m[t][i].frame \in Tables /\ lev[m[t][i].frame] = lev[t] + 1
    BY <1>5, <2>2, <2>3 DEF TreeOf
  <2> QED BY <1>5, <2>2, <2>3, <2>4
<1>6. ASSUME NEW t \in Tables, NEW i \in Idx, new[t] \in 1..3, Present(n[t][i])
      PROVE  n[t][i].frame \in Tables /\ new[n[t][i].frame] = new[t] + 1
  <2>1. CASE t = d /\ i = x
    BY <1>1, <1>2, <2>1 DEF Added
  <2>2. CASE ~(t = d /\ i = x)
    BY <1>2, <1>5, <1>6, <2>2
  <2> QED BY <2>1, <2>2
<1>7. ASSUME NEW t \in Tables, NEW u \in Tables, NEW i \in Idx, NEW j \in Idx,
             new[t] \in 1..3, new[u] \in 1..3, Present(n[t][i]), Present(n[u][j]),
             n[t][i].frame = n[u][j].frame
      PROVE  t = u /\ i = j
  <2>1. n[d][x].frame = f
    BY DEF Added
  <2>2. CASE t = d /\ i = x
    BY <1>5, <1>7, <2>1, <2>2
  <2>3. CASE u = d /\ j = x
    BY <1>5, <1>7, <2>1, <2>3
  <2>4. CASE ~(t = d /\ i = x) /\ ~(u = d /\ j = x)
    BY <1>5, <1>7, <2>4 DEF TreeOf
  <2> QED BY <2>2, <2>3, <2>4
<1>8. TreeOf(n, unused \ {f}, new)
  BY <1>2, <1>3, <1>4, <1>6, <1>7 DEF TreeOf
<1> QED BY <1>8 DEF new

----------------------------------------------------------------------------
(* A page's entry. *)

Wrote(m, n, d, x, e) ==
    /\ d \in Tables /\ x \in Idx /\ n[d][x] = e
    /\ \A i \in Idx \ {x} : n[d][i] = m[d][i]
    /\ \A t \in Tables \ {d} : n[t] = m[t]

LEMMA LeafTyped ==
    ASSUME PageTypes
    PROVE  LeafEntry \in EntryType
<1>1. call.flags \in SUBSET Flags /\ phys \in Nat
  BY RequestAssumption DEF PageTypes
<1>2. LowBits(phys) \in SUBSET Flags
  BY DEF LowBits, Flags
<1>3. phys \div PageSize \in Nat
  BY <1>1, PowerNat, QuotientNat
<1> QED BY <1>1, <1>2, <1>3 DEF LeafEntry, EntryType

LEMMA EntryWrites ==
    ASSUME PageTypes, WriteEntry
    PROVE  /\ Wrote(mem, mem', dir, Index(virt, 4), LeafEntry)
           /\ mem' \in [Tables -> [Idx -> EntryType]]
<1> DEFINE x == Index(virt, 4)
<1> DEFINE row == [mem[dir] EXCEPT ![x] = LeafEntry]
<1>1. x \in Idx /\ dir \in Tables /\ mem \in [Tables -> [Idx -> EntryType]] /\ LeafEntry \in EntryType
  BY IndexInRange, LeafTyped DEF PageTypes, Levels
<1>2. mem' = [mem EXCEPT ![dir] = row]
  BY DEF WriteEntry
<1> HIDE DEF x
<1>3. row \in [Idx -> EntryType] /\ row[x] = LeafEntry /\ \A i \in Idx \ {x} : row[i] = mem[dir][i]
  BY <1>1
<1> HIDE DEF row
<1>4. mem' \in [Tables -> [Idx -> EntryType]] /\ mem'[dir] = row /\ \A t \in Tables \ {dir} : mem'[t] = mem[t]
  BY <1>1, <1>2, <1>3
<1> QED BY <1>1, <1>3, <1>4 DEF Wrote, x

LEMMA WalksSame ==
    ASSUME NEW m, NEW n, NEW d, NEW x, NEW e, Wrote(m, n, d, x, e),
           NEW unused, NEW lev, TreeOf(m, unused, lev), lev[d] = 4, NEW v \in Nat
    PROVE  Walk2(n, v) = Walk2(m, v) /\ Walk3(n, v) = Walk3(m, v) /\ Walk4(n, v) = Walk4(m, v)
<1>1. ASSUME NEW l \in 1..3, NEW a \in Tables \cup {-1}, a \in Tables => lev[a] = l
      PROVE  ChildIn(n, a, v, l) = ChildIn(m, a, v, l)
  <2>1. a \in Tables => n[a] = m[a]
    BY <1>1 DEF Wrote
  <2> QED BY <2>1 DEF ChildIn
<1>2. Walk2(n, v) = Walk2(m, v)
  BY <1>1, WalkLevels DEF Walk2
<1>3. Walk3(n, v) = Walk3(m, v)
  BY <1>1, <1>2, WalkLevels DEF Walk3
<1>4. Walk4(n, v) = Walk4(m, v)
  BY <1>1, <1>3, WalkLevels DEF Walk4
<1> QED BY <1>2, <1>3, <1>4

LEMMA TreeStays ==
    ASSUME NEW m, NEW n, NEW d, NEW x, NEW e, Wrote(m, n, d, x, e),
           NEW unused, NEW lev, TreeOf(m, unused, lev), lev[d] = 4
    PROVE  TreeOf(n, unused, lev)
<1>1. \A t \in Tables : lev[t] \in 1..3 => n[t] = m[t]
  BY DEF Wrote
<1> QED BY <1>1 DEF TreeOf

(* Only the page the walk was made for changes. *)
LEMMA TranslationWritten ==
    ASSUME NEW m, NEW n, NEW d, NEW w \in Nat, NEW e, Wrote(m, n, d, Index(w, 4), e),
           NEW unused, NEW lev, TreeOf(m, unused, lev), lev[d] = 4, d = Walk4(m, w), NEW v \in Nat
    PROVE  TranslateIn(n, v) = IF \A l \in Levels : Index(v, l) = Index(w, l) THEN e ELSE TranslateIn(m, v)
<1>1. Walk4(n, v) = Walk4(m, v) /\ d \in Tables
  BY WalksSame DEF Wrote
<1>2. Index(v, 4) \in Idx
  BY IndexInRange DEF Levels
<1>3. CASE Walk4(m, v) = d /\ Index(v, 4) = Index(w, 4)
  <2>1. \A l \in 1..3 : Index(v, l) = Index(w, l)
    BY <1>1, <1>3, SameTable
  <2>2. \A l \in Levels : l \in 1..3 \/ l = 4
    BY DEF Levels
  <2>3. TranslateIn(n, v) = e
    BY <1>1, <1>3 DEF TranslateIn, Wrote
  <2> QED BY <1>3, <2>1, <2>2, <2>3
<1>4. CASE Walk4(m, v) # d \/ Index(v, 4) # Index(w, 4)
  <2>1. TranslateIn(n, v) = TranslateIn(m, v)
    BY <1>1, <1>2, <1>4 DEF TranslateIn, Wrote
  <2>2. ASSUME \A l \in Levels : Index(v, l) = Index(w, l) PROVE FALSE
    <3>1. Index(v, 1) = Index(w, 1) /\ Index(v, 2) = Index(w, 2) /\ Index(v, 3) = Index(w, 3)
          /\ Index(v, 4) = Index(w, 4)
      BY <2>2 DEF Levels
    <3>2. Walk2(m, v) = Walk2(m, w)
      BY <3>1 DEF Walk2, ChildIn
    <3>3. Walk3(m, v) = Walk3(m, w)
      BY <3>1, <3>2 DEF Walk3, ChildIn
    <3>4. Walk4(m, v) = Walk4(m, w)
      BY <3>1, <3>3 DEF Walk4, ChildIn
    <3> QED BY <1>4, <3>1, <3>4
  <2> QED BY <2>1, <2>2
<1> QED BY <1>3, <1>4

----------------------------------------------------------------------------
(* The tree in every step. *)

LEMMA RoundNat ==
    ASSUME NEW a \in Nat
    PROVE  RoundDown(a) \in Nat /\ RoundDown(a) = (a \div PageSize) * PageSize
<1>1. PageSize \in Nat \ {0}
  BY PowerNat
<1>2. a \div PageSize \in Nat /\ a % PageSize \in 0..PageSize - 1
      /\ a = PageSize * (a \div PageSize) + (a % PageSize)
  BY <1>1, QuotientNat
<1>3. PICK q \in Nat, r \in Nat, z \in Nat : q = a \div PageSize /\ r = a % PageSize /\ z = PageSize * q
  BY <1>1, <1>2
<1>4. a = z + r /\ RoundDown(a) = a - r /\ z = q * PageSize
  BY <1>1, <1>2, <1>3 DEF RoundDown
<1> QED BY <1>3, <1>4

LEMMA TreeInit == Init => TreeInv
<1> SUFFICES ASSUME Init PROVE TreeInv
  OBVIOUS
<1>1. PageTypes
  <2>1. Absent \in EntryType /\ Garbage \in EntryType
    BY FrameAssumption DEF Absent, Garbage, EntryType, TableFlags, Flags
  <2> QED BY <2>1 DEF Init, PageTypes, Levels, Tables
<1> DEFINE lev == [t \in Tables |-> IF t = Root THEN 1 ELSE 0]
<1>2. TreeOf(mem, free, lev)
  <2>1. lev \in [Tables -> 0..4] /\ \A t \in Tables : lev[t] = 1 <=> t = Root
    OBVIOUS
  <2>2. \A t \in free : lev[t] = 0
    BY FrameAssumption DEF Init, Tables
  <2>3. \A t \in Tables, i \in Idx : lev[t] \in 1..3 => ~Present(mem[t][i])
    BY DEF Init, Present, Absent
  <2> HIDE DEF lev
  <2> QED BY <2>1, <2>2, <2>3 DEF TreeOf
<1>3. lev \in [Tables -> 0..4]
  OBVIOUS
<1> HIDE DEF lev
<1> QED BY <1>1, <1>2, <1>3 DEF TreeInv, Init

LEMMA CallTree ==
    ASSUME TreeInv, NEW r \in Requests, MapMemory(r) \/ MapMemoryVp(r)
    PROVE  TreeInv'
<1>1. /\ pc' = "walk" /\ call' = r /\ level' = 1 /\ dir' = Root /\ mem' = mem /\ free' = free
  BY DEF MapMemory, MapMemoryVp, Call
<1>2. r.virt \in Nat /\ r.phys \in Nat /\ r.size \in Nat
  BY RequestAssumption
<1>3. virt' \in Nat /\ phys' \in Nat /\ left' \in Int
  <2>1. CASE MapMemoryVp(r)
    BY <1>2, <2>1 DEF MapMemoryVp
  <2>2. CASE MapMemory(r)
    <3>1. RoundDown(r.virt) \in Nat
      BY <1>2, RoundNat
    <3>2. r.virt + r.size + PageSize - 1 \in Nat
      BY <1>2, PowerNat
    <3>3. RoundUp(r.virt + r.size) \in Nat
      BY <3>2, RoundNat DEF RoundUp
    <3> QED BY <2>2, <3>1, <3>3 DEF MapMemory
  <2> QED BY <2>1, <2>2
<1>4. PageTypes'
  BY <1>1, <1>3 DEF TreeInv, PageTypes, Levels, Tables
<1>5. PICK lev \in [Tables -> 0..4] : TreeOf(mem, free, lev)
  BY DEF TreeInv
<1>6. TreeOf(mem', free', lev) /\ lev[dir'] = level'
  BY <1>1, <1>5 DEF TreeOf, Tables
<1>7. dir' = Walked(mem', virt', level')
  BY <1>1 DEF Walked
<1> QED BY <1>4, <1>5, <1>6, <1>7 DEF TreeInv

LEMMA NewTableTree ==
    ASSUME TreeInv, NEW f \in free, NewTable(f)
    PROVE  TreeInv' /\ \A v \in Nat : TranslateIn(mem', v) = TranslateIn(mem, v)
<1>1. /\ PageTypes /\ pc = "walk" /\ pc' = "walk" /\ call' = call /\ virt' = virt /\ phys' = phys /\ left' = left
      /\ free' = free \ {f} /\ dir' = f /\ level' = level + 1 /\ dir = Walked(mem, virt, level)
  BY DEF TreeInv, NewTable, AllocPage
<1>2. PICK lev \in [Tables -> 0..4] : TreeOf(mem, free, lev) /\ lev[dir] = level
  BY <1>1 DEF TreeInv
<1>3. /\ Added(mem, mem', dir, Index(virt, level), f)
      /\ level \in 1..3 /\ lev[f] = 0 /\ f # Root
      /\ mem' \in [Tables -> [Idx -> EntryType]]
  BY <1>1, <1>2, NewTableAdds
<1>4. virt \in Nat /\ free \subseteq Tables /\ f \in Tables /\ dir \in Tables
  BY <1>1 DEF PageTypes, Tables
<1>5. PageTypes'
  BY <1>1, <1>3, <1>4 DEF PageTypes, Levels
<1>6. TreeOf(mem', free', [lev EXCEPT ![f] = level + 1])
  BY <1>1, <1>2, <1>3, <1>4, TreeGrows
<1>7. dir' = Walked(mem', virt', level')
  <2>1. Walked(mem', virt, level) = dir
    <3>1. Later(f, Walked(mem, virt, level), Walked(mem', virt, level))
      <4>1. level = 1 \/ level = 2 \/ level = 3
        BY <1>3
      <4>2. Later(f, Root, Root)
        BY DEF Later
      <4> QED BY <1>2, <1>3, <1>4, <4>1, <4>2, WalksAfter DEF Walked
    <3> QED BY <1>1, <1>4, <3>1, NotATable DEF Later
  <2>2. ChildIn(mem', dir, virt, level) = f
    BY <1>3, <1>4 DEF ChildIn, Added
  <2> QED BY <1>1, <1>3, <2>1, <2>2, WalkedOn
<1>8. \E new \in [Tables -> 0..4] : TreeOf(mem', free', new) /\ new[dir'] = level'
  <2>1. [lev EXCEPT ![f] = level + 1] \in [Tables -> 0..4] /\ [lev EXCEPT ![f] = level + 1][f] = level + 1
    BY <1>3, <1>4
  <2> QED BY <1>1, <1>6, <2>1
<1>9. \A v \in Nat : TranslateIn(mem', v) = TranslateIn(mem, v)
  BY <1>2, <1>3, TranslationsKept
<1> QED BY <1>1, <1>5, <1>7, <1>8, <1>9 DEF TreeInv

LEMMA WriteEntryTree ==
    ASSUME TreeInv, WriteEntry
    PROVE  /\ TreeInv'
           /\ \A v \in Nat : TranslateIn(mem', v) =
                IF \A l \in Levels : Index(v, l) = Index(virt, l) THEN LeafEntry ELSE TranslateIn(mem, v)
<1>1. /\ PageTypes /\ pc = "walk" /\ pc' = "walk" /\ call' = call /\ level = 4
      /\ virt' = virt + PageSize /\ phys' = phys + PageSize /\ left' = left - PageSize
      /\ free' = free /\ level' = 1 /\ dir' = Root /\ dir = Walk4(mem, virt)
  BY DEF TreeInv, WriteEntry, Walked
<1>2. PICK lev \in [Tables -> 0..4] : TreeOf(mem, free, lev) /\ lev[dir] = 4
  BY <1>1 DEF TreeInv
<1>3. Wrote(mem, mem', dir, Index(virt, 4), LeafEntry) /\ mem' \in [Tables -> [Idx -> EntryType]]
  BY <1>1, EntryWrites
<1>4. virt \in Nat
  BY <1>1 DEF PageTypes
<1>5. PageTypes'
  BY <1>1, <1>3, PowerNat DEF PageTypes, Levels, Tables
<1>6. TreeOf(mem', free', lev)
  BY <1>1, <1>2, <1>3, TreeStays
<1>7. lev[dir'] = level' /\ dir' = Walked(mem', virt', level')
  BY <1>1, <1>2 DEF TreeOf, Tables, Walked
<1>8. ASSUME NEW v \in Nat
      PROVE  TranslateIn(mem', v) =
        IF \A l \in Levels : Index(v, l) = Index(virt, l) THEN LeafEntry ELSE TranslateIn(mem, v)
  <2>1. dir = Walk4(mem, virt)
    BY <1>1
  <2>2. TreeOf(mem, free, lev) /\ lev[dir] = 4
    BY <1>2
  <2>3. Wrote(mem, mem', dir, Index(virt, 4), LeafEntry)
    BY <1>3
  <2> HIDE DEF LeafEntry
  <2> QED BY <1>4, <2>1, <2>2, <2>3, TranslationWritten
<1> QED BY <1>5, <1>2, <1>6, <1>7, <1>8 DEF TreeInv

LEMMA DescendTree ==
    ASSUME TreeInv, Descend
    PROVE  TreeInv'
<1>1. /\ PageTypes /\ pc = "walk" /\ pc' = "walk" /\ level \in 1..3
      /\ UNCHANGED <<mem, free, call, virt, phys, left>>
      /\ Present(Entry) /\ dir' = Entry.frame /\ level' = level + 1 /\ dir = Walked(mem, virt, level)
  BY DEF TreeInv, Descend, NeedsTable, PageTypes, Levels
<1>2. PICK lev \in [Tables -> 0..4] : TreeOf(mem, free, lev) /\ lev[dir] = level
  BY <1>1 DEF TreeInv
<1>3. virt \in Nat /\ dir \in Tables
  BY <1>1 DEF PageTypes
<1>4. ChildIn(mem, dir, virt, level) = dir'
  BY <1>1, <1>3 DEF ChildIn, Entry
<1>5. Index(virt, level) \in Idx
  BY <1>1, <1>3, IndexInRange DEF Levels
<1>6. dir' \in Tables /\ lev[dir'] = level'
  BY <1>1, <1>2, <1>3, <1>5 DEF TreeOf, Entry
<1>7. dir' = Walked(mem', virt', level')
  BY <1>1, <1>4, WalkedOn
<1>8. PageTypes'
  BY <1>1, <1>6 DEF PageTypes, Levels
<1> QED BY <1>1, <1>2, <1>6, <1>7, <1>8 DEF TreeInv

LEMMA RestTree ==
    ASSUME TreeInv, NoTable \/ Return \/ UNCHANGED vars
    PROVE  TreeInv' /\ mem' = mem
<1>1. UNCHANGED <<mem, free, call, virt, phys, left, level, dir>> /\ pc' \in {"crashed", "idle", pc}
  BY DEF NoTable, Return, vars, walk
<1>2. PageTypes'
  BY <1>1 DEF TreeInv, PageTypes
<1> QED BY <1>1, <1>2 DEF TreeInv

LEMMA TreeStep ==
    ASSUME TreeInv, [Next]_vars
    PROVE  TreeInv'
  BY CallTree, NewTableTree, WriteEntryTree, DescendTree, RestTree DEF Next

LEMMA TreeAlways == Spec => []TreeInv
  BY TreeInit, TreeStep, PTL DEF Spec

(* No step of Map_memory, Map_memory_vp or alloc_page changes the          *)
(* translation of a page other than the one the loop stands at, for every  *)
(* size of page and table and all contents of the memory the heap hands    *)
(* out as tables.                                                          *)
THEOREM OnlyThisPageTheorem == Spec => OnlyThisPage
<1> DEFINE Changed(v) == Translate(v)' # Translate(v) =>
                           pc = "walk" /\ \A l \in Levels : Index(v, l) = Index(virt, l)
<1>1. ASSUME TreeInv, [Next]_vars, NEW v \in Pages PROVE Changed(v)
  <2>0. v \in Nat
    BY PowerNat DEF Pages
  <2>1. Translate(v) = TranslateIn(mem, v) /\ Translate(v)' = TranslateIn(mem', v)
    BY WalkIs, WalkIsNext
  <2>2. CASE WriteEntry
    BY <1>1, <2>0, <2>1, <2>2, WriteEntryTree DEF WriteEntry
  <2>3. CASE \E f \in free : NewTable(f)
    BY <1>1, <2>0, <2>1, <2>3, NewTableTree
  <2>4. CASE mem' = mem
    BY <2>1, <2>4
  <2>5. (\E r \in Requests : MapMemory(r) \/ MapMemoryVp(r)) \/ Descend => mem' = mem
    BY DEF MapMemory, MapMemoryVp, Call, Descend
  <2> QED BY <1>1, <2>2, <2>3, <2>4, <2>5, RestTree DEF Next
<1>2. TreeInv /\ [Next]_vars => [\A v \in Pages : Changed(v)]_vars
  BY <1>1
<1> QED BY <1>2, TreeAlways, PTL DEF Spec, OnlyThisPage

----------------------------------------------------------------------------
(* Page numbers. *)

LEMMA DivUnique ==
    ASSUME NEW m \in Nat \ {0}, NEW a \in Nat, NEW q \in Nat, NEW r \in 0..m - 1, a = m * q + r
    PROVE  a \div m = q /\ a % m = r
  OBVIOUS

LEMMA PageOf ==
    ASSUME NEW n \in Nat
    PROVE  n * PageSize \in Nat /\ (n * PageSize) \div PageSize = n /\ (n * PageSize) % PageSize = 0
<1>1. PageSize \in Nat \ {0}
  BY PowerNat
<1>2. PICK a \in Nat : a = n * PageSize
  BY <1>1
<1>3. a = PageSize * n + 0 /\ 0 \in 0..PageSize - 1
  BY <1>1, <1>2
<1> QED BY <1>1, <1>2, <1>3, DivUnique

LEMMA LessProduct ==
    ASSUME NEW m \in Nat \ {0}, NEW a \in Nat, NEW b \in Nat
    PROVE  a * m < b * m <=> a < b
<1>1. ASSUME a < b PROVE a * m < b * m
  <2>1. PICK d \in Nat \ {0} : b = a + d
    <3>1. b - a \in Nat \ {0} /\ b = a + (b - a)
      BY <1>1
    <3> QED BY <3>1
  <2>2. d * m >= m
    OBVIOUS
  <2>3. b * m = a * m + d * m
    BY <2>1
  <2>4. a * m \in Nat /\ d * m \in Nat
    OBVIOUS
  <2> QED BY <2>2, <2>3, <2>4
<1>2. ASSUME b <= a PROVE b * m <= a * m
  <2>1. PICK d \in Nat : a = b + d
    <3>1. a - b \in Nat /\ a = b + (a - b)
      BY <1>2
    <3> QED BY <3>1
  <2>2. a * m = b * m + d * m
    BY <2>1
  <2>3. b * m \in Nat /\ d * m \in Nat
    OBVIOUS
  <2> QED BY <2>2, <2>3
<1>3. a * m \in Nat /\ b * m \in Nat
  OBVIOUS
<1> QED BY <1>1, <1>2, <1>3

LEMMA DivTwice ==
    ASSUME NEW n \in Nat, NEW a \in Nat \ {0}, NEW b \in Nat \ {0}
    PROVE  n \div (a * b) = (n \div a) \div b
<1>1. PICK q \in Nat, r \in 0..a - 1 : n = a * q + r /\ n \div a = q
  BY QuotientNat
<1>2. PICK p \in Nat, s \in 0..b - 1 : q = b * p + s /\ q \div b = p
  BY QuotientNat
<1>3. n = (a * b) * p + (a * s + r)
  <2>1. n = a * (b * p + s) + r
    BY <1>1, <1>2
  <2> QED BY <2>1
<1>4. a * s + r \in 0..a * b - 1
  <2>1. PICK d \in Nat \ {0} : b = s + d
    <3>1. b - s \in Nat \ {0} /\ b = s + (b - s)
      OBVIOUS
    <3> QED BY <3>1
  <2>2. a * b = a * s + a * d
    BY <2>1
  <2>3. a * d >= a /\ a * d \in Nat /\ a * s \in Nat
    OBVIOUS
  <2> QED BY <2>2, <2>3
<1>5. a * b \in Nat \ {0}
  OBVIOUS
<1>6. n \div (a * b) = p
  BY <1>3, <1>4, <1>5, DivUnique
<1> QED BY <1>1, <1>2, <1>6

(* The four indices of a page, one division after the other. *)
LEMMA IndexNested ==
    ASSUME NEW n \in Nat
    PROVE  LET v == n * PageSize
               n1 == n \div Fanout
               n2 == n1 \div Fanout
               n3 == n2 \div Fanout
           IN  /\ n1 \in Nat /\ n2 \in Nat /\ n3 \in Nat
               /\ Index(v, 4) = n % Fanout /\ Index(v, 3) = n1 % Fanout
               /\ Index(v, 2) = n2 % Fanout /\ Index(v, 1) = n3 % Fanout
<1> DEFINE v == n * PageSize
<1> DEFINE n1 == n \div Fanout
<1> DEFINE n2 == n1 \div Fanout
<1> DEFINE n3 == n2 \div Fanout
<1>1. v \div PageSize = n
  BY PageOf
<1>2. n1 \in Nat /\ n2 \in Nat /\ n3 \in Nat
  BY PowerNat, QuotientNat
<1>3. n \div (Fanout * Fanout) = n2
  BY PowerNat, DivTwice
<1>4. n \div (Fanout * Fanout * Fanout) = n3
  <2>1. PICK s \in Nat \ {0} : s = Fanout * Fanout
    BY PowerNat
  <2>2. n \div (s * Fanout) = (n \div s) \div Fanout
    BY PowerNat, DivTwice
  <2>3. n \div s = n2
    BY <1>3, <2>1
  <2> QED BY <2>1, <2>2, <2>3
<1>5. Index(v, 4) = n % Fanout
  BY <1>1 DEF Index
<1>6. Index(v, 3) = n1 % Fanout
  BY <1>1 DEF Index
<1>7. Index(v, 2) = n2 % Fanout
  BY <1>1, <1>3 DEF Index
<1>8. Index(v, 1) = n3 % Fanout
  BY <1>1, <1>4 DEF Index
<1> QED BY <1>2, <1>5, <1>6, <1>7, <1>8

(* Numbers with the same remainder lie a multiple apart. *)
LEMMA SameRemainder ==
    ASSUME NEW x \in Nat, NEW y \in Nat, x < y, NEW m \in Nat \ {0}, x % m = y % m
    PROVE  /\ x \div m < y \div m
           /\ \A c \in Nat : (y \div m) - (x \div m) >= c => y - x >= c * m
<1>1. PICK p \in Nat, q \in Nat, r \in Nat : /\ p = x \div m /\ q = y \div m
                                             /\ x = m * p + r /\ y = m * q + r
  <2>1. x \div m \in Nat /\ x % m \in 0..m - 1 /\ x = m * (x \div m) + (x % m)
    BY QuotientNat
  <2>2. y \div m \in Nat /\ y = m * (y \div m) + (y % m)
    BY QuotientNat
  <2>3. y = m * (y \div m) + (x % m)
    BY <2>2
  <2>4. x % m \in Nat
    BY <2>1
  <2> QED BY <2>1, <2>2, <2>3, <2>4
<1>2. m * p < m * q /\ m * p \in Nat /\ m * q \in Nat
  <2>1. m * p \in Nat /\ m * q \in Nat
    OBVIOUS
  <2> QED BY <1>1, <2>1
<1>3. p < q
  BY <1>2, LessProduct
<1>4. PICK d \in Nat : q = p + d
  <2>1. q - p \in Nat /\ q = p + (q - p)
    BY <1>3
  <2> QED BY <2>1
<1>5. y - x = d * m
  <2>1. m * q = m * p + d * m
    BY <1>4
  <2> QED BY <1>1, <1>2, <2>1
<1>6. ASSUME NEW c \in Nat, d >= c PROVE d * m >= c * m
  <2>1. ~(d < c)
    BY <1>6
  <2>2. ~(d * m < c * m) /\ d * m \in Nat /\ c * m \in Nat
    BY <2>1, LessProduct
  <2> QED BY <2>2
<1> QED BY <1>1, <1>3, <1>4, <1>5, <1>6

LEMMA PagesApart ==
    ASSUME NEW x \in Nat, NEW y \in Nat, x < y, y - x < Fanout * Fanout * Fanout * Fanout
    PROVE  \E l \in Levels : Index(x * PageSize, l) # Index(y * PageSize, l)
<1>1. SUFFICES ASSUME \A l \in Levels : Index(x * PageSize, l) = Index(y * PageSize, l) PROVE FALSE
  OBVIOUS
<1> DEFINE x1 == x \div Fanout
<1> DEFINE x2 == x1 \div Fanout
<1> DEFINE x3 == x2 \div Fanout
<1> DEFINE y1 == y \div Fanout
<1> DEFINE y2 == y1 \div Fanout
<1> DEFINE y3 == y2 \div Fanout
<1>2. /\ x1 \in Nat /\ x2 \in Nat /\ x3 \in Nat /\ y1 \in Nat /\ y2 \in Nat /\ y3 \in Nat
      /\ x % Fanout = y % Fanout /\ x1 % Fanout = y1 % Fanout
      /\ x2 % Fanout = y2 % Fanout /\ x3 % Fanout = y3 % Fanout
  <2>1. 1 \in Levels /\ 2 \in Levels /\ 3 \in Levels /\ 4 \in Levels
    BY DEF Levels
  <2> QED BY <1>1, <2>1, IndexNested
<1> HIDE DEF x1, x2, x3, y1, y2, y3
<1>3. x1 < y1 /\ \A c \in Nat : y1 - x1 >= c => y - x >= c * Fanout
  BY <1>2, PowerNat, SameRemainder DEF x1, y1
<1>4. x2 < y2 /\ \A c \in Nat : y2 - x2 >= c => y1 - x1 >= c * Fanout
  BY <1>2, <1>3, PowerNat, SameRemainder DEF x2, y2
<1>5. x3 < y3 /\ \A c \in Nat : y3 - x3 >= c => y2 - x2 >= c * Fanout
  BY <1>2, <1>4, PowerNat, SameRemainder DEF x3, y3
<1>6. \A c \in Nat : (y3 \div Fanout) - (x3 \div Fanout) >= c => y3 - x3 >= c * Fanout
  BY <1>2, <1>5, PowerNat, SameRemainder
<1>7. x3 \div Fanout < y3 \div Fanout
  BY <1>2, <1>5, PowerNat, SameRemainder
<1>8. x3 \div Fanout \in Nat /\ y3 \div Fanout \in Nat
  BY <1>2, PowerNat, QuotientNat
<1>9. y3 - x3 >= 1 * Fanout
  <2>1. (y3 \div Fanout) - (x3 \div Fanout) >= 1
    BY <1>7, <1>8
  <2> QED BY <1>6, <2>1
<1>10. y2 - x2 >= Fanout * Fanout
  <2>1. 1 * Fanout = Fanout /\ Fanout \in Nat
    BY PowerNat
  <2> QED BY <1>5, <1>9, <2>1
<1>11. y1 - x1 >= Fanout * Fanout * Fanout
  BY <1>4, <1>10, PowerNat
<1>12. y - x >= Fanout * Fanout * Fanout * Fanout
  BY <1>3, <1>11, PowerNat
<1>13. Fanout * Fanout * Fanout * Fanout \in Nat
  BY PowerNat
<1> QED BY <1>12, <1>13

----------------------------------------------------------------------------
(* The range of a call. *)

LEMMA CallTypes ==
    ASSUME NEW r \in Requests
    PROVE  /\ r.op \in {"map", "map_vp"} /\ r.virt \in Nat /\ r.phys \in Nat /\ r.size \in Nat
           /\ r.size + 2 * PageSize <= Span
  BY RequestAssumption, SpanAssumption

(* An offset into a page leaves the page. *)
LEMMA PageAndRest ==
    ASSUME NEW n \in Nat, NEW r \in 0..PageSize - 1
    PROVE  /\ n * PageSize + r \in Nat
           /\ (n * PageSize + r) \div PageSize = n /\ (n * PageSize + r) % PageSize = r
<1>1. PageSize \in Nat \ {0}
  BY PowerNat
<1>2. PICK a \in Nat : a = n * PageSize + r
  <2>1. n * PageSize \in Nat /\ r \in Nat
    BY <1>1
  <2>2. n * PageSize + r \in Nat
    BY <2>1
  <2> QED BY <2>2
<1>3. a = PageSize * n + r
  BY <1>1, <1>2
<1>4. a \div PageSize = n /\ a % PageSize = r
  BY <1>1, <1>3, DivUnique
<1> QED BY <1>2, <1>4

(* An address is its page and the rest. *)
LEMMA PageSplit ==
    ASSUME NEW a \in Nat
    PROVE  /\ a \div PageSize \in Nat /\ a % PageSize \in 0..PageSize - 1
           /\ a = (a \div PageSize) * PageSize + (a % PageSize)
           /\ RoundDown(a) = (a \div PageSize) * PageSize
<1>1. PageSize \in Nat \ {0}
  BY PowerNat
<1>2. a \div PageSize \in Nat /\ a % PageSize \in 0..PageSize - 1
      /\ a = PageSize * (a \div PageSize) + (a % PageSize)
  BY <1>1, QuotientNat
<1>3. PageSize * (a \div PageSize) = (a \div PageSize) * PageSize
  BY <1>1, <1>2
<1> QED BY <1>2, <1>3, RoundNat

(* What map_vp and map have to map, in bytes from the first page on. *)
LEMMA BytesBound ==
    ASSUME call \in Requests
    PROVE  /\ FirstPage \in Nat /\ FirstFrame \in Nat /\ Bytes \in Nat /\ Bytes <= Span
           /\ VirtRest \in 0..PageSize - 1 /\ PhysRest \in 0..PageSize - 1
           /\ call.op = "map" => /\ FirstFrame = FirstPage /\ PhysRest = 0
                                 /\ FirstPage * PageSize <= call.virt
                                 /\ call.virt + call.size <= FirstPage * PageSize + Bytes
           /\ call.op = "map_vp" => /\ call.virt = FirstPage * PageSize + VirtRest
                                    /\ call.phys = FirstFrame * PageSize + PhysRest
                                    /\ Bytes = call.size
<1>1. /\ call.op \in {"map", "map_vp"} /\ call.virt \in Nat /\ call.phys \in Nat /\ call.size \in Nat
      /\ call.size + 2 * PageSize <= Span /\ PageSize \in Nat \ {0}
  BY CallTypes, PowerNat
<1>2. /\ FirstPage \in Nat /\ call.virt % PageSize \in 0..PageSize - 1
      /\ call.virt = FirstPage * PageSize + (call.virt % PageSize)
      /\ RoundDown(call.virt) = FirstPage * PageSize
  BY <1>1, PageSplit DEF FirstPage
<1>3. /\ call.phys \div PageSize \in Nat /\ call.phys % PageSize \in 0..PageSize - 1
      /\ call.phys = (call.phys \div PageSize) * PageSize + (call.phys % PageSize)
  BY <1>1, PageSplit
<1>4. CASE call.op = "map"
  <2>1. Bytes = RoundUp(call.virt + call.size) - RoundDown(call.virt)
    BY <1>4 DEF Bytes
  <2>2. /\ RoundUp(call.virt + call.size) \in Nat
        /\ call.virt + call.size <= RoundUp(call.virt + call.size)
        /\ RoundUp(call.virt + call.size) <= call.virt + call.size + PageSize
    <3>1. PICK a \in Nat : a = call.virt + call.size + PageSize - 1
      BY <1>1
    <3>2. a % PageSize \in 0..PageSize - 1
      BY <1>1, QuotientNat
    <3>3. RoundUp(call.virt + call.size) = a - (a % PageSize)
      BY <3>1 DEF RoundUp, RoundDown
    <3> QED BY <1>1, <3>1, <3>2, <3>3
  <2>3. Span \in Int
    BY PowerNat DEF Span
  <2>4. RoundDown(call.virt) \in Nat /\ RoundDown(call.virt) <= call.virt
        /\ call.virt - RoundDown(call.virt) < PageSize
    <3>1. RoundDown(call.virt) = call.virt - (call.virt % PageSize)
      BY DEF RoundDown
    <3>2. RoundDown(call.virt) \in Nat
      BY <1>1, <1>2
    <3>3. PICK m \in 0..PageSize - 1 : m = call.virt % PageSize
      BY <1>2
    <3> QED BY <1>1, <3>1, <3>2, <3>3
  <2>5. Bytes \in Nat /\ Bytes <= Span /\ call.virt + call.size <= RoundDown(call.virt) + Bytes
    BY <1>1, <2>1, <2>2, <2>3, <2>4
  <2>6. FirstFrame = FirstPage /\ VirtRest = 0 /\ PhysRest = 0
    BY <1>4 DEF FirstFrame, FirstPage, VirtRest, PhysRest
  <2>7. 0 \in 0..PageSize - 1
    BY <1>1
  <2> QED BY <1>2, <1>4, <2>4, <2>5, <2>6, <2>7
<1>5. CASE call.op = "map_vp"
  <2>1. /\ FirstFrame = call.phys \div PageSize /\ VirtRest = call.virt % PageSize
        /\ PhysRest = call.phys % PageSize /\ Bytes = call.size
    BY <1>5 DEF FirstFrame, VirtRest, PhysRest, Bytes
  <2>2. Span \in Int
    BY PowerNat DEF Span
  <2>3. Bytes \in Nat /\ Bytes <= Span
    BY <1>1, <2>1, <2>2
  <2> QED BY <1>2, <1>3, <1>5, <2>1, <2>3
<1> QED BY <1>1, <1>4, <1>5

(* A whole frame has no bits below the page size. *)
LEMMA NoLowBits ==
    ASSUME NEW a, a % PageSize = 0
    PROVE  LowBits(a) = {}
  BY DEF LowBits

(* The low bits are those of the rest. *)
LEMMA SameLowBits ==
    ASSUME NEW a, NEW b, a % PageSize = b % PageSize
    PROVE  LowBits(a) = LowBits(b)
  BY DEF LowBits

LEMMA RestOfRest ==
    ASSUME NEW r \in 0..PageSize - 1
    PROVE  r % PageSize = r
<1>1. 0 * PageSize + r = r
  <2>1. PageSize \in Nat /\ r \in Nat
    BY PowerNat
  <2>2. 0 * PageSize = 0
    BY <2>1
  <2> QED BY <2>1, <2>2
<1>2. (0 * PageSize + r) % PageSize = r
  BY PageAndRest
<1> QED BY <1>1, <1>2

LEMMA CallRange ==
    ASSUME TreeInv, NEW r \in Requests, MapMemory(r) \/ MapMemoryVp(r)
    PROVE  RangeInv'
<1>1. call' = r /\ PageSize \in Nat \ {0} /\ r.virt \in Nat /\ r.phys \in Nat /\ r.size \in Nat
      /\ r.op \in {"map", "map_vp"}
  BY CallTypes, PowerNat DEF MapMemory, MapMemoryVp, Call
<1>2. SUFFICES /\ virt' = FirstPage' * PageSize + VirtRest' /\ phys' = FirstFrame' * PageSize + PhysRest'
               /\ left' = Bytes' /\ Bytes' \in Int /\ FirstPage' \in Nat /\ FirstFrame' \in Nat
               /\ VirtRest' \in 0..PageSize - 1
  <2>1. virt' \div PageSize = FirstPage'
    BY <1>2, PageAndRest
  <2>2. PagesDone' = 0
    BY <1>2, <2>1 DEF PagesDone
  <2>3. \A j \in 0..PagesDone' - 1 : FALSE
    BY <2>2
  <2>4. 0 * PageSize = 0
    BY <1>1
  <2>5. FirstPage' + 0 = FirstPage' /\ FirstFrame' + 0 = FirstFrame' /\ Bytes' - 0 = Bytes'
    <3>1. PICK x \in Nat, y \in Nat, z \in Int : x = FirstPage' /\ y = FirstFrame' /\ z = Bytes'
      BY <1>2
    <3>2. x + 0 = x /\ y + 0 = y /\ z - 0 = z
      OBVIOUS
    <3> QED BY <3>1, <3>2
  <2> QED BY <1>2, <2>2, <2>3, <2>4, <2>5 DEF RangeInv
<1>3. /\ FirstPage' = r.virt \div PageSize /\ FirstPage' \in Nat /\ RoundDown(r.virt) = FirstPage' * PageSize
      /\ r.virt = FirstPage' * PageSize + (r.virt % PageSize) /\ r.virt % PageSize \in 0..PageSize - 1
  BY <1>1, PageSplit DEF FirstPage
<1>4. CASE MapMemory(r)
  <2>1. r.op = "map" /\ virt' = RoundDown(r.virt) /\ phys' = virt'
        /\ left' = RoundUp(r.virt + r.size) - virt'
    BY <1>4 DEF MapMemory
  <2>2. FirstFrame' = FirstPage' /\ Bytes' = left' /\ VirtRest' = 0 /\ PhysRest' = 0
    BY <1>1, <2>1 DEF FirstFrame, FirstPage, Bytes, VirtRest, PhysRest
  <2>3. left' \in Int
    <3>1. TreeInv'
      BY <1>4, CallTree
    <3> QED BY <3>1 DEF TreeInv, PageTypes
  <2>4. FirstPage' * PageSize + 0 = FirstPage' * PageSize /\ 0 \in 0..PageSize - 1
    <3>1. \A a, b \in Nat : a * b \in Nat
      OBVIOUS
    <3>2. PageSize \in Nat \ {0} /\ FirstPage' \in Nat
      BY <1>1, <1>3
    <3>3. FirstPage' * PageSize \in Nat
      BY <3>1, <3>2
    <3>4. \A x \in Nat : x + 0 = x
      OBVIOUS
    <3>5. 0 \in 0..PageSize - 1
      BY <3>2
    <3> QED BY <3>3, <3>4, <3>5
  <2> QED BY <1>3, <2>1, <2>2, <2>3, <2>4
<1>5. CASE MapMemoryVp(r)
  <2>1. r.op = "map_vp" /\ virt' = r.virt /\ phys' = r.phys /\ left' = r.size
    BY <1>5 DEF MapMemoryVp
  <2>2. /\ FirstFrame' = r.phys \div PageSize /\ Bytes' = r.size
        /\ VirtRest' = r.virt % PageSize /\ PhysRest' = r.phys % PageSize
    BY <1>1, <2>1 DEF FirstFrame, Bytes, VirtRest, PhysRest
  <2>3. r.phys = (r.phys \div PageSize) * PageSize + (r.phys % PageSize) /\ r.phys \div PageSize \in Nat
    BY <1>1, PageSplit
  <2>4. virt' = FirstPage' * PageSize + VirtRest'
    BY <1>3, <2>1, <2>2
  <2>5. phys' = FirstFrame' * PageSize + PhysRest'
    BY <2>1, <2>2, <2>3
  <2>6. left' = Bytes' /\ Bytes' \in Int
    BY <1>1, <2>1, <2>2
  <2>7. FirstFrame' \in Nat
    BY <2>2, <2>3
  <2>8. VirtRest' \in 0..PageSize - 1
    BY <1>3, <2>2
  <2> QED BY <1>3, <2>4, <2>5, <2>6, <2>7, <2>8
<1> QED BY <1>4, <1>5

(* Addresses of the same page have the same indices and translation. *)
LEMMA SameIndex ==
    ASSUME NEW v, NEW w, v \div PageSize = w \div PageSize, NEW l \in Levels
    PROVE  Index(v, l) = Index(w, l)
  BY DEF Index

LEMMA SamePage ==
    ASSUME NEW v \in Nat, NEW w \in Nat, v \div PageSize = w \div PageSize
    PROVE  Translate(v) = Translate(w)
<1>1. Index(v, 1) = Index(w, 1) /\ Index(v, 2) = Index(w, 2)
      /\ Index(v, 3) = Index(w, 3) /\ Index(v, 4) = Index(w, 4)
  BY DEF Index
<1> HIDE DEF Index
<1> QED BY <1>1 DEF Translate, Child

(* The pages written before are not those of the present turn. *)
LEMMA WriteRange ==
    ASSUME TreeInv, RangeInv, WriteEntry
    PROVE  RangeInv'
<1> DEFINE k == PagesDone
<1>1. /\ pc = "walk" /\ call' = call /\ virt' = virt + PageSize /\ phys' = phys + PageSize
      /\ left' = left - PageSize /\ left > 0 /\ call \in Requests
  BY DEF WriteEntry, TreeInv, PageTypes
<1>r. /\ FirstPage' = FirstPage /\ FirstFrame' = FirstFrame /\ Bytes' = Bytes
      /\ VirtRest' = VirtRest /\ PhysRest' = PhysRest /\ CallFlags' = CallFlags
  BY <1>1 DEF FirstPage, FirstFrame, Bytes, VirtRest, PhysRest, CallFlags
<1>2. /\ k \in Nat /\ virt = (FirstPage + k) * PageSize + VirtRest
      /\ phys = (FirstFrame + k) * PageSize + PhysRest
      /\ left = Bytes - k * PageSize
      /\ \A j \in 0..k - 1 :
            Translate((FirstPage + j) * PageSize) = [frame |-> FirstFrame + j, flags |-> CallFlags]
  BY <1>1 DEF RangeInv
<1>3. /\ FirstPage \in Nat /\ FirstFrame \in Nat /\ Bytes \in Nat /\ Bytes <= Span /\ PageSize \in Nat \ {0}
      /\ VirtRest \in 0..PageSize - 1 /\ PhysRest \in 0..PageSize - 1
  BY <1>1, BytesBound, PowerNat
<1>4. k * PageSize \in Nat /\ (k + 1) * PageSize = k * PageSize + PageSize
  BY <1>2, <1>3
<1>5. k < Fanout * Fanout * Fanout * Fanout
  <2>1. PICK s \in Nat : s = Fanout * Fanout * Fanout * Fanout
    BY PowerNat
  <2>2. Span = s * PageSize
    BY <1>3, <2>1, PowerNat DEF Span
  <2>3. k * PageSize < s * PageSize
    BY <1>1, <1>2, <1>3, <1>4, <2>2
  <2> QED BY <1>2, <1>3, <2>1, <2>3, LessProduct
<1> HIDE DEF k
<1>6. /\ virt' = (FirstPage + (k + 1)) * PageSize + VirtRest
      /\ phys' = (FirstFrame + (k + 1)) * PageSize + PhysRest
      /\ left' = Bytes - (k + 1) * PageSize
  <2>1. /\ (FirstPage + (k + 1)) * PageSize = (FirstPage + k) * PageSize + PageSize
        /\ (FirstFrame + (k + 1)) * PageSize = (FirstFrame + k) * PageSize + PageSize
        /\ (FirstPage + k) * PageSize \in Nat /\ (FirstFrame + k) * PageSize \in Nat
    BY <1>2, <1>3
  <2>2. VirtRest \in Nat /\ PhysRest \in Nat
    BY <1>3
  <2> QED BY <1>1, <1>2, <1>3, <1>4, <2>1, <2>2
<1>7. PagesDone' = k + 1
  <2>1. FirstPage + (k + 1) \in Nat
    BY <1>2, <1>3
  <2>2. virt' \div PageSize = FirstPage + (k + 1)
    BY <1>3, <1>6, <2>1, PageAndRest
  <2> QED BY <1>2, <1>3, <1>r, <2>2 DEF PagesDone
<1>8. LeafEntry = [frame |-> FirstFrame + k, flags |-> CallFlags]
  <2>1. FirstFrame + k \in Nat
    BY <1>2, <1>3
  <2>2. phys \div PageSize = FirstFrame + k /\ phys % PageSize = PhysRest
    BY <1>2, <1>3, <2>1, PageAndRest
  <2>3. LowBits(phys) = LowBits(PhysRest)
    BY <1>3, <2>2, RestOfRest, SameLowBits
  <2> QED BY <2>2, <2>3 DEF LeafEntry, CallFlags
<1>9. ASSUME NEW j \in 0..k
      PROVE  Translate((FirstPage + j) * PageSize)' = [frame |-> FirstFrame + j, flags |-> CallFlags]
  <2>1. PICK v \in Nat : v = (FirstPage + j) * PageSize
    BY <1>2, <1>3, PageOf
  <2>2. TranslateIn(mem', v) =
          IF \A l \in Levels : Index(v, l) = Index(virt, l) THEN LeafEntry ELSE TranslateIn(mem, v)
    BY WriteEntryTree
  <2>3. Translate(v) = TranslateIn(mem, v) /\ Translate(v)' = TranslateIn(mem', v)
    BY WalkIs, WalkIsNext
  <2>0. Translate((FirstPage + j) * PageSize)' = Translate(v)'
    BY <1>r, <2>1 DEF Translate, Child
  <2>6. ((FirstPage + k) * PageSize) \div PageSize = virt \div PageSize
    <3>1. FirstPage + k \in Nat
      BY <1>2, <1>3
    <3>2. ((FirstPage + k) * PageSize) \div PageSize = FirstPage + k
      BY <3>1, PageOf
    <3>3. virt \div PageSize = FirstPage + k
      BY <1>2, <1>3, <3>1, PageAndRest
    <3> QED BY <3>2, <3>3
  <2>7. \A l \in Levels : Index((FirstPage + k) * PageSize, l) = Index(virt, l)
    BY <2>6, SameIndex
  <2>4. CASE j = k
    <3>1. \A l \in Levels : Index(v, l) = Index(virt, l)
      BY <2>1, <2>4, <2>7
    <3>2. Translate(v)' = LeafEntry
      BY <2>2, <2>3, <3>1
    <3> QED BY <1>8, <2>0, <2>4, <3>2
  <2>5. CASE j # k
    <3>1. j \in 0..k - 1 /\ FirstPage + j < FirstPage + k
          /\ (FirstPage + k) - (FirstPage + j) < Fanout * Fanout * Fanout * Fanout
      <4>1. PICK s \in Nat : s = Fanout * Fanout * Fanout * Fanout
        BY PowerNat
      <4> QED BY <1>2, <1>3, <1>5, <2>5, <4>1
    <3>2. PICK l \in Levels : Index((FirstPage + j) * PageSize, l) # Index((FirstPage + k) * PageSize, l)
      <4>1. FirstPage + j \in Nat /\ FirstPage + k \in Nat
        BY <1>2, <1>3
      <4> QED BY <3>1, <4>1, PagesApart
    <3>3. Translate(v)' = Translate(v)
      BY <2>1, <2>2, <2>3, <2>7, <3>2
    <3>4. Translate(v) = [frame |-> FirstFrame + j, flags |-> CallFlags]
      BY <1>2, <2>1, <3>1
    <3> QED BY <2>0, <3>3, <3>4
  <2> QED BY <2>4, <2>5
<1>10. \A j \in 0..(k + 1) - 1 : j \in 0..k
  BY <1>2
<1>11. k + 1 \in Nat
  BY <1>2
<1> QED BY <1>r, <1>6, <1>7, <1>9, <1>10, <1>11 DEF RangeInv

LEMMA RangeStep ==
    ASSUME TreeInv, RangeInv, [Next]_vars
    PROVE  RangeInv'
<1>1. CASE \E r \in Requests : MapMemory(r) \/ MapMemoryVp(r)
  BY <1>1, CallRange
<1>2. CASE WriteEntry
  BY <1>2, WriteRange
<1>3. CASE NoTable \/ Return
  BY <1>3 DEF NoTable, Return, RangeInv
<1>4. CASE Descend \/ (\E f \in free : NewTable(f)) \/ UNCHANGED vars
  <2>1. UNCHANGED <<pc, call, virt, phys, left>>
    BY <1>4 DEF Descend, NewTable, vars, walk
  <2>2. ASSUME NEW v \in Nat PROVE Translate(v)' = Translate(v)
    <3>1. TranslateIn(mem', v) = TranslateIn(mem, v)
      BY <1>4, NewTableTree DEF Descend, vars
    <3> QED BY <3>1, WalkIs, WalkIsNext
  <2>3. /\ FirstPage' = FirstPage /\ FirstFrame' = FirstFrame /\ Bytes' = Bytes
        /\ VirtRest' = VirtRest /\ PhysRest' = PhysRest /\ CallFlags' = CallFlags /\ PagesDone' = PagesDone
    BY <2>1 DEF FirstPage, FirstFrame, Bytes, VirtRest, PhysRest, CallFlags, PagesDone
  <2>4. CASE pc # "walk"
    BY <2>1, <2>4 DEF RangeInv
  <2>5. CASE pc = "walk"
    <3>1. FirstPage \in Nat /\ PagesDone \in Nat
      BY <2>5, BytesBound DEF TreeInv, PageTypes, RangeInv
    <3>2. ASSUME NEW j \in 0..PagesDone - 1
          PROVE  Translate((FirstPage + j) * PageSize)' = Translate((FirstPage + j) * PageSize)
      <4>1. PICK v \in Nat : v = (FirstPage + j) * PageSize
        BY <3>1, PageOf
      <4>2. Translate(v)' = Translate(v)
        BY <2>2
      <4>3. Translate((FirstPage + j) * PageSize)' = Translate(v)'
        BY <2>3, <4>1 DEF Translate, Child
      <4> QED BY <4>1, <4>2, <4>3
    <3> QED BY <2>1, <2>3, <2>5, <3>2 DEF RangeInv
  <2> QED BY <2>4, <2>5
<1> QED BY <1>1, <1>2, <1>3, <1>4 DEF Next

(* When a call is done, it has mapped every page up to its size. *)
LEMMA PageMapped ==
    ASSUME TreeInv, RangeInv, pc = "walk", left <= 0, NEW j \in Nat, j * PageSize < Bytes,
           NEW r \in 0..PageSize - 1
    PROVE  Translate((FirstPage + j) * PageSize + r) = [frame |-> FirstFrame + j, flags |-> CallFlags]
<1> DEFINE k == PagesDone
<1>1. call \in Requests /\ PageSize \in Nat \ {0}
  BY PowerNat DEF TreeInv, PageTypes
<1>2. FirstPage \in Nat /\ Bytes \in Nat
  BY <1>1, BytesBound
<1>3. /\ k \in Nat /\ left = Bytes - k * PageSize
      /\ \A i \in 0..k - 1 :
            Translate((FirstPage + i) * PageSize) = [frame |-> FirstFrame + i, flags |-> CallFlags]
  BY DEF RangeInv
<1> HIDE DEF k
<1>4. j < k
  <2>1. k * PageSize \in Nat /\ j * PageSize \in Nat
    BY <1>1, <1>3
  <2>2. j * PageSize < k * PageSize
    BY <1>2, <1>3, <2>1
  <2> QED BY <1>1, <1>3, <2>2, LessProduct
<1>5. Translate((FirstPage + j) * PageSize) = [frame |-> FirstFrame + j, flags |-> CallFlags]
  <2>1. j \in 0..k - 1
    BY <1>3, <1>4
  <2> QED BY <1>3, <2>1
<1>6. FirstPage + j \in Nat
  BY <1>2
<1>7. Translate((FirstPage + j) * PageSize + r) = Translate((FirstPage + j) * PageSize)
  <2>1. /\ (FirstPage + j) * PageSize + r \in Nat
        /\ ((FirstPage + j) * PageSize + r) \div PageSize = FirstPage + j
    BY <1>6, PageAndRest
  <2>2. /\ (FirstPage + j) * PageSize \in Nat
        /\ ((FirstPage + j) * PageSize) \div PageSize = FirstPage + j
    BY <1>6, PageOf
  <2> QED BY <2>1, <2>2, SamePage
<1> QED BY <1>5, <1>7

(* Map_memory's bytes: the page of each lies in the rounded range. *)
LEMMA MapMapped ==
    ASSUME TreeInv, RangeInv, pc = "walk", left <= 0, call.op = "map", NEW b \in 0..call.size - 1
    PROVE  MappedTo(call.virt + b, call.virt + b, call.flags)
<1>1. call \in Requests /\ PageSize \in Nat \ {0}
  BY PowerNat DEF TreeInv, PageTypes
<1>2. call.virt \in Nat /\ call.size \in Nat /\ b \in Nat /\ b < call.size
  BY <1>1, CallTypes
<1>3. /\ FirstPage \in Nat /\ Bytes \in Nat /\ FirstFrame = FirstPage /\ PhysRest = 0
      /\ FirstPage * PageSize <= call.virt
      /\ call.virt + call.size <= FirstPage * PageSize + Bytes
  BY <1>1, BytesBound
<1>4. PICK a \in Nat : a = call.virt + b
  BY <1>2
<1>5. PICK z \in Nat, r \in 0..PageSize - 1 : z = a \div PageSize /\ a = z * PageSize + r
  BY <1>1, PageSplit
<1>6. FirstPage * PageSize \in Nat /\ z * PageSize \in Nat /\ r \in Nat /\ r < PageSize
  BY <1>1, <1>3
<1>7. FirstPage <= z
  <2>1. (z + 1) * PageSize = z * PageSize + PageSize
    BY <1>1
  <2>2. FirstPage * PageSize < (z + 1) * PageSize
    BY <1>1, <1>2, <1>3, <1>4, <1>5, <1>6, <2>1
  <2>3. FirstPage < z + 1
    BY <1>1, <1>3, <2>2, LessProduct
  <2> QED BY <1>3, <2>3
<1>8. PICK j \in Nat : z = FirstPage + j
  <2>1. z - FirstPage \in Nat /\ z = FirstPage + (z - FirstPage)
    BY <1>3, <1>7
  <2> QED BY <2>1
<1>9. j * PageSize < Bytes
  <2>1. z * PageSize = FirstPage * PageSize + j * PageSize /\ j * PageSize \in Nat
    BY <1>1, <1>3, <1>8
  <2> QED BY <1>2, <1>3, <1>4, <1>5, <1>6, <2>1
<1>10. Translate(a) = [frame |-> FirstFrame + j, flags |-> CallFlags]
  BY <1>5, <1>8, <1>9, PageMapped
<1>11. CallFlags = call.flags
  <2>1. 0 \in 0..PageSize - 1
    BY <1>1
  <2>2. LowBits(0) = {}
    BY <2>1, RestOfRest, NoLowBits
  <2> QED BY <1>3, <2>2 DEF CallFlags
<1>12. a \div PageSize = FirstFrame + j
  BY <1>3, <1>5, <1>8
<1> QED BY <1>4, <1>10, <1>11, <1>12 DEF MappedTo

(* Map_memory_vp's: the page of every multiple of the page size. *)
LEMMA MapVpMapped ==
    ASSUME TreeInv, RangeInv, pc = "walk", left <= 0, call.op = "map_vp",
           NEW b \in 0..call.size - 1, NEW r \in 0..PageSize - 1,
           r = 0 \/ Aligned(call)
    PROVE  MappedTo(call.virt + (RoundDown(b) + r), call.phys + (RoundDown(b) + r),
                    call.flags \cup LowBits(call.phys))
<1>1. call \in Requests /\ PageSize \in Nat \ {0}
  BY PowerNat DEF TreeInv, PageTypes
<1>2. call.virt \in Nat /\ call.phys \in Nat /\ call.size \in Nat /\ b \in Nat /\ b < call.size
  BY <1>1, CallTypes
<1>3. /\ FirstPage \in Nat /\ FirstFrame \in Nat /\ Bytes = call.size
      /\ VirtRest \in 0..PageSize - 1 /\ PhysRest \in 0..PageSize - 1
      /\ call.virt = FirstPage * PageSize + VirtRest
      /\ call.phys = FirstFrame * PageSize + PhysRest
  BY <1>1, BytesBound
<1>4. PICK j \in Nat : RoundDown(b) = j * PageSize /\ j * PageSize \in Nat /\ j * PageSize <= b
  <2>1. /\ b \div PageSize \in Nat /\ b % PageSize \in 0..PageSize - 1
        /\ RoundDown(b) = (b \div PageSize) * PageSize
        /\ b = (b \div PageSize) * PageSize + (b % PageSize)
    BY <1>2, PageSplit
  <2>2. PICK q \in Nat : q = (b \div PageSize) * PageSize
    BY <1>1, <2>1
  <2>3. q <= b
    BY <1>2, <2>1, <2>2
  <2> QED BY <2>1, <2>2, <2>3
<1>5. VirtRest + r \in 0..PageSize - 1 /\ PhysRest + r \in 0..PageSize - 1
  <2>1. ASSUME Aligned(call) PROVE VirtRest = 0 /\ PhysRest = 0
    BY <2>1 DEF Aligned, VirtRest, PhysRest
  <2> QED BY <1>1, <1>3, <2>1
<1>6. /\ call.virt + (RoundDown(b) + r) = (FirstPage + j) * PageSize + (VirtRest + r)
      /\ call.phys + (RoundDown(b) + r) = (FirstFrame + j) * PageSize + (PhysRest + r)
  <2>1. /\ (FirstPage + j) * PageSize = FirstPage * PageSize + j * PageSize
        /\ (FirstFrame + j) * PageSize = FirstFrame * PageSize + j * PageSize
        /\ FirstPage * PageSize \in Nat /\ FirstFrame * PageSize \in Nat
    BY <1>1, <1>3
  <2>2. VirtRest \in Nat /\ PhysRest \in Nat /\ r \in Nat
    BY <1>1, <1>3
  <2>3. PICK x \in Nat, y \in Nat, m \in Nat : /\ x = FirstPage * PageSize /\ y = FirstFrame * PageSize
                                               /\ m = j * PageSize
    BY <1>4, <2>1
  <2>4. /\ (x + VirtRest) + (m + r) = (x + m) + (VirtRest + r)
        /\ (y + PhysRest) + (m + r) = (y + m) + (PhysRest + r)
    BY <2>2
  <2> QED BY <1>3, <1>4, <2>1, <2>3, <2>4
<1>7. Translate(call.virt + (RoundDown(b) + r)) = [frame |-> FirstFrame + j, flags |-> CallFlags]
  <2>1. j * PageSize < Bytes
    BY <1>2, <1>3, <1>4
  <2> QED BY <1>5, <1>6, <2>1, PageMapped
<1>8. (call.phys + (RoundDown(b) + r)) \div PageSize = FirstFrame + j
  <2>1. FirstFrame + j \in Nat
    BY <1>3
  <2> QED BY <1>5, <1>6, <2>1, PageAndRest
<1>9. CallFlags = call.flags \cup LowBits(call.phys)
  <2>1. call.phys % PageSize = PhysRest
    BY <1>3, PageAndRest
  <2>2. LowBits(call.phys) = LowBits(PhysRest)
    BY <1>3, <2>1, RestOfRest, SameLowBits
  <2> QED BY <2>2 DEF CallFlags
<1> QED BY <1>7, <1>8, <1>9 DEF MappedTo

LEMMA RangeMappedNow ==
    ASSUME TreeInv, RangeInv
    PROVE  RangeMapped
<1> SUFFICES ASSUME pc = "walk", left <= 0, NEW b \in 0..call.size - 1
             PROVE  /\ call.op = "map" => MappedTo(call.virt + b, call.virt + b, call.flags)
                    /\ call.op = "map_vp" =>
                          MappedTo(call.virt + RoundDown(b), call.phys + RoundDown(b),
                                   call.flags \cup LowBits(call.phys))
                    /\ call.op = "map_vp" /\ Aligned(call) =>
                          MappedTo(call.virt + b, call.phys + b, call.flags)
  BY DEF RangeMapped
<1>1. call \in Requests /\ PageSize \in Nat \ {0}
  BY PowerNat DEF TreeInv, PageTypes
<1>2. b \in Nat /\ RoundDown(b) \in Nat /\ b % PageSize \in 0..PageSize - 1
      /\ RoundDown(b) + (b % PageSize) = b
  <2>1. b \in Nat
    BY <1>1, CallTypes
  <2>2. /\ b \div PageSize \in Nat /\ b % PageSize \in 0..PageSize - 1
        /\ RoundDown(b) = (b \div PageSize) * PageSize
        /\ b = (b \div PageSize) * PageSize + (b % PageSize)
    BY <2>1, PageSplit
  <2>3. (b \div PageSize) * PageSize \in Nat
    BY <1>1, <2>2
  <2> QED BY <2>1, <2>2, <2>3
<1>3. call.op = "map_vp" =>
        MappedTo(call.virt + RoundDown(b), call.phys + RoundDown(b), call.flags \cup LowBits(call.phys))
  <2>1. 0 \in 0..PageSize - 1 /\ RoundDown(b) + 0 = RoundDown(b)
    BY <1>1, <1>2
  <2>2. call.op = "map_vp" =>
          MappedTo(call.virt + (RoundDown(b) + 0), call.phys + (RoundDown(b) + 0),
                   call.flags \cup LowBits(call.phys))
    BY <2>1, MapVpMapped
  <2> QED BY <2>1, <2>2
<1>4. ASSUME call.op = "map_vp", Aligned(call)
      PROVE  MappedTo(call.virt + b, call.phys + b, call.flags)
  <2>1. MappedTo(call.virt + (RoundDown(b) + (b % PageSize)), call.phys + (RoundDown(b) + (b % PageSize)),
                 call.flags \cup LowBits(call.phys))
    BY <1>2, <1>4, MapVpMapped
  <2>2. LowBits(call.phys) = {}
    BY <1>4, NoLowBits DEF Aligned
  <2>3. call.flags \cup LowBits(call.phys) = call.flags
    BY <2>2
  <2> QED BY <1>2, <2>1, <2>3
<1> QED BY <1>3, <1>4, MapMapped

LEMMA RangeAlways == Spec => [](TreeInv /\ RangeInv)
<1>1. Init => RangeInv
  BY DEF Init, RangeInv
<1>2. TreeInv /\ RangeInv /\ [Next]_vars => RangeInv'
  BY RangeStep
<1> QED BY <1>1, <1>2, TreeAlways, PTL DEF Spec

(* For any page size and any number of entries in a table: when Map_memory *)
(* returns, or Map_memory_vp from aligned addresses, every byte of its     *)
(* range is mapped as it said; from unaligned ones Map_memory_vp has       *)
(* mapped the page of every offset it stepped over, with the low bits of   *)
(* phys among the flags.                                                   *)
THEOREM RangeMappedTheorem == Spec => []RangeMapped
<1>1. TreeInv /\ RangeInv => RangeMapped
  BY RangeMappedNow
<1> QED BY <1>1, RangeAlways, PTL
=============================================================================

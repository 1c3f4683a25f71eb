------------------------------- MODULE Heap -------------------------------
(***************************************************************************)
(* The kernel heap, kernel/Memory/heap.cpp: a first-fit allocator over one *)
(* region, whose blocks carry their header in front of their payload and   *)
(* form a doubly linked list in address order.  The loops of malloc and of *)
(* free take one step per iteration, each following the same pointers the  *)
(* code follows; a call runs to its end before the next one starts (the    *)
(* heap has no lock; the README lists what that leaves open).              *)
(*                                                                         *)
(* Addresses and sizes are bytes.  A request is a record                   *)
(*   [kind |-> "malloc" | "align" | "boundry", size, align, boundry]       *)
(* for a call of malloc, malloc_align or malloc_boundry.                   *)
(***************************************************************************)
EXTENDS Integers

CONSTANTS HeapStart,   \* heap_addr, page aligned
          HeapSize,    \* size given to heap_init
          Word,        \* 2^64: the first value an uint64_t does not hold
          Requests,    \* the calls the kernel makes
          NULL         \* nullptr

Granule         == 16  \* malloc rounds every size up to a multiple of 16
BlockSize       == 32  \* sizeof(Block)
AlignHeaderSize == 8   \* sizeof(AlignHeader)

RoundUp(x, a)   == ((x + a - 1) \div a) * a
RoundDown(x, a) == (x \div a) * a

(* `if (align == 0) align = 1' of malloc_align and malloc_boundry. *)
Alignment(r) == IF r.align = 0 THEN 1 ELSE r.align

(* The bytes the call asks malloc for. *)
Total(r) ==
    CASE r.kind = "malloc"  -> r.size
      [] r.kind = "align"   -> r.size + Alignment(r) + AlignHeaderSize
      [] r.kind = "boundry" -> r.size + Alignment(r) + r.boundry + AlignHeaderSize

(* malloc_boundry error #1: the total would not fit a word. *)
TooBig(r) == r.kind = "boundry" /\ r.size > Word - 1 - r.align - r.boundry - AlignHeaderSize

(* `boundry & (boundry - 1)': n has an odd divisor. *)
NotPowerOfTwo(n) == \E d \in 3..n : d % 2 = 1 /\ n % d = 0

(***************************************************************************)
(* The assumptions on the heap and its callers: the region is 16-byte      *)
(* aligned (memory.cpp hands a page-aligned one) and holds one header; no  *)
(* request wraps when malloc rounds it, unless malloc_boundry refuses it;  *)
(* alignments are powers of two, for which the code's mask rounds up.      *)
(***************************************************************************)
ASSUME HeapAssumption ==
    /\ HeapStart \in Nat \ {0} /\ HeapStart % Granule = 0
    /\ HeapSize \in Nat /\ HeapSize >= BlockSize /\ HeapSize % Granule = 0
    /\ Word \in Nat
    /\ NULL \notin Int

ASSUME RequestAssumption ==
    /\ NULL \notin Requests
    /\ \A r \in Requests :
          /\ r \in [kind : {"malloc", "align", "boundry"}, size : Nat, align : Nat, boundry : Nat]
          /\ ~NotPowerOfTwo(r.align)
          /\ TooBig(r) \/ Total(r) + Granule - 1 < Word

HeapEnd == HeapStart + HeapSize

VARIABLES
    blk,    \* the blocks: header address |-> [size, free, next, prev]
    held,   \* what callers hold: pointer |-> [raw, req]; raw is the address
            \* malloc returned, kept in the AlignHeader below the pointer
    pc,     \* "idle", or the loop a call is in: "search", "right", "left"
    cur,    \* `block' of malloc's loop, `old_block' of free's loops
    req     \* the request being served

vars == <<blk, held, pc, cur, req>>

Blocks == DOMAIN blk
End(b) == b + BlockSize + blk[b].size
Payload(b) == b + BlockSize     \* block + 1
Header(size, free, next, prev) == [size |-> size, free |-> free, next |-> next, prev |-> prev]
WithPrev(b, prev) == Header(blk[b].size, blk[b].free, blk[b].next, prev)
WithFree(b, free) == Header(blk[b].size, free, blk[b].next, blk[b].prev)

-----------------------------------------------------------------------------
(* heap_init: one free block over the whole region. *)
Init ==
    /\ blk = [b \in {HeapStart} |->
                [size |-> HeapSize - BlockSize, free |-> TRUE, next |-> NULL, prev |-> NULL]]
    /\ held = [p \in {} |-> NULL]
    /\ pc = "idle"
    /\ cur = NULL
    /\ req = NULL

Want == RoundUp(Total(req), Granule)

Fits(b) == blk[b].free /\ blk[b].size >= Want

(* 32 bytes for the header and 16 for a payload are the smallest rest that *)
(* becomes a block of its own.                                             *)
Splits(b) == blk[b].size >= Want + BlockSize + Granule

(* Operators whose comment begins with MUTANT are faulty variants of the   *)
(* definition that follows them; they are not part of the specification.   *)
(* MUTANT: the block after the new one keeps its old prev. *)
SplitBlocksStalePrev(b, isFree) ==
    LET new == Payload(b) + Want
    IN [a \in Blocks \cup {new} |->
          CASE a = new -> Header(blk[b].size - Want - BlockSize, TRUE, blk[b].next, b)
            [] a = b   -> Header(Want, isFree, new, blk[b].prev)
            [] OTHER   -> blk[a]]

(* The block list after malloc has cut the end of b off into a free block. *)
SplitBlocks(b, isFree) ==
    LET new == Payload(b) + Want
        nxt == blk[b].next
    IN [a \in Blocks \cup {new} |->
          CASE a = new -> Header(blk[b].size - Want - BlockSize, TRUE, nxt, b)
            [] a = b   -> Header(Want, isFree, new, blk[b].prev)
            [] a = nxt -> WithPrev(a, new)
            [] OTHER   -> blk[a]]

(* MUTANT: a block that is split is not marked used. *)
TakeBlockUnmarked(b, isFree) ==
    IF Splits(b) THEN SplitBlocks(b, TRUE) ELSE [blk EXCEPT ![b] = WithFree(b, isFree)]

(* The block list after malloc has taken b.  A call of malloc_boundry that *)
(* gives the block straight back leaves it free: isFree.                   *)
TakeBlock(b, isFree) ==
    IF Splits(b) THEN SplitBlocks(b, isFree) ELSE [blk EXCEPT ![b] = WithFree(b, isFree)]

(* Does [a, a + size) cross a multiple of boundry? *)
Crosses(a, r) ==
    r.boundry # 0 /\ RoundDown(a, r.boundry) # RoundDown(a + r.size - 1, r.boundry)

(* MUTANT: the mask of the rounding is missing. *)
AlignedAtUnmasked(r, raw) == raw + AlignHeaderSize + Alignment(r) - 1

(* Where malloc_align puts the caller's bytes in the raw payload. *)
AlignedAt(r, raw) == RoundUp(raw + AlignHeaderSize, Alignment(r))

(* Where malloc_boundry does: on to the next boundary when a crosses one. *)
BoundryAt(r, raw) ==
    LET a == AlignedAt(r, raw)
    IN IF Crosses(a, r) THEN RoundDown(a + r.boundry, r.boundry) ELSE a

Placement(r, raw) ==
    CASE r.kind = "malloc"  -> raw
      [] r.kind = "align"   -> AlignedAt(r, raw)
      [] r.kind = "boundry" -> BoundryAt(r, raw)

(* malloc_boundry errors #4 and #5: the region still crosses a boundary,   *)
(* or leaves the raw payload.                                              *)
Misplaced(r, raw) ==
    /\ r.kind = "boundry"
    /\ \/ Crosses(BoundryAt(r, raw), r)
       \/ BoundryAt(r, raw) + r.size > raw + Total(r)

(* Errors #1 and #2 return before malloc is called. *)
Refused(r) == r.kind = "boundry" /\ (TooBig(r) \/ NotPowerOfTwo(r.boundry))

-----------------------------------------------------------------------------
(* Entry of malloc, malloc_align or malloc_boundry. *)
MallocBegin(r) ==
    /\ pc = "idle"
    /\ ~Refused(r)
    /\ req' = r
    /\ cur' = HeapStart
    /\ pc' = "search"
    /\ UNCHANGED <<blk, held>>

(* MUTANT: the loop does not advance. *)
SearchNextStuck ==
    /\ pc = "search"
    /\ ~Fits(cur)
    /\ IF blk[cur].next = NULL
       THEN pc' = "idle" /\ cur' = NULL /\ req' = NULL
       ELSE UNCHANGED <<pc, cur, req>>
    /\ UNCHANGED <<blk, held>>

(* `block = block->next' when block does not fit; at the end, nullptr. *)
SearchNext ==
    /\ pc = "search"
    /\ ~Fits(cur)
    /\ IF blk[cur].next = NULL
       THEN pc' = "idle" /\ cur' = NULL /\ req' = NULL
       ELSE pc' = "search" /\ cur' = blk[cur].next /\ req' = req
    /\ UNCHANGED <<blk, held>>

(* The block fits: split it, mark it used and return a pointer into it. *)
SearchTake ==
    /\ pc = "search"
    /\ Fits(cur)
    /\ ~Misplaced(req, Payload(cur))
    /\ blk' = TakeBlock(cur, FALSE)
    /\ LET p == Placement(req, Payload(cur))
       IN held' = [q \in DOMAIN held \cup {p} |->
                     IF q = p THEN [raw |-> Payload(cur), req |-> req] ELSE held[q]]
    /\ pc' = "idle"
    /\ cur' = NULL
    /\ req' = NULL

(* malloc_boundry got a block it cannot use: free(raw) and nullptr. *)
SearchReject ==
    /\ pc = "search"
    /\ Fits(cur)
    /\ Misplaced(req, Payload(cur))
    /\ blk' = TakeBlock(cur, TRUE)
    /\ pc' = "right"
    /\ req' = NULL
    /\ UNCHANGED <<held, cur>>

(* Entry of free, free_align or free_boundry, with a pointer the caller    *)
(* holds: mark the block free.                                             *)
FreeBegin(p) ==
    /\ pc = "idle"
    /\ LET b == held[p].raw - BlockSize
       IN blk' = [blk EXCEPT ![b] = WithFree(b, TRUE)] /\ cur' = b
    /\ held' = [q \in DOMAIN held \ {p} |-> held[q]]
    /\ pc' = "right"
    /\ UNCHANGED req

(* The block list after b has swallowed its right neighbour n. *)
Merged(b, n) ==
    [a \in Blocks \ {n} |->
        CASE a = b           -> Header(blk[b].size + blk[n].size + BlockSize, blk[b].free,
                                       blk[n].next, blk[b].prev)
          [] a = blk[n].next -> WithPrev(a, b)
          [] OTHER           -> blk[a]]

(* First loop of free: `while (old_block->next && old_block->next->free)'. *)
RightFree == blk[cur].next # NULL /\ blk[blk[cur].next].free

MergeRight ==
    /\ pc = "right"
    /\ RightFree
    /\ blk' = Merged(cur, blk[cur].next)
    /\ UNCHANGED <<held, pc, cur, req>>

RightDone ==
    /\ pc = "right"
    /\ ~RightFree
    /\ pc' = "left"
    /\ UNCHANGED <<blk, held, cur, req>>

(* MUTANT: only right neighbours are merged. *)
LeftFreeNever == FALSE

(* Second loop: `while (old_block->prev && old_block->prev->free)'. *)
LeftFree == blk[cur].prev # NULL /\ blk[blk[cur].prev].free

MergeLeft ==
    /\ pc = "left"
    /\ LeftFree
    /\ blk' = Merged(blk[cur].prev, cur)
    /\ cur' = blk[cur].prev
    /\ UNCHANGED <<held, pc, req>>

LeftDone ==
    /\ pc = "left"
    /\ ~LeftFree
    /\ pc' = "idle"
    /\ cur' = NULL
    /\ UNCHANGED <<blk, held, req>>

Step == SearchNext \/ SearchTake \/ SearchReject \/ MergeRight \/ RightDone \/ MergeLeft \/ LeftDone

Next ==
    \/ \E r \in Requests : MallocBegin(r)
    \/ \E p \in DOMAIN held : FreeBegin(p)
    \/ Step

(* A call that has started goes on: nothing else runs on the CPU. *)
Spec == Init /\ [][Next]_vars /\ WF_vars(Step)

-----------------------------------------------------------------------------
Address == HeapStart..HeapEnd
Link == Address \cup {NULL}
BlockHeader == [size : Nat, free : BOOLEAN, next : Link, prev : Link]

(* Every variable holds what its declaration in heap.cpp says, and a call  *)
(* has a current block while it runs.                                      *)
TypeOK ==
    /\ Blocks \subseteq Address
    /\ blk \in [Blocks -> BlockHeader]
    /\ held \in [DOMAIN held -> [raw : Address, req : Requests]]
    /\ DOMAIN held \subseteq Address
    /\ pc \in {"idle", "search", "right", "left"}
    /\ cur \in Blocks \cup {NULL}
    /\ req \in Requests \cup {NULL}
    /\ ((cur = NULL) <=> (pc = "idle"))
    /\ ((req = NULL) <=> (pc # "search"))

(* The blocks lie side by side in address order, without a gap, and the    *)
(* links say so: next is the block that starts where this one ends.        *)
BlockInRegion(b) ==
    /\ b % Granule = 0 /\ blk[b].size % Granule = 0
    /\ End(b) <= HeapEnd

NextLink(b) ==
    IF End(b) = HeapEnd THEN blk[b].next = NULL ELSE blk[b].next = End(b) /\ End(b) \in Blocks

PrevLink(b) ==
    IF b = HeapStart THEN blk[b].prev = NULL ELSE blk[b].prev \in Blocks /\ End(blk[b].prev) = b

Tiling ==
    /\ HeapStart \in Blocks
    /\ \A b \in Blocks : BlockInRegion(b) /\ NextLink(b) /\ PrevLink(b)
    /\ \A a, b \in Blocks : a < b => End(a) <= b

(* Two free blocks are never neighbours, except around the block a free    *)
(* call is still merging.                                                  *)
Coalesced ==
    \A b \in Blocks :
        blk[b].free /\ blk[b].next # NULL /\ blk[blk[b].next].free
            => \/ pc = "right" /\ cur \in {b, blk[b].next}
               \/ pc = "left" /\ cur = blk[b].next

(* Every caller's bytes, and the AlignHeader below them, lie in the        *)
(* payload of one used block, which is that caller's alone.                *)
HeldInBlock ==
    \A p \in DOMAIN held : \E b \in Blocks :
        /\ held[p].raw = Payload(b)
        /\ ~blk[b].free
        /\ Payload(b) <= (IF held[p].req.kind = "malloc" THEN p ELSE p - AlignHeaderSize)
        /\ p + held[p].req.size <= End(b)

OneHolder == \A p, q \in DOMAIN held : held[p].raw = held[q].raw => p = q

(* No block is lost: a used block is in some caller's hands. *)
UsedIsHeld ==
    \A b \in Blocks : ~blk[b].free => \E p \in DOMAIN held : held[p].raw = Payload(b)

(* The pointers of malloc_align and malloc_boundry have the alignment the  *)
(* caller asked for (malloc_boundry: when it is not above the boundary).   *)
Aligned ==
    \A p \in DOMAIN held :
        LET r == held[p].req
        IN /\ (r.kind = "malloc" => p % Granule = 0)
           /\ (r.kind = "align" => p % Alignment(r) = 0)
           /\ (r.kind = "boundry" => ~Crosses(p, r))
           /\ (r.kind = "boundry" /\ (r.boundry = 0 \/ Alignment(r) <= r.boundry)
                => p % Alignment(r) = 0)

(* When callers hold nothing and no call runs, the region is one free      *)
(* block again: no sequence of calls fragments the heap for good.          *)
Recovered ==
    pc = "idle" /\ DOMAIN held = {} =>
        /\ Blocks = {HeapStart}
        /\ blk[HeapStart].free
        /\ blk[HeapStart].size = HeapSize - BlockSize

TooSmallBelow(limit) ==
    \A b \in Blocks : b < limit /\ blk[b].free => blk[b].size < Want

(* While malloc walks the list, every free block behind it is too small.   *)
Searched == pc = "search" => TooSmallBelow(cur)

(* While free merges, the block it works on is free. *)
Freeing == pc \in {"right", "left"} => blk[cur].free

(* malloc takes the first block that is big enough, and returns nullptr    *)
(* only when there is none.                                                *)
FirstFit ==
    [][ /\ (pc = "search" /\ pc' = "idle" /\ held' = held => TooSmallBelow(HeapEnd))
        /\ (pc = "search" /\ pc' # "search" /\ blk' # blk => TooSmallBelow(cur)) ]_vars

(* Every call returns: the loops of malloc and of free end. *)
Returns == (pc # "idle") ~> (pc = "idle")

(* What callers see is an allocator. *)
live == [p \in DOMAIN held |-> held[p].req.size]
AllocatorView == INSTANCE Allocator WITH ArenaStart <- HeapStart, ArenaEnd <- HeapEnd, live <- live
ImplementsAllocator == AllocatorView!Spec
==========================================================================

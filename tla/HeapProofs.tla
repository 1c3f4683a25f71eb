---------------------------- MODULE HeapProofs ----------------------------
EXTENDS Heap, WellFoundedInduction, TLAPS

BlocksTyped == Blocks \subseteq Address /\ blk \in [Blocks -> BlockHeader]

BlocksOK == BlocksTyped /\ Tiling

LEMMA RoundUpBounds ==
    ASSUME NEW x \in Nat, NEW a \in Nat \ {0}
    PROVE  RoundUp(x, a) \in Nat /\ x <= RoundUp(x, a) /\ RoundUp(x, a) < x + a
  BY Z3 DEF RoundUp

LEMMA RoundDownBounds ==
    ASSUME NEW x \in Nat, NEW a \in Nat \ {0}
    PROVE  RoundDown(x, a) \in Nat /\ RoundDown(x, a) <= x /\ x < RoundDown(x, a) + a
  BY Z3 DEF RoundDown

LEMMA WantRounded ==
    ASSUME req \in Requests
    PROVE  Want \in Nat /\ Want % Granule = 0 /\ Total(req) \in Nat /\ Total(req) <= Want
<1>1. Total(req) \in Nat
  BY RequestAssumption DEF Total, Alignment, AlignHeaderSize
<1> QED BY <1>1 DEF Want, RoundUp, Granule

LEMMA HeaderFields ==
    ASSUME NEW s \in Nat, NEW f \in BOOLEAN, NEW n \in Link, NEW q \in Link
    PROVE  /\ Header(s, f, n, q) \in BlockHeader
           /\ Header(s, f, n, q).size = s
           /\ Header(s, f, n, q).free = f
           /\ Header(s, f, n, q).next = n
           /\ Header(s, f, n, q).prev = q
  BY DEF Header, BlockHeader

LEMMA MergeKeepsTiling ==
    ASSUME BlocksOK, NEW b \in Blocks, NEW n, n = blk[b].next, n # NULL,
           blk' = Merged(b, n)
    PROVE  /\ BlocksOK'
           /\ n \in Blocks /\ n > b /\ blk[n].prev = b /\ End(b) = n
           /\ Blocks' = Blocks \ {n}
           /\ blk'[b].free = blk[b].free
           /\ blk'[b].next = blk[n].next
           /\ blk'[b].prev = blk[b].prev
           /\ End(b)' = End(n)
           /\ \A a \in Blocks \ {b, n} : /\ blk'[a].free = blk[a].free
                                         /\ blk'[a].next = blk[a].next
                                         /\ blk'[a].size = blk[a].size
<1> USE HeapAssumption DEF Blocks, BlockSize, Granule, HeapEnd, Address
<1>0. /\ BlocksTyped /\ Tiling
  BY DEF BlocksOK
<1>1. b \in Int /\ blk[b].size \in Nat /\ n = End(b) /\ n \in Blocks /\ n \in Int /\ blk[n].size \in Nat
      /\ n > b
  BY <1>0 DEF BlocksTyped, Tiling, NextLink, End, BlockHeader, Link
<1>2. blk[n].prev = b
  <2>1. n # HeapStart
    BY <1>0, <1>1 DEF BlocksTyped
  <2>2. blk[n].prev \in Blocks /\ End(blk[n].prev) = n
    BY <2>1, <1>0, <1>1 DEF Tiling, PrevLink
  <2>3. blk[n].prev \in Int /\ blk[blk[n].prev].size \in Nat
    BY <2>2, <1>0 DEF BlocksTyped, BlockHeader
  <2> QED BY <2>2, <2>3, <1>0, <1>1 DEF Tiling, End
<1>3. /\ Blocks' = Blocks \ {n}
      /\ blk'[b] = Header(blk[b].size + blk[n].size + BlockSize, blk[b].free, blk[n].next, blk[b].prev)
      /\ blk[n].next # n /\ blk[n].next # b
      /\ \A a \in Blocks \ {b, n} : blk'[a] = IF a = blk[n].next THEN WithPrev(a, b) ELSE blk[a]
  <2>1. Blocks' = Blocks \ {n}
    BY DEF Merged
  <2>2. blk[n].next # n /\ blk[n].next # b
    BY <1>0, <1>1 DEF Tiling, NextLink, End
  <2> QED BY <2>1, <2>2, <1>1 DEF Merged
<1>a. \A a \in Blocks : /\ blk[a] \in BlockHeader /\ blk[a].size \in Nat /\ blk[a].free \in BOOLEAN
                       /\ blk[a].next \in Link /\ blk[a].prev \in Link
  BY <1>0 DEF BlocksTyped, BlockHeader
<1>4. /\ blk'[b].size = blk[b].size + blk[n].size + BlockSize
      /\ blk'[b].free = blk[b].free /\ blk'[b].next = blk[n].next /\ blk'[b].prev = blk[b].prev
      /\ End(b)' = End(n)
      /\ blk'[b] \in BlockHeader
  BY <1>1, <1>3, <1>a DEF Header, BlockHeader, End
<1>5. \A a \in Blocks \ {b, n} : /\ blk'[a].free = blk[a].free
                                 /\ blk'[a].next = blk[a].next
                                 /\ blk'[a].size = blk[a].size
                                 /\ End(a)' = End(a)
                                 /\ blk'[a].prev = IF a = blk[n].next THEN b ELSE blk[a].prev
                                 /\ blk'[a] \in BlockHeader
  <2>1. b \in Link
    BY <1>0 DEF BlocksTyped, Link
  <2> TAKE a \in Blocks \ {b, n}
  <2>2. CASE a = blk[n].next
    <3>1. blk'[a] = Header(blk[a].size, blk[a].free, blk[a].next, b)
      BY <2>2, <1>3 DEF WithPrev
    <3>2. /\ blk'[a].size = blk[a].size /\ blk'[a].free = blk[a].free
          /\ blk'[a].next = blk[a].next /\ blk'[a].prev = b
          /\ blk'[a] \in BlockHeader
      BY ONLY <2>1, <3>1, <1>a, HeaderFields
    <3> QED BY <3>2, <2>2 DEF End
  <2>3. CASE a # blk[n].next
    BY <2>3, <1>3, <1>a DEF End
  <2> QED BY <2>2, <2>3
<1>6. BlocksTyped'
  <2>2. blk' = [a \in Blocks' |-> blk'[a]]
    BY <1>3 DEF Merged
  <2> QED BY <2>2, <1>3, <1>4, <1>5, <1>0 DEF BlocksTyped
<1>7. Tiling'
  <2>1. HeapStart \in Blocks'
    BY <1>0, <1>1, <1>3 DEF Tiling, BlocksTyped
  <2>2. ASSUME NEW a \in Blocks' PROVE BlockInRegion(a)'
    BY <1>0, <1>1, <1>3, <1>4, <1>5, <1>a DEF Tiling, BlockInRegion, End
  <2>3. ASSUME NEW a \in Blocks' PROVE NextLink(a)'
    <3>1. CASE a = b
      BY <3>1, <1>0, <1>1, <1>3, <1>4 DEF Tiling, NextLink, End
    <3>2. CASE a # b
      <4>1. a \in Blocks \ {b, n} /\ End(a) # n
        BY <3>2, <1>1, <1>2, <1>3, <1>0, <1>a DEF Tiling, End, BlocksTyped
      <4> QED BY <4>1, <1>0, <1>3, <1>5 DEF Tiling, NextLink
    <3> QED BY <3>1, <3>2
  <2>4. ASSUME NEW a \in Blocks' PROVE PrevLink(a)'
    BY <1>0, <1>1, <1>2, <1>3, <1>4, <1>5, <1>a DEF Tiling, PrevLink, NextLink, BlockInRegion, End, BlocksTyped
  <2>5. ASSUME NEW a \in Blocks', NEW c \in Blocks', a < c PROVE (End(a) <= c)'
    BY <2>5, <1>0, <1>1, <1>2, <1>3, <1>4, <1>5 DEF Tiling, End, BlocksTyped
  <2> QED BY <2>1, <2>2, <2>3, <2>4, <2>5 DEF Tiling
<1> QED BY <1>0, <1>1, <1>2, <1>3, <1>4, <1>5, <1>6, <1>7 DEF BlocksOK
LEMMA TakeKeepsTiling ==
    ASSUME BlocksOK, req \in Requests, NEW b \in Blocks, Fits(b), NEW f \in BOOLEAN,
           blk' = TakeBlock(b, f)
    PROVE  /\ BlocksOK'
           /\ Blocks \subseteq Blocks'
           /\ blk'[b].free = f /\ Want <= blk'[b].size
           /\ \A a \in Blocks \ {b} : /\ blk'[a].free = blk[a].free
                                      /\ blk'[a].next = blk[a].next
                                      /\ blk'[a].size = blk[a].size
           /\ \/ Blocks' = Blocks /\ blk'[b].next = blk[b].next
              \/ \E new : /\ new \notin Blocks /\ Blocks' = Blocks \cup {new}
                          /\ blk'[b].next = new
                          /\ blk'[new].free = TRUE /\ blk'[new].next = blk[b].next
<1> USE HeapAssumption DEF Blocks, BlockSize, Granule, HeapEnd, Address
<1>0. BlocksTyped /\ Tiling
  BY DEF BlocksOK
<1>a. \A a \in Blocks : /\ blk[a] \in BlockHeader /\ blk[a].size \in Nat /\ blk[a].free \in BOOLEAN
                       /\ blk[a].next \in Link /\ blk[a].prev \in Link
  BY <1>0 DEF BlocksTyped, BlockHeader
<1>w. Want \in Nat /\ Want % 16 = 0
  BY WantRounded
<1>1. CASE ~Splits(b)
  <2>1. /\ Blocks' = Blocks
        /\ \A a \in Blocks \ {b} : blk'[a] = blk[a]
        /\ blk'[b] = Header(blk[b].size, f, blk[b].next, blk[b].prev)
    BY <1>1, <1>0 DEF TakeBlock, WithFree, BlocksTyped
  <2>2. /\ blk'[b].size = blk[b].size /\ blk'[b].free = f /\ blk'[b].next = blk[b].next
        /\ blk'[b].prev = blk[b].prev /\ blk'[b] \in BlockHeader
    BY ONLY <2>1, <1>a, HeaderFields
  <2>3. BlocksTyped'
    BY <1>0, <1>1, <2>1, <2>2, <1>a DEF BlocksTyped, TakeBlock
  <2>4. \A a \in Blocks : /\ blk'[a].size = blk[a].size /\ blk'[a].next = blk[a].next
                          /\ blk'[a].prev = blk[a].prev /\ End(a)' = End(a)
    BY <2>1, <2>2 DEF End
  <2>5. Tiling'
    BY <1>0, <2>1, <2>4, <1>a DEF Tiling, BlockInRegion, NextLink, PrevLink
  <2> QED BY <2>1, <2>2, <2>3, <2>4, <2>5, <1>0 DEF BlocksOK, Fits
<1>2. CASE Splits(b)
  <2>n. PICK new \in Int : new = Payload(b) + Want
    BY <1>0, <1>w DEF Payload, BlocksTyped
  <2>x. PICK nxt \in Link : nxt = blk[b].next
    BY <1>a
  <2>1. /\ b \in Int /\ new \in Int /\ b < new /\ new + 32 <= End(b) /\ End(b) \in Int /\ End(b) <= HeapEnd
        /\ new % 16 = 0 /\ new \in Address
    BY <2>n, <1>2, <1>0, <1>a, <1>w DEF Splits, Payload, End, Tiling, BlockInRegion, BlocksTyped
  <2>2. new \notin Blocks /\ nxt # new /\ nxt # b
    BY <2>1, <2>x, <1>0, <1>a DEF Tiling, End, NextLink, BlocksTyped
  <2>3. /\ Blocks' = Blocks \cup {new}
        /\ blk'[new] = Header(blk[b].size - Want - 32, TRUE, nxt, b)
        /\ blk'[b] = Header(Want, f, new, blk[b].prev)
        /\ \A a \in Blocks \ {b} : blk'[a] = IF a = nxt THEN WithPrev(a, new) ELSE blk[a]
        /\ blk' = [a \in Blocks' |-> blk'[a]]
    BY <2>n, <2>x, <2>2, <1>2 DEF TakeBlock, SplitBlocks
  <2>4. new \in Link /\ nxt \in Link /\ b \in Link /\ blk[b].size - Want - 32 \in Nat
    BY <2>1, <1>0, <1>a, <1>w, <1>2 DEF Link, BlocksTyped, Splits
  <2>5. /\ blk'[new].size = blk[b].size - Want - 32 /\ blk'[new].free = TRUE /\ blk'[new].next = nxt
        /\ blk'[new].prev = b /\ blk'[new] \in BlockHeader
    BY <2>3, <2>4 DEF Header, BlockHeader
  <2>6. /\ blk'[b].size = Want /\ blk'[b].free = f /\ blk'[b].next = new
        /\ blk'[b].prev = blk[b].prev /\ blk'[b] \in BlockHeader
    BY ONLY <2>3, <2>4, <1>a, <1>w, HeaderFields
  <2>7. \A a \in Blocks \ {b} : /\ blk'[a].free = blk[a].free
                                /\ blk'[a].next = blk[a].next
                                /\ blk'[a].size = blk[a].size
                                /\ End(a)' = End(a)
                                /\ blk'[a].prev = IF a = nxt THEN new ELSE blk[a].prev
                                /\ blk'[a] \in BlockHeader
    <3> TAKE a \in Blocks \ {b}
    <3>1. CASE a = nxt
      <4>1. blk'[a] = Header(blk[a].size, blk[a].free, blk[a].next, new)
        BY <3>1, <2>3 DEF WithPrev
      <4>2. /\ blk'[a].size = blk[a].size /\ blk'[a].free = blk[a].free
            /\ blk'[a].next = blk[a].next /\ blk'[a].prev = new
            /\ blk'[a] \in BlockHeader
        BY ONLY <2>4, <4>1, <1>a, HeaderFields
      <4> QED BY <4>2, <3>1 DEF End
    <3>2. CASE a # nxt
      BY <3>2, <2>3, <1>a DEF End
    <3> QED BY <3>1, <3>2
  <2>8. BlocksTyped'
    <3>1. \A a \in Blocks' : blk'[a] \in BlockHeader
      BY <2>3, <2>5, <2>6, <2>7
    <3>2. Blocks' \subseteq Address
      BY <2>1, <2>3, <1>0 DEF BlocksTyped
    <3> QED BY <2>3, <3>1, <3>2 DEF BlocksTyped
  <2>9. End(b)' = new /\ End(new)' = End(b)
    BY <2>n, <2>1, <2>5, <2>6, <1>w, <1>a DEF End, Payload
  <2>10. Tiling'
    <3>1. HeapStart \in Blocks'
      BY <2>3, <1>0 DEF Tiling
    <3>2. ASSUME NEW a \in Blocks' PROVE BlockInRegion(a)'
      <4>1. CASE a \in Blocks \ {b}
        BY <4>1, <2>7, <1>0 DEF Tiling, BlockInRegion
      <4>2. CASE a = b
        BY <4>2, <2>1, <2>6, <2>9, <1>0, <1>w DEF Tiling, BlockInRegion
      <4>3. CASE a = new
        BY <4>3, <2>1, <2>5, <2>9, <1>0, <1>w, <1>a DEF Tiling, BlockInRegion
      <4> QED BY <2>3, <4>1, <4>2, <4>3
    <3>3. ASSUME NEW a \in Blocks' PROVE NextLink(a)'
      <4>1. CASE a \in Blocks \ {b}
        BY <4>1, <2>3, <2>7, <1>0 DEF Tiling, NextLink
      <4>2. CASE a = b
        <5>1. End(a)' = new /\ blk'[a].next = new /\ new \in Blocks' /\ new # HeapEnd
          BY <4>2, <2>1, <2>3, <2>6, <2>9
        <5> QED BY <5>1 DEF NextLink
      <4>3. CASE a = new
        <5>1. End(a)' = End(b) /\ blk'[a].next = blk[b].next
          BY <4>3, <2>5, <2>9, <2>x
        <5> QED BY <5>1, <2>3, <1>0 DEF Tiling, NextLink
      <4> QED BY <2>3, <4>1, <4>2, <4>3
    <3>4. ASSUME NEW a \in Blocks' PROVE PrevLink(a)'
      <4>1. CASE a = nxt /\ a \in Blocks \ {b}
        <5>1. a # HeapStart
          BY <2>x, <4>1, <1>0, <1>a DEF Tiling, NextLink, End, BlocksTyped
        <5>2. End(b) = nxt
          BY <2>x, <4>1, <1>0, <1>a DEF Tiling, NextLink, BlocksTyped
        <5>3. blk'[a].prev = new /\ new \in Blocks' /\ End(new)' = a
          BY <5>2, <4>1, <2>3, <2>7, <2>9
        <5> QED BY <5>1, <5>3 DEF PrevLink
      <4>2. CASE a # nxt /\ a \in Blocks \ {b}
        <5>1. a # HeapStart => blk[a].prev \in Blocks \ {b} /\ End(blk[a].prev) = a
          BY <2>x, <4>2, <1>0, <1>a DEF Tiling, NextLink, PrevLink, BlockInRegion, End, BlocksTyped
        <5> QED BY <4>2, <5>1, <2>3, <2>7, <1>0 DEF Tiling, PrevLink
      <4>3. CASE a = b
        <5>1. a # HeapStart => blk[a].prev \in Blocks \ {b} /\ End(blk[a].prev) = a
          BY <4>3, <1>0, <1>a DEF Tiling, PrevLink, End, BlocksTyped
        <5> QED BY <4>3, <5>1, <2>3, <2>6, <2>7, <1>0 DEF Tiling, PrevLink
      <4>4. CASE a = new
        BY <4>4, <2>1, <2>2, <2>3, <2>5, <2>9, <1>0 DEF PrevLink, Tiling
      <4> QED BY <2>3, <4>1, <4>2, <4>3, <4>4
    <3>5. ASSUME NEW a \in Blocks', NEW c \in Blocks', a < c PROVE (End(a) <= c)'
      <4>1. CASE a \in Blocks \ {b} /\ c \in Blocks
        BY <3>5, <4>1, <2>7, <1>0 DEF Tiling
      <4>2. CASE a \in Blocks \ {b} /\ c = new
        <5>1. a < b \/ End(b) <= a
          BY <4>2, <1>0 DEF Tiling, BlocksTyped
        <5>2. a < b
          BY <5>1, <4>2, <3>5, <2>1, <1>0, <1>a DEF BlocksTyped, End
        <5> QED BY <5>2, <4>2, <2>1, <2>7, <1>0, <1>a DEF Tiling, BlocksTyped, End
      <4>3. CASE a = b /\ c \in Blocks
        BY <4>3, <3>5, <2>1, <2>9, <1>0, <1>a DEF Tiling, BlocksTyped, End
      <4>4. CASE a = b /\ c = new
        BY <4>4, <2>9, <2>1
      <4>5. CASE a = new /\ c \in Blocks
        <5>1. b < c
          BY <4>5, <3>5, <2>1, <1>0 DEF BlocksTyped
        <5> QED BY <5>1, <4>5, <2>9, <1>0 DEF Tiling
      <4> QED BY <2>3, <3>5, <2>1, <4>1, <4>2, <4>3, <4>4, <4>5
    <3> QED BY <3>1, <3>2, <3>3, <3>4, <3>5 DEF Tiling
  <2>11. /\ new \notin Blocks /\ Blocks' = Blocks \cup {new}
         /\ blk'[b].next = new
         /\ blk'[new].free = TRUE /\ blk'[new].next = blk[b].next
    BY <2>x, <2>2, <2>3, <2>5, <2>6
  <2>12. blk'[b].free = f /\ Want <= blk'[b].size
    BY <2>6, <1>w
  <2> QED BY <2>3, <2>7, <2>8, <2>10, <2>11, <2>12 DEF BlocksOK
<1> QED BY <1>1, <1>2

LEMMA PlacementBounds ==
    ASSUME NEW r \in Requests, NEW raw \in Nat, ~Misplaced(r, raw)
    PROVE  /\ Placement(r, raw) \in Nat
           /\ raw <= (IF r.kind = "malloc" THEN Placement(r, raw)
                                           ELSE Placement(r, raw) - AlignHeaderSize)
           /\ Placement(r, raw) + r.size <= raw + Total(r)
<1>1. /\ r.size \in Nat /\ r.align \in Nat /\ r.boundry \in Nat
      /\ r.kind \in {"malloc", "align", "boundry"}
  BY RequestAssumption
<1>2. Alignment(r) \in Nat \ {0}
  BY <1>1 DEF Alignment
<1>3. /\ AlignedAt(r, raw) \in Nat
      /\ raw + 8 <= AlignedAt(r, raw) /\ AlignedAt(r, raw) < raw + 8 + Alignment(r)
  <2>1. raw + 8 \in Nat
    OBVIOUS
  <2> QED BY <2>1, <1>2, RoundUpBounds DEF AlignedAt, AlignHeaderSize
<1>4. CASE r.kind = "malloc"
  BY <1>4, <1>1 DEF Placement, Total
<1>5. CASE r.kind = "align"
  BY <1>5, <1>1, <1>2, <1>3 DEF Placement, Total, AlignHeaderSize
<1>6. CASE r.kind = "boundry"
  <2>1. BoundryAt(r, raw) \in Nat /\ raw + 8 <= BoundryAt(r, raw)
    <3>1. CASE Crosses(AlignedAt(r, raw), r)
      <4>1. r.boundry \in Nat \ {0}
        BY <3>1, <1>1 DEF Crosses
      <4>2. AlignedAt(r, raw) + r.boundry \in Nat
        BY <1>1, <1>3
      <4>3. /\ RoundDown(AlignedAt(r, raw) + r.boundry, r.boundry) \in Nat
            /\ AlignedAt(r, raw) + r.boundry
                 < RoundDown(AlignedAt(r, raw) + r.boundry, r.boundry) + r.boundry
        BY <4>1, <4>2, RoundDownBounds
      <4> QED BY <3>1, <1>1, <1>3, <4>3 DEF BoundryAt
    <3>2. CASE ~Crosses(AlignedAt(r, raw), r)
      BY <3>2, <1>3 DEF BoundryAt
    <3> QED BY <3>1, <3>2
  <2>2. BoundryAt(r, raw) + r.size <= raw + Total(r)
    <3>1. Total(r) \in Nat
      BY <1>1, <1>2, <1>6 DEF Total, AlignHeaderSize
    <3> QED BY <3>1, <2>1, <1>1, <1>6 DEF Misplaced
  <2> QED BY <2>1, <2>2, <1>6 DEF Placement, AlignHeaderSize
<1> QED BY <1>1, <1>4, <1>5, <1>6

-----------------------------------------------------------------------------
HeapInv ==
    /\ TypeOK /\ Tiling /\ Coalesced
    /\ HeldInBlock /\ OneHolder /\ UsedIsHeld
    /\ Searched /\ Freeing

(* What the block list's invariants say of one block, in the form the      *)
(* proofs below use.                                                       *)
BlockFact(a) ==
    /\ a \in Address /\ a \in Nat
    /\ blk[a].size \in Nat /\ blk[a].free \in BOOLEAN
    /\ End(a) \in Nat /\ a + BlockSize <= End(a) /\ End(a) <= HeapEnd
    /\ (blk[a].next # NULL => blk[a].next \in Blocks /\ blk[a].next = End(a))
    /\ (blk[a].next # NULL => blk[blk[a].next].prev = a)
    /\ (blk[a].prev # NULL => blk[a].prev \in Blocks /\ blk[blk[a].prev].next = a)

LEMMA BlockFacts ==
    ASSUME TypeOK, Tiling
    PROVE  BlocksOK /\ \A a \in Blocks : BlockFact(a)
<1> USE HeapAssumption DEF Address, BlockSize, HeapEnd
<1>1. BlocksOK /\ BlocksTyped
  BY DEF TypeOK, BlocksOK, BlocksTyped
<1>2. \A a \in Blocks : /\ a \in Address /\ a \in Nat
                      /\ blk[a].size \in Nat /\ blk[a].free \in BOOLEAN
                      /\ End(a) \in Nat /\ a + BlockSize <= End(a) /\ End(a) <= HeapEnd
  BY <1>1 DEF BlocksTyped, BlockHeader, Tiling, BlockInRegion, End
<1>3. \A a \in Blocks : blk[a].next # NULL => blk[a].next \in Blocks /\ blk[a].next = End(a)
  BY DEF Tiling, NextLink
<1>4. \A a \in Blocks : blk[a].prev # NULL => blk[a].prev \in Blocks /\ blk[blk[a].prev].next = a
  <2> TAKE a \in Blocks
  <2> HAVE blk[a].prev # NULL
  <2>1. blk[a].prev \in Blocks /\ End(blk[a].prev) = a
    BY DEF Tiling, PrevLink
  <2>2. a # HeapEnd
    BY <1>2
  <2> QED BY <2>1, <2>2 DEF Tiling, NextLink
<1>5. \A a \in Blocks : blk[a].next # NULL => blk[blk[a].next].prev = a
  <2> TAKE a \in Blocks
  <2> HAVE blk[a].next # NULL
  <2>1. PICK n \in Blocks : n = blk[a].next /\ n = End(a)
    BY <1>3
  <2>2. n # HeapStart
    BY <2>1, <1>2
  <2>3. PICK m \in Blocks : m = blk[n].prev /\ End(m) = n
    BY <2>2 DEF Tiling, PrevLink
  <2>4. (a < m => End(a) <= m) /\ (m < a => End(m) <= a)
    BY DEF Tiling
  <2> QED BY <2>1, <2>3, <2>4, <1>2
<1> QED BY <1>1, <1>2, <1>3, <1>4, <1>5 DEF BlockFact

LEMMA InitInv == Init => HeapInv
<1> SUFFICES ASSUME Init PROVE HeapInv
  OBVIOUS
<1> USE HeapAssumption DEF Init
<1>1. Blocks = {HeapStart} /\ blk[HeapStart].free = TRUE /\ blk[HeapStart].size = HeapSize - BlockSize
      /\ blk[HeapStart].next = NULL /\ blk[HeapStart].prev = NULL
  BY DEF Blocks
<1>2. TypeOK
  BY <1>1 DEF TypeOK, Blocks, Address, HeapEnd, BlockHeader, Link, BlockSize
<1>3. Tiling
  BY <1>1 DEF Tiling, BlockInRegion, NextLink, PrevLink, End, HeapEnd, BlockSize, Granule
<1>4. Coalesced /\ HeldInBlock /\ OneHolder /\ UsedIsHeld /\ Searched /\ Freeing
  BY <1>1 DEF Coalesced, HeldInBlock, OneHolder, UsedIsHeld, Searched, Freeing
<1> QED BY <1>2, <1>3, <1>4 DEF HeapInv

LEMMA MallocBeginInv ==
    ASSUME HeapInv, NEW r \in Requests, MallocBegin(r) PROVE HeapInv'
<1> USE DEF HeapInv, BlockFact, MallocBegin
<1>0. HeapStart \in Blocks /\ HeapStart \in Nat /\ HeapStart # NULL /\ Blocks \subseteq Address
      /\ r # NULL
  <2>1. r # NULL
    BY HeapAssumption, RequestAssumption
  <2> QED BY <2>1, HeapAssumption DEF TypeOK, Tiling
<1>1. TypeOK'
  BY <1>0 DEF TypeOK, Blocks
<1>2. Tiling'
  BY DEF Tiling, BlockInRegion, NextLink, PrevLink, End, Blocks
<1>3. Coalesced'
  BY DEF Coalesced, Blocks
<1>4. (HeldInBlock /\ OneHolder /\ UsedIsHeld)'
  BY DEF HeldInBlock, OneHolder, UsedIsHeld, End, Blocks
<1>5. Searched'
  <2>1. \A b \in Blocks' : ~(b < HeapStart)
    BY <1>0 DEF Blocks, Address
  <2> QED BY <2>1 DEF Searched, TooSmallBelow
<1>6. Freeing'
  BY DEF Freeing
<1> QED BY <1>1, <1>2, <1>3, <1>4, <1>5, <1>6

LEMMA SearchNextInv == ASSUME HeapInv, SearchNext PROVE HeapInv'
<1> USE DEF HeapInv, BlockFact, SearchNext
<1>b. BlocksOK /\ \A a \in Blocks : BlockFact(a)
  BY BlockFacts
<1>0. cur \in Blocks /\ pc = "search" /\ req \in Requests
  BY DEF TypeOK
<1>1. TypeOK'
  <2>1. CASE blk[cur].next = NULL
    BY <2>1, <1>0 DEF TypeOK, Blocks
  <2>2. CASE blk[cur].next # NULL
    BY <2>2, <1>0, <1>b DEF TypeOK, Blocks
  <2> QED BY <2>1, <2>2
<1>2. Tiling'
  BY DEF Tiling, BlockInRegion, NextLink, PrevLink, End, Blocks
<1>3. Coalesced'
  BY DEF Coalesced, Blocks
<1>4. (HeldInBlock /\ OneHolder /\ UsedIsHeld)'
  BY DEF HeldInBlock, OneHolder, UsedIsHeld, End, Blocks
<1>5. Searched'
  <2> SUFFICES ASSUME blk[cur].next # NULL, NEW b \in Blocks, b < blk[cur].next, blk[b].free
               PROVE  blk[b].size < Want
    BY DEF Searched, TooSmallBelow, Blocks, Want
  <2>1. ~(cur < b)
    <3>1. cur < b => End(cur) <= b
      BY <1>0 DEF Tiling
    <3> QED BY <3>1, <1>0, <1>b
  <2>2. Want \in Nat
    BY <1>0, WantRounded
  <2>3. CASE b < cur
    BY <1>0, <2>3 DEF Searched, TooSmallBelow
  <2>4. CASE b = cur
    BY <2>4, <2>2, <1>0, <1>b DEF Fits
  <2> QED BY <2>1, <2>3, <2>4, <1>0, <1>b
<1>6. Freeing'
  BY DEF Freeing
<1> QED BY <1>1, <1>2, <1>3, <1>4, <1>5, <1>6

LEMMA SearchTakeInv ==
    ASSUME HeapInv, SearchTake
    PROVE  HeapInv' /\ Placement(req, Payload(cur)) \notin DOMAIN held
<1> USE DEF HeapInv, BlockFact
<1>b. BlocksOK /\ \A a \in Blocks : BlockFact(a)
  BY BlockFacts
<1>0. /\ cur \in Blocks /\ req \in Requests /\ Fits(cur) /\ blk[cur].free = TRUE /\ BlocksOK
      /\ pc = "search" /\ pc' = "idle" /\ cur' = NULL /\ req' = NULL
      /\ blk' = TakeBlock(cur, FALSE)
      /\ ~Misplaced(req, Payload(cur))
  <2>1. cur \in Blocks /\ req \in Requests
    BY DEF SearchTake, TypeOK
  <2> QED BY <2>1, <1>b DEF SearchTake, Fits
<1>1. /\ BlocksOK'
      /\ Blocks \subseteq Blocks'
      /\ blk'[cur].free = FALSE /\ Want <= blk'[cur].size
      /\ \A a \in Blocks \ {cur} : /\ blk'[a].free = blk[a].free
                                   /\ blk'[a].next = blk[a].next
                                   /\ blk'[a].size = blk[a].size
      /\ \/ Blocks' = Blocks /\ blk'[cur].next = blk[cur].next
         \/ \E new : /\ new \notin Blocks /\ Blocks' = Blocks \cup {new}
                     /\ blk'[cur].next = new
                     /\ blk'[new].free = TRUE /\ blk'[new].next = blk[cur].next
  BY <1>0, TakeKeepsTiling, FALSE \in BOOLEAN
<1>2. PICK b \in Blocks : b = cur
  BY <1>0
<1>3. PICK r \in Requests : r = req
  BY <1>0
<1>4. b + BlockSize \in Nat
  BY <1>b DEF BlockSize
<1>5. PICK p \in Nat : p = Placement(r, b + BlockSize)
  BY <1>0, <1>2, <1>3, <1>4, PlacementBounds DEF Payload
<1>6. /\ b + BlockSize <= (IF r.kind = "malloc" THEN p ELSE p - AlignHeaderSize)
      /\ p + r.size <= b + BlockSize + Total(r)
      /\ r.size \in Nat
  BY <1>0, <1>2, <1>3, <1>4, <1>5, PlacementBounds, RequestAssumption DEF Payload
<1>7. /\ DOMAIN held' = DOMAIN held \cup {p}
      /\ held'[p] = [raw |-> b + BlockSize, req |-> r]
      /\ \A q \in DOMAIN held : (q # p => held'[q] = held[q])
      /\ held' = [q \in DOMAIN held' |-> held'[q]]
  BY <1>2, <1>3, <1>5 DEF SearchTake, Payload
<1>8. Want \in Nat /\ Total(req) \in Nat /\ Total(req) <= Want
  BY <1>0, WantRounded
<1>9. /\ BlocksTyped' /\ Tiling'
      /\ \A a \in Blocks' : blk'[a].size \in Nat /\ a \in Address /\ a \in Nat
      /\ \A a \in Blocks' : End(a)' = a + BlockSize + blk'[a].size /\ End(a)' <= HeapEnd
  <2>1. BlocksTyped' /\ Tiling'
    BY <1>1 DEF BlocksOK
  <2>2. \A a \in Blocks' : blk'[a].size \in Nat /\ a \in Address /\ a \in Nat
    BY <2>1, HeapAssumption DEF BlocksTyped, BlockHeader, Address
  <2>3. \A a \in Blocks' : End(a)' = a + BlockSize + blk'[a].size /\ End(a)' <= HeapEnd
    BY <2>1 DEF Tiling, BlockInRegion, End
  <2> QED BY <2>1, <2>2, <2>3
<1>10. b \in Blocks' /\ p + r.size <= End(b)'
  BY <1>1, <1>2, <1>3, <1>4, <1>6, <1>8, <1>9 DEF BlockSize
<1>11. p \in Address
  BY <1>4, <1>6, <1>9, <1>10, <1>b, HeapAssumption DEF Address, BlockSize, AlignHeaderSize, HeapEnd
<1>12. TypeOK'
  <2>1. b + BlockSize \in Address
    BY <1>4, <1>9, <1>10, HeapAssumption DEF Address, BlockSize, HeapEnd
  <2>2. held' \in [DOMAIN held' -> [raw : Address, req : Requests]] /\ DOMAIN held' \subseteq Address
    BY <1>7, <1>11, <2>1 DEF TypeOK
  <2> QED BY <2>2, <1>0, <1>9 DEF TypeOK, BlocksTyped
<1>13. Coalesced'
  <2> SUFFICES ASSUME NEW a \in Blocks', blk'[a].free, blk'[a].next # NULL, blk'[blk'[a].next].free
               PROVE  FALSE
    BY DEF Coalesced
  <2>1. a # cur
    BY <1>1
  <2>2. ~(blk[cur].next # NULL /\ blk[blk[cur].next].free)
    BY <1>0 DEF Coalesced
  <2>3. CASE a \in Blocks
    <3>1. blk[a].free /\ blk[a].next # NULL /\ blk'[blk[a].next].free /\ blk[a].next \in Blocks
      BY <2>1, <2>3, <1>1, <1>b
    <3>2. blk[a].next # cur
      BY <3>1, <1>1
    <3> QED BY <3>1, <3>2, <2>3, <1>0, <1>1 DEF Coalesced
  <2>4. CASE a \notin Blocks
    <3>1. blk'[a].next = blk[cur].next
      BY <2>4, <1>1
    <3>2. blk[cur].next \in Blocks /\ blk[cur].next # cur
      BY <3>1, <1>0, <1>b DEF BlockSize
    <3> QED BY <3>1, <3>2, <2>2, <1>1
  <2> QED BY <2>3, <2>4
<1>14. ASSUME NEW q \in DOMAIN held
       PROVE  \E c \in Blocks \ {b} :
                 /\ held[q].raw = Payload(c)
                 /\ ~blk[c].free
                 /\ Payload(c) <= (IF held[q].req.kind = "malloc" THEN q ELSE q - AlignHeaderSize)
                 /\ q + held[q].req.size <= End(c)
                 /\ q \in Nat /\ Payload(c) <= q /\ q <= End(c)
  <2>1. PICK c \in Blocks :
                 /\ held[q].raw = Payload(c)
                 /\ ~blk[c].free
                 /\ Payload(c) <= (IF held[q].req.kind = "malloc" THEN q ELSE q - AlignHeaderSize)
                 /\ q + held[q].req.size <= End(c)
    BY DEF HeldInBlock
  <2>2. held[q].req.size \in Nat /\ q \in Nat
    BY RequestAssumption, HeapAssumption DEF TypeOK, Address
  <2>3. Payload(c) <= q /\ q <= End(c)
    BY <2>1, <2>2, <1>b DEF Payload, BlockSize, AlignHeaderSize
  <2> QED BY <2>1, <2>2, <2>3, <1>0, <1>2
<1>15. p \notin DOMAIN held
  <2> SUFFICES ASSUME NEW q \in DOMAIN held, q = p PROVE FALSE
    OBVIOUS
  <2>1. PICK c \in Blocks \ {b} : Payload(c) <= q /\ q <= End(c)
    BY <1>14
  <2>2. b + BlockSize <= p
    BY <1>4, <1>6 DEF AlignHeaderSize
  <2>3. End(c) <= b \/ End(b)' <= c
    <3>1. c # b /\ c \in Blocks' /\ End(c)' = End(c)
      BY <2>1, <1>1, <1>2 DEF End
    <3> QED BY <3>1, <1>9, <1>10, <1>b DEF Tiling
  <2>4. p <= End(b)' /\ End(b)' \in Nat
    BY <1>6, <1>9, <1>10, <1>4 DEF BlockSize
  <2> QED BY <2>1, <2>2, <2>3, <2>4, <1>b DEF BlockSize, Payload
<1>16. HeldInBlock'
  <2> SUFFICES ASSUME NEW q \in DOMAIN held'
        PROVE  \E c \in Blocks' :
                  /\ held'[q].raw = Payload(c)
                  /\ ~blk'[c].free
                  /\ Payload(c) <= (IF held'[q].req.kind = "malloc" THEN q ELSE q - AlignHeaderSize)
                  /\ q + held'[q].req.size <= End(c)'
    BY DEF HeldInBlock, Payload
  <2>1. CASE q = p
    <3>1. held'[q].raw = Payload(b) /\ held'[q].req = r
      BY <2>1, <1>7 DEF Payload
    <3>2. ~blk'[b].free
      BY <1>1, <1>2
    <3> QED BY <2>1, <3>1, <3>2, <1>6, <1>10 DEF Payload
  <2>2. CASE q # p
    <3>1. q \in DOMAIN held /\ held'[q] = held[q]
      BY <2>2, <1>7
    <3>2. PICK c \in Blocks \ {b} :
                 /\ held[q].raw = Payload(c)
                 /\ ~blk[c].free
                 /\ Payload(c) <= (IF held[q].req.kind = "malloc" THEN q ELSE q - AlignHeaderSize)
                 /\ q + held[q].req.size <= End(c)
      BY <3>1, <1>14
    <3>3. c \in Blocks' /\ blk'[c].free = blk[c].free /\ End(c)' = End(c)
      BY <3>2, <1>1, <1>2 DEF End
    <3> QED BY <3>1, <3>2, <3>3
  <2> QED BY <2>1, <2>2
<1>17. OneHolder'
  <2>1. \A q \in DOMAIN held : held[q].raw # b + BlockSize
    BY <1>14, <1>b DEF BlockSize, Payload
  <2> QED BY <2>1, <1>7, <1>15 DEF OneHolder
<1>18. UsedIsHeld'
  <2> SUFFICES ASSUME NEW c \in Blocks', ~blk'[c].free
               PROVE  \E q \in DOMAIN held' : held'[q].raw = Payload(c)
    BY DEF UsedIsHeld, Payload
  <2>1. CASE c = b
    BY <2>1, <1>7 DEF Payload
  <2>2. CASE c # b
    <3>1. c \in Blocks /\ ~blk[c].free
      BY <2>2, <1>1, <1>2
    <3>2. PICK q \in DOMAIN held : held[q].raw = Payload(c)
      BY <3>1 DEF UsedIsHeld
    <3> QED BY <3>2, <1>7, <1>15
  <2> QED BY <2>1, <2>2
<1>19. Searched' /\ Freeing'
  BY <1>0 DEF Searched, Freeing
<1>20. Placement(req, Payload(cur)) \notin DOMAIN held
  BY <1>2, <1>3, <1>5, <1>15 DEF Payload
<1> QED BY <1>9, <1>12, <1>13, <1>16, <1>17, <1>18, <1>19, <1>20

(* A step that keeps every used block where it is, and uses no other one,  *)
(* keeps what is known of the callers' pointers.                           *)
LEMMA HeldKept ==
    ASSUME HeldInBlock, OneHolder, UsedIsHeld, held' = held,
           \A c \in Blocks : ~blk[c].free => c \in Blocks' /\ ~blk'[c].free /\ End(c)' = End(c),
           \A c \in Blocks' : ~blk'[c].free => c \in Blocks /\ ~blk[c].free
    PROVE  HeldInBlock' /\ OneHolder' /\ UsedIsHeld'
<1>1. HeldInBlock'
  BY DEF HeldInBlock, Payload
<1>2. OneHolder'
  BY DEF OneHolder
<1>3. UsedIsHeld'
  BY DEF UsedIsHeld, Payload
<1> QED BY <1>1, <1>2, <1>3

LEMMA SearchRejectInv == ASSUME HeapInv, SearchReject PROVE HeapInv'
<1> USE DEF HeapInv, BlockFact
<1>b. BlocksOK /\ \A a \in Blocks : BlockFact(a)
  BY BlockFacts
<1>0. /\ cur \in Blocks /\ req \in Requests /\ Fits(cur) /\ blk[cur].free = TRUE
      /\ pc = "search" /\ pc' = "right" /\ cur' = cur /\ req' = NULL /\ held' = held
      /\ blk' = TakeBlock(cur, TRUE)
  <2>1. cur \in Blocks /\ req \in Requests
    BY DEF SearchReject, TypeOK
  <2> QED BY <2>1, <1>b DEF SearchReject, Fits
<1>1. /\ BlocksOK'
      /\ Blocks \subseteq Blocks'
      /\ blk'[cur].free = TRUE
      /\ \A a \in Blocks \ {cur} : /\ blk'[a].free = blk[a].free
                                   /\ blk'[a].next = blk[a].next
                                   /\ blk'[a].size = blk[a].size
      /\ \/ Blocks' = Blocks /\ blk'[cur].next = blk[cur].next
         \/ \E new : /\ new \notin Blocks /\ Blocks' = Blocks \cup {new}
                     /\ blk'[cur].next = new
                     /\ blk'[new].free = TRUE /\ blk'[new].next = blk[cur].next
  BY <1>b, <1>0, TakeKeepsTiling, TRUE \in BOOLEAN
<1>2. BlocksTyped' /\ Tiling'
  BY <1>1 DEF BlocksOK
<1>3. TypeOK'
  BY <1>0, <1>1, <1>2, HeapAssumption DEF TypeOK, BlocksTyped, Address
<1>4. Coalesced'
  <2> SUFFICES ASSUME NEW a \in Blocks', blk'[a].free, blk'[a].next # NULL, blk'[blk'[a].next].free,
                      a # cur, blk'[a].next # cur
               PROVE  FALSE
    BY <1>0 DEF Coalesced
  <2>1. ~(blk[cur].next # NULL /\ blk[blk[cur].next].free)
    BY <1>0 DEF Coalesced
  <2>2. CASE a \in Blocks
    <3>1. blk[a].free /\ blk[a].next # NULL /\ blk[a].next \in Blocks \ {cur} /\ blk[blk[a].next].free
      BY <2>2, <1>1, <1>b
    <3> QED BY <3>1, <2>2, <1>0 DEF Coalesced
  <2>3. CASE a \notin Blocks
    <3>1. blk'[a].next = blk[cur].next
      BY <2>3, <1>1
    <3>2. blk[cur].next \in Blocks \ {cur}
      BY <3>1, <1>0, <1>b
    <3> QED BY <3>1, <3>2, <2>1, <1>1
  <2> QED BY <2>2, <2>3
<1>5. HeldInBlock' /\ OneHolder' /\ UsedIsHeld'
  <2>1. \A c \in Blocks : ~blk[c].free => c \in Blocks' /\ ~blk'[c].free /\ End(c)' = End(c)
    BY <1>0, <1>1 DEF End
  <2>2. \A c \in Blocks' : ~blk'[c].free => c \in Blocks /\ ~blk[c].free
    BY <1>0, <1>1
  <2> QED BY <2>1, <2>2, <1>0, HeldKept
<1>6. Searched' /\ Freeing'
  BY <1>0, <1>1 DEF Searched, Freeing
<1> QED BY <1>2, <1>3, <1>4, <1>5, <1>6

LEMMA FreeBeginInv ==
    ASSUME HeapInv, NEW p \in DOMAIN held, FreeBegin(p) PROVE HeapInv'
<1> USE DEF HeapInv, BlockFact
<1>b. BlocksOK /\ BlocksTyped /\ \A a \in Blocks : BlockFact(a)
  BY BlockFacts DEF BlocksOK
<1>1. PICK b \in Blocks : held[p].raw = Payload(b) /\ ~blk[b].free
  BY DEF HeldInBlock
<1>2. /\ pc = "idle" /\ pc' = "right" /\ req' = req /\ cur' = b
      /\ blk' = [blk EXCEPT ![b] = WithFree(b, TRUE)]
      /\ held' = [q \in DOMAIN held \ {p} |-> held[q]]
  <2>1. held[p].raw - BlockSize = b
    BY <1>1, <1>b DEF Payload, BlockSize
  <2> QED BY <2>1 DEF FreeBegin
<1>3. /\ Blocks' = Blocks
      /\ \A a \in Blocks \ {b} : blk'[a] = blk[a]
      /\ blk'[b] = Header(blk[b].size, TRUE, blk[b].next, blk[b].prev)
  BY <1>2 DEF WithFree, Blocks
<1>4. /\ blk'[b].size = blk[b].size /\ blk'[b].free = TRUE /\ blk'[b].next = blk[b].next
      /\ blk'[b].prev = blk[b].prev /\ blk'[b] \in BlockHeader
  <2>1. blk[b].size \in Nat /\ blk[b].next \in Link /\ blk[b].prev \in Link
    BY <1>b DEF BlocksTyped, BlockHeader
  <2> QED BY <2>1, <1>3 DEF Header, BlockHeader
<1>5. \A a \in Blocks : /\ blk'[a].size = blk[a].size /\ blk'[a].next = blk[a].next
                      /\ blk'[a].prev = blk[a].prev /\ End(a)' = End(a)
  BY <1>3, <1>4 DEF End
<1>6. TypeOK'
  <2>1. blk' \in [Blocks' -> BlockHeader] /\ Blocks' \subseteq Address
    BY <1>2, <1>3, <1>4, <1>b DEF BlocksTyped
  <2>2. held' \in [DOMAIN held' -> [raw : Address, req : Requests]] /\ DOMAIN held' \subseteq Address
    BY <1>2 DEF TypeOK
  <2>3. b # NULL
    BY <1>b, HeapAssumption
  <2> QED BY <1>2, <1>3, <2>1, <2>2, <2>3 DEF TypeOK
<1>7. Tiling'
  BY <1>3, <1>5 DEF Tiling, BlockInRegion, NextLink, PrevLink
<1>8. Coalesced'
  <2> SUFFICES ASSUME NEW a \in Blocks', blk'[a].free, blk'[a].next # NULL, blk'[blk'[a].next].free,
                      a # b, blk'[a].next # b
               PROVE  FALSE
    BY <1>2 DEF Coalesced
  <2>1. blk[a].free /\ blk[a].next # NULL /\ blk[blk[a].next].free
    BY <1>3, <1>5, <1>b
  <2> QED BY <2>1, <1>2, <1>3 DEF Coalesced
<1>9. HeldInBlock'
  <2> SUFFICES ASSUME NEW q \in DOMAIN held \ {p}
        PROVE  \E c \in Blocks :
                  /\ held[q].raw = Payload(c)
                  /\ ~blk'[c].free
                  /\ Payload(c) <= (IF held[q].req.kind = "malloc" THEN q ELSE q - AlignHeaderSize)
                  /\ q + held[q].req.size <= End(c)
    BY ZenonT(60), <1>2, <1>3, <1>5 DEF HeldInBlock, Payload
  <2>1. PICK c \in Blocks :
                 /\ held[q].raw = Payload(c)
                 /\ ~blk[c].free
                 /\ Payload(c) <= (IF held[q].req.kind = "malloc" THEN q ELSE q - AlignHeaderSize)
                 /\ q + held[q].req.size <= End(c)
    BY DEF HeldInBlock
  <2>2. c # b
    BY <2>1, <1>1 DEF OneHolder
  <2> QED BY <2>1, <2>2, <1>3
<1>10. OneHolder'
  BY <1>2 DEF OneHolder
<1>11. UsedIsHeld'
  <2> SUFFICES ASSUME NEW c \in Blocks, ~blk'[c].free
               PROVE  \E q \in DOMAIN held \ {p} : held[q].raw = Payload(c)
    BY <1>2, <1>3 DEF UsedIsHeld, Payload
  <2>1. c # b /\ ~blk[c].free
    BY <1>3, <1>4
  <2>2. PICK q \in DOMAIN held : held[q].raw = Payload(c)
    BY <2>1 DEF UsedIsHeld
  <2>3. Payload(c) # Payload(b)
    BY <2>1, <1>b DEF Payload, BlockSize
  <2> QED BY <2>2, <2>3, <1>1
<1>12. Searched' /\ Freeing'
  BY <1>2, <1>4 DEF Searched, Freeing
<1> QED BY <1>6, <1>7, <1>8, <1>9, <1>10, <1>11, <1>12

(* A merging step of free: block b swallows its right neighbour n, both    *)
(* free; and what both merging loops get from it.                          *)
MergeStep(b, n) ==
    /\ b \in Blocks /\ n \in Blocks /\ n = blk[b].next
    /\ blk[b].free = TRUE /\ blk[n].free = TRUE
    /\ blk' = Merged(b, n) /\ held' = held

MergeResult(b, n) ==
    /\ BlocksTyped' /\ Tiling'
    /\ Blocks' = Blocks \ {n} /\ b # n
    /\ blk'[b].free = TRUE /\ blk'[b].next = blk[n].next
    /\ \A a \in Blocks \ {b, n} : /\ blk'[a].free = blk[a].free
                                  /\ blk'[a].next = blk[a].next
                                  /\ blk[a].next # n
    /\ blk[n].next # n
    /\ HeldInBlock' /\ OneHolder' /\ UsedIsHeld'

LEMMA MergeFacts ==
    ASSUME HeapInv, NEW b, NEW n, MergeStep(b, n)
    PROVE  MergeResult(b, n)
<1> USE DEF HeapInv
<1>m. /\ b \in Blocks /\ n \in Blocks /\ n = blk[b].next
      /\ blk[b].free = TRUE /\ blk[n].free = TRUE
      /\ blk' = Merged(b, n) /\ held' = held
  BY DEF MergeStep
<1>b. BlocksOK /\ \A a \in Blocks : BlockFact(a)
  BY BlockFacts
<1>n. n # NULL
  BY <1>m, <1>b, HeapAssumption DEF BlockFact
<1>1. /\ BlocksOK'
      /\ n > b /\ blk[n].prev = b /\ End(b) = n
      /\ Blocks' = Blocks \ {n}
      /\ blk'[b].free = blk[b].free
      /\ blk'[b].next = blk[n].next
      /\ \A a \in Blocks \ {b, n} : /\ blk'[a].free = blk[a].free
                                    /\ blk'[a].next = blk[a].next
                                    /\ blk'[a].size = blk[a].size
  <2>2. /\ BlocksOK'
        /\ n > b /\ blk[n].prev = b /\ End(b) = n
        /\ Blocks' = Blocks \ {n}
        /\ blk'[b].free = blk[b].free
        /\ blk'[b].next = blk[n].next
    BY ONLY <1>b, <1>n, <1>m, MergeKeepsTiling
  <2>3. \A a \in Blocks \ {b, n} : /\ blk'[a].free = blk[a].free
                                  /\ blk'[a].next = blk[a].next
                                  /\ blk'[a].size = blk[a].size
    BY ONLY <1>b, <1>n, <1>m, MergeKeepsTiling
  <2> QED BY <2>2, <2>3
<1>2. \A a \in Blocks : (a # b => blk[a].next # n)
  BY <1>m, <1>b, <1>1, <1>n DEF BlockFact
<1>3. b # n /\ blk[n].next # n /\ blk[b].free = TRUE
  BY <1>m, <1>b, <1>1, <1>n DEF BlockFact
<1>4. HeldInBlock' /\ OneHolder' /\ UsedIsHeld'
  <2>1. \A c \in Blocks : ~blk[c].free => c \in Blocks' /\ ~blk'[c].free /\ End(c)' = End(c)
    BY <1>m, <1>1 DEF End
  <2>2. \A c \in Blocks' : ~blk'[c].free => c \in Blocks /\ ~blk[c].free
    BY <1>m, <1>1
  <2> QED BY <1>m, <2>1, <2>2, HeldKept
<1> QED BY <1>m, <1>1, <1>2, <1>3, <1>4 DEF BlocksOK, MergeResult

LEMMA MergeRightInv == ASSUME HeapInv, MergeRight PROVE HeapInv'
<1> USE DEF HeapInv
<1>b. \A a \in Blocks : BlockFact(a)
  BY BlockFacts
<1>0. cur \in Blocks /\ blk[cur].free = TRUE /\ pc = "right" /\ pc' = pc /\ cur' = cur /\ req' = req /\ held' = held
  BY <1>b DEF MergeRight, TypeOK, Freeing, BlockFact
<1>1. PICK n \in Blocks : n = blk[cur].next /\ blk[n].free = TRUE /\ blk' = Merged(cur, n)
  BY <1>0, <1>b DEF MergeRight, RightFree, BlockFact
<1>2. /\ BlocksTyped' /\ Tiling'
      /\ Blocks' = Blocks \ {n} /\ cur # n
      /\ blk'[cur].free = TRUE /\ blk'[cur].next = blk[n].next
      /\ \A a \in Blocks \ {cur, n} : /\ blk'[a].free = blk[a].free
                                      /\ blk'[a].next = blk[a].next
                                      /\ blk[a].next # n
      /\ HeldInBlock' /\ OneHolder' /\ UsedIsHeld'
  <2>1. MergeStep(cur, n)
    BY <1>0, <1>1 DEF MergeStep
  <2>2. MergeResult(cur, n)
    BY <2>1, MergeFacts
  <2> QED BY <2>2, <1>1 DEF MergeResult
<1>3. TypeOK'
  BY <1>0, <1>2 DEF TypeOK, BlocksTyped
<1>4. Coalesced'
  <2> SUFFICES ASSUME NEW a \in Blocks', blk'[a].free, blk'[a].next # NULL, blk'[blk'[a].next].free,
                      a # cur, blk'[a].next # cur
               PROVE  FALSE
    BY <1>0 DEF Coalesced
  <2>1. /\ a \in Blocks /\ blk[a].free /\ blk[a].next # NULL /\ blk[a].next \in Blocks \ {cur, n}
        /\ blk[blk[a].next].free
    BY <1>2, <1>b DEF BlockFact
  <2> QED BY <2>1, <1>0 DEF Coalesced
<1>5. Searched' /\ Freeing'
  BY <1>0, <1>2 DEF Searched, Freeing
<1> QED BY <1>2, <1>3, <1>4, <1>5

LEMMA MergeLeftInv == ASSUME HeapInv, MergeLeft PROVE HeapInv'
<1> USE DEF HeapInv
<1>b. \A a \in Blocks : BlockFact(a)
  BY BlockFacts
<1>0. cur \in Blocks /\ blk[cur].free = TRUE /\ pc = "left" /\ pc' = pc /\ req' = req /\ held' = held
  BY <1>b DEF MergeLeft, TypeOK, Freeing, BlockFact
<1>1. PICK b \in Blocks : /\ b = blk[cur].prev /\ blk[b].next = cur /\ blk[b].free = TRUE
                         /\ blk' = Merged(b, cur) /\ cur' = b
  BY <1>0, <1>b DEF MergeLeft, LeftFree, BlockFact
<1>2. /\ BlocksTyped' /\ Tiling'
      /\ Blocks' = Blocks \ {cur} /\ b # cur
      /\ blk'[b].free = TRUE /\ blk'[b].next = blk[cur].next
      /\ \A a \in Blocks \ {b, cur} : /\ blk'[a].free = blk[a].free
                                      /\ blk'[a].next = blk[a].next
                                      /\ blk[a].next # cur
      /\ blk[cur].next # cur
      /\ HeldInBlock' /\ OneHolder' /\ UsedIsHeld'
  <2>1. MergeStep(b, cur)
    BY <1>0, <1>1 DEF MergeStep
  <2>2. MergeResult(b, cur)
    BY <2>1, MergeFacts
  <2> QED BY <2>2, <1>1 DEF MergeResult
<1>3. TypeOK'
  <2>1. b # NULL
    BY <1>b, HeapAssumption DEF BlockFact
  <2> QED BY <2>1, <1>0, <1>1, <1>2 DEF TypeOK, BlocksTyped
<1>4. Coalesced'
  <2> SUFFICES ASSUME NEW a \in Blocks', blk'[a].free, blk'[a].next # NULL, blk'[blk'[a].next].free,
                      blk'[a].next # b
               PROVE  FALSE
    BY <1>0, <1>1 DEF Coalesced
  <2>1. CASE a = b
    <3>1. blk[cur].next # NULL /\ blk[cur].next \in Blocks \ {b, cur} /\ blk[blk[cur].next].free
      BY <2>1, <1>0, <1>2, <1>b DEF BlockFact
    <3> QED BY <3>1, <1>0 DEF Coalesced
  <2>2. CASE a # b
    <3>1. /\ a \in Blocks /\ blk[a].free /\ blk[a].next # NULL /\ blk[a].next \in Blocks \ {b, cur}
          /\ blk[blk[a].next].free
      BY <2>2, <1>2, <1>b DEF BlockFact
    <3> QED BY <3>1, <1>0 DEF Coalesced
  <2> QED BY <2>1, <2>2
<1>5. Searched' /\ Freeing'
  BY <1>0, <1>1, <1>2 DEF Searched, Freeing
<1> QED BY <1>2, <1>3, <1>4, <1>5

(* The ends of the two loops change no block.                              *)
LEMMA LoopEndInv == ASSUME HeapInv, RightDone \/ LeftDone PROVE HeapInv'
<1> USE DEF HeapInv, RightDone, LeftDone
<1>b. \A a \in Blocks : BlockFact(a)
  BY BlockFacts
<1>0. blk' = blk /\ held' = held /\ req' = req /\ Blocks' = Blocks /\ cur \in Blocks /\ blk[cur].free
  BY DEF Blocks, TypeOK, Freeing
<1>1. TypeOK'
  BY <1>0 DEF TypeOK
<1>2. Tiling'
  BY <1>0 DEF Tiling, BlockInRegion, NextLink, PrevLink, End
<1>3. Coalesced'
  <2> SUFFICES ASSUME NEW a \in Blocks, blk[a].free, blk[a].next # NULL, blk[blk[a].next].free
               PROVE  pc' = "left" /\ cur' = blk[a].next
    BY <1>0 DEF Coalesced
  <2>1. blk[a].next \in Blocks /\ blk[blk[a].next].prev = a /\ a # NULL
    BY <1>b, HeapAssumption DEF BlockFact
  <2>2. CASE RightDone
    BY <2>1, <2>2 DEF Coalesced, RightFree
  <2>3. CASE LeftDone
    BY <2>1, <2>3 DEF Coalesced, LeftFree
  <2> QED BY <2>2, <2>3
<1>4. (HeldInBlock /\ OneHolder /\ UsedIsHeld)'
  BY <1>0 DEF HeldInBlock, OneHolder, UsedIsHeld, End
<1>5. Searched' /\ Freeing'
  BY <1>0 DEF Searched, Freeing
<1> QED BY <1>1, <1>2, <1>3, <1>4, <1>5

-----------------------------------------------------------------------------
(* Every step of the heap keeps its invariants.                            *)
LEMMA StepInv == HeapInv /\ [Next]_vars => HeapInv'
<1> SUFFICES ASSUME HeapInv, [Next]_vars PROVE HeapInv'
  OBVIOUS
<1>1. CASE \E r \in Requests : MallocBegin(r)
  BY <1>1, MallocBeginInv
<1>2. CASE \E p \in DOMAIN held : FreeBegin(p)
  BY <1>2, FreeBeginInv
<1>3. CASE SearchNext
  BY <1>3, SearchNextInv
<1>4. CASE SearchTake
  BY <1>4, SearchTakeInv
<1>5. CASE SearchReject
  BY <1>5, SearchRejectInv
<1>6. CASE MergeRight
  BY <1>6, MergeRightInv
<1>7. CASE MergeLeft
  BY <1>7, MergeLeftInv
<1>8. CASE RightDone \/ LeftDone
  BY <1>8, LoopEndInv
<1>9. CASE UNCHANGED vars
  BY <1>9 DEF vars, HeapInv, TypeOK, Tiling, Coalesced, HeldInBlock, OneHolder, UsedIsHeld,
              Searched, Freeing, TooSmallBelow, Want, BlockInRegion, NextLink, PrevLink, End, Blocks
<1> QED BY <1>1, <1>2, <1>3, <1>4, <1>5, <1>6, <1>7, <1>8, <1>9 DEF Next, Step

(* The heap's invariants hold in every reachable state, for every region   *)
(* and every set of requests the assumptions of Heap allow.                *)
THEOREM HeapInvariant == Spec => []HeapInv
BY InitInv, StepInv, PTL DEF Spec

(* The block list of heap.cpp always tiles the region in address order.    *)
THEOREM TilingInvariant == Spec => []Tiling
BY HeapInvariant, PTL DEF HeapInv

(* No two free blocks stay neighbours once a free call has returned.       *)
THEOREM CoalescedInvariant == Spec => []Coalesced
BY HeapInvariant, PTL DEF HeapInv

(* A caller's bytes always lie in one used block, which no other holds.    *)
THEOREM HeldInvariant == Spec => [](HeldInBlock /\ OneHolder /\ UsedIsHeld)
BY HeapInvariant, PTL DEF HeapInv

(* Once everything is freed the region is one free block again: malloc and *)
(* free neither leak nor fragment.                                         *)
THEOREM RecoveredInvariant == Spec => []Recovered
<1>1. HeapInv => Recovered
  <2> SUFFICES ASSUME HeapInv, pc = "idle", DOMAIN held = {}
               PROVE  /\ Blocks = {HeapStart}
                      /\ blk[HeapStart].free
                      /\ blk[HeapStart].size = HeapSize - BlockSize
    BY DEF Recovered
  <2>1. /\ \A a \in Blocks : BlockFact(a)
        /\ HeapStart \in Blocks
        /\ \A a \in Blocks : blk[a].free
    BY BlockFacts DEF HeapInv, Tiling, UsedIsHeld
  <2>2. blk[HeapStart].next = NULL
    BY <2>1 DEF HeapInv, Coalesced, BlockFact
  <2>3. End(HeapStart) = HeapEnd
    <3>1. HeapEnd # NULL
      BY HeapAssumption DEF HeapEnd
    <3> QED BY <2>1, <2>2, HeapAssumption DEF HeapInv, Tiling, NextLink, BlockFact
  <2>4. ASSUME NEW a \in Blocks, a # HeapStart PROVE FALSE
    <3>1. HeapStart < a
      BY <2>1, <2>4, HeapAssumption DEF BlockFact, Address
    <3>2. HeapEnd <= a
      BY <3>1, <2>1, <2>3 DEF HeapInv, Tiling
    <3> QED BY <3>2, <2>1, HeapAssumption DEF BlockFact, BlockSize, HeapEnd
  <2>5. blk[HeapStart].size = HeapSize - BlockSize
    BY <2>1, <2>3, HeapAssumption DEF End, HeapEnd, BlockFact, BlockSize
  <2> QED BY <2>1, <2>4, <2>5
<1> QED BY <1>1, HeapInvariant, PTL

(* malloc takes the lowest block that is big enough, and fails only when   *)
(* no free block is.                                                       *)
THEOREM FirstFitTheorem == Spec => FirstFit
<1> DEFINE FF == /\ (pc = "search" /\ pc' = "idle" /\ held' = held => TooSmallBelow(HeapEnd))
                 /\ (pc = "search" /\ pc' # "search" /\ blk' # blk => TooSmallBelow(cur))
<1>1. HeapInv /\ [Next]_vars => [FF]_vars
  <2> SUFFICES ASSUME HeapInv, [Next]_vars PROVE [FF]_vars
    OBVIOUS
  <2>1. CASE SearchNext
    <3> SUFFICES ASSUME blk[cur].next = NULL, pc = "search", NEW b \in Blocks, blk[b].free
                 PROVE  blk[b].size < Want
      BY <2>1 DEF SearchNext, TooSmallBelow
    <3>1. cur \in Blocks /\ req \in Requests /\ Want \in Nat /\ \A a \in Blocks : BlockFact(a)
      BY BlockFacts, WantRounded DEF HeapInv, TypeOK
    <3>2. End(cur) = HeapEnd
      BY <3>1, HeapAssumption DEF HeapInv, Tiling, NextLink, BlockFact
    <3>3. CASE b < cur
      BY <3>3 DEF HeapInv, Searched, TooSmallBelow
    <3>4. CASE b = cur
      BY <2>1, <3>1, <3>4 DEF SearchNext, Fits, BlockFact
    <3>5. CASE cur < b
      <4>1. HeapEnd <= b
        BY <3>1, <3>2, <3>5 DEF HeapInv, Tiling
      <4> QED BY <4>1, <3>1, HeapAssumption DEF BlockFact, BlockSize, HeapEnd
    <3> QED BY <3>1, <3>3, <3>4, <3>5 DEF BlockFact
  <2>2. CASE SearchTake
    <3>1. held' # held
      BY <2>2, SearchTakeInv DEF SearchTake
    <3> QED BY <2>2, <3>1 DEF HeapInv, Searched, SearchTake
  <2>3. CASE SearchReject
    BY <2>3 DEF HeapInv, Searched, SearchReject
  <2>4. CASE pc # "search" \/ UNCHANGED vars
    BY <2>4 DEF vars
  <2> QED BY <2>1, <2>2, <2>3, <2>4
          DEF Next, Step, MallocBegin, FreeBegin, MergeRight, MergeLeft, RightDone, LeftDone
<1> QED BY <1>1, HeapInvariant, PTL DEF Spec, FirstFit

(* The heap implements the abstract allocator: a pointer is new, and its   *)
(* bytes lie in the region and apart from every other caller's.            *)
THEOREM HeapImplementsAllocator == Spec => ImplementsAllocator
<1>1. Init => AllocatorView!Init
  BY DEF Init, AllocatorView!Init, live
<1>2. HeapInv /\ [Next]_vars => [AllocatorView!Next]_live
  <2> SUFFICES ASSUME HeapInv, [Next]_vars PROVE [AllocatorView!Next]_live
    OBVIOUS
  <2>1. CASE held' = held
    BY <2>1 DEF live
  <2>2. ASSUME NEW p \in DOMAIN held, FreeBegin(p) PROVE AllocatorView!Next
    <3>1. held' = [q \in DOMAIN held \ {p} |-> held[q]]
      BY <2>2 DEF FreeBegin
    <3>2. live' = [q \in DOMAIN live \ {p} |-> live[q]] /\ p \in DOMAIN live
      BY <3>1 DEF live
    <3> QED BY <3>2 DEF AllocatorView!Next, AllocatorView!Release
  <2>3. CASE SearchTake
    <3>1. HeapInv' /\ Placement(req, Payload(cur)) \notin DOMAIN held
      BY <2>3, SearchTakeInv
    <3>2. PICK p : p = Placement(req, Payload(cur))
      OBVIOUS
    <3>3. /\ p \notin DOMAIN held
          /\ DOMAIN held' = DOMAIN held \cup {p}
          /\ \A q \in DOMAIN held : held'[q] = held[q]
      BY <2>3, <3>1, <3>2 DEF SearchTake
    <3>4. \A q \in DOMAIN held' : /\ held'[q].req.size \in Nat /\ q \in Nat
      BY <3>1, RequestAssumption, HeapAssumption DEF HeapInv, TypeOK, Address
    <3>5. \A q \in DOMAIN held' : \E c \in Blocks' :
             /\ held'[q].raw = c + BlockSize /\ c \in Nat /\ HeapStart <= c /\ End(c)' \in Int
             /\ c + BlockSize <= q /\ q + held'[q].req.size <= End(c)' /\ End(c)' <= HeapEnd
      <4> TAKE q \in DOMAIN held'
      <4>1. PICK c \in Blocks' :
                /\ held'[q].raw = c + BlockSize
                /\ c + BlockSize <= (IF held'[q].req.kind = "malloc" THEN q ELSE q - AlignHeaderSize)
                /\ q + held'[q].req.size <= End(c)'
        BY <3>1 DEF HeapInv, HeldInBlock, Payload
      <4>2. c \in Nat /\ HeapStart <= c /\ End(c)' <= HeapEnd
        BY <3>1, HeapAssumption DEF HeapInv, TypeOK, Tiling, BlockInRegion, Address
      <4>3. blk'[c].size \in Nat
        BY <3>1 DEF HeapInv, TypeOK, BlockHeader
      <4>4. End(c)' \in Int
        BY <4>2, <4>3 DEF End, BlockSize
      <4> QED BY <4>1, <4>2, <4>4, <3>4 DEF AlignHeaderSize, BlockSize
    <3>6. HeapStart <= p /\ p + held'[p].req.size <= HeapEnd /\ held'[p].req.size \in Nat
      BY <3>3, <3>4, <3>5, HeapAssumption DEF BlockSize, HeapEnd
    <3>7. ASSUME NEW q \in DOMAIN held
          PROVE  AllocatorView!Apart(p, held'[p].req.size, q, held[q].req.size)
      <4>1. PICK b \in Blocks' :
                /\ held'[p].raw = b + BlockSize /\ b \in Nat
                /\ b + BlockSize <= p /\ p + held'[p].req.size <= End(b)' /\ End(b)' <= HeapEnd
        BY <3>3, <3>5
      <4>2. PICK c \in Blocks' :
                /\ held'[q].raw = c + BlockSize /\ c \in Nat
                /\ c + BlockSize <= q /\ q + held'[q].req.size <= End(c)' /\ End(c)' <= HeapEnd
        BY <3>3, <3>5
      <4>3. b # c
        BY <3>1, <3>3, <4>1, <4>2 DEF HeapInv, OneHolder
      <4>4. (b < c => End(b)' <= c) /\ (c < b => End(c)' <= b)
        BY <3>1 DEF HeapInv, Tiling
      <4>5. blk'[b].size \in Nat /\ blk'[c].size \in Nat
        BY <3>1 DEF HeapInv, TypeOK, BlockHeader
      <4>6. End(b)' = b + BlockSize + blk'[b].size /\ End(c)' = c + BlockSize + blk'[c].size
        BY DEF End
      <4>7. p \in Nat /\ q \in Nat /\ held'[q].req.size \in Nat /\ held'[q] = held[q]
        BY <3>3, <3>4
      <4> QED BY <3>6, <4>1, <4>2, <4>3, <4>4, <4>5, <4>6, <4>7 DEF AllocatorView!Apart, BlockSize
    <3>8. /\ DOMAIN live = DOMAIN held /\ DOMAIN live' = DOMAIN held'
          /\ \A q \in DOMAIN held : live[q] = held[q].req.size
          /\ live'[p] = held'[p].req.size
          /\ live' = [q \in DOMAIN live \cup {p} |-> IF q = p THEN live'[p] ELSE live[q]]
      BY <3>3 DEF live
    <3>9. AllocatorView!Allocate(p, live'[p])
      BY <3>3, <3>6, <3>7, <3>8 DEF AllocatorView!Allocate
    <3> QED BY <3>3, <3>8, <3>9 DEF AllocatorView!Next
  <2>4. CASE UNCHANGED vars
    BY <2>1, <2>4 DEF vars
  <2> QED BY <2>1, <2>2, <2>3, <2>4 DEF Next, Step, MallocBegin, SearchNext, SearchReject,
          MergeRight, MergeLeft, RightDone, LeftDone
<1> QED BY <1>1, <1>2, HeapInvariant, PTL DEF Spec, ImplementsAllocator, AllocatorView!Spec

-----------------------------------------------------------------------------
(* Alignments.  What malloc_align and malloc_boundry round to are powers   *)
(* of two, of which the smaller divides the larger.  Induction takes the   *)
(* form of a least counterexample.                                         *)

Less == OpToRel(<, Nat)

LEMMA Least ==
    ASSUME NEW S \in SUBSET Nat, NEW x \in S
    PROVE  \E m \in S : \A y \in S : m <= y
<1>1. IsWellFoundedOn(Less, Nat)
  BY NatLessThanWellFounded DEF Less
<1>2. \A y, m \in Nat : <<y, m>> \in Less <=> y < m
  BY DEF OpToRel, Less
<1>3. \E m \in S : \A y \in S : ~(<<y, m>> \in Less)
  BY <1>1, WFMin
<1>4. PICK m \in S : \A y \in S : ~(<<y, m>> \in Less)
  BY <1>3
<1>5. ASSUME NEW y \in S PROVE m <= y
  <2>1. m \in Nat /\ y \in Nat
    OBVIOUS
  <2>2. ~(y < m)
    BY <1>2, <1>4, <2>1
  <2> QED BY <2>1, <2>2
<1> QED BY <1>5

LEMMA MultipleMod ==
    ASSUME NEW m \in Nat \ {0}, NEW q \in Nat
    PROVE  (q * m) % m = 0
<1>1. PICK a \in Nat : a = q * m
  OBVIOUS
<1>2. a = m * q + 0
  BY <1>1
<1>3. a % m = 0
  BY ONLY <1>2, <1>1, m \in Nat \ {0}, q \in Nat
<1> QED BY <1>1, <1>3

LEMMA ModMultiple ==
    ASSUME NEW m \in Nat \ {0}, NEW a \in Nat, a % m = 0
    PROVE  a \div m \in Nat /\ a = (a \div m) * m
  OBVIOUS

LEMMA RoundedIsMultiple ==
    ASSUME NEW x \in Nat, NEW a \in Nat \ {0}
    PROVE  RoundUp(x, a) % a = 0 /\ RoundDown(x, a) % a = 0
<1>1. (x + a - 1) \div a \in Nat /\ x \div a \in Nat
  OBVIOUS
<1> QED BY <1>1, MultipleMod DEF RoundUp, RoundDown

LEMMA DividesTrans ==
    ASSUME NEW a \in Nat \ {0}, NEW b \in Nat \ {0}, NEW c \in Nat, b % a = 0, c % b = 0
    PROVE  c % a = 0
<1>1. PICK p \in Nat : b = p * a
  BY ModMultiple
<1>2. PICK q \in Nat : c = q * b
  BY ModMultiple
<1>3. c = (q * p) * a /\ q * p \in Nat
  BY <1>1, <1>2
<1> QED BY <1>3, MultipleMod

(* Half of a power of two above one is a power of two. *)
LEMMA Halved ==
    ASSUME NEW n \in Nat, n > 1, ~NotPowerOfTwo(n)
    PROVE  \E h \in Nat \ {0} : n = h * 2 /\ h < n /\ ~NotPowerOfTwo(h)
<1>1. n % 2 = 0
  <2>1. n = 2 \/ n >= 3
    OBVIOUS
  <2>2. ASSUME n >= 3, n % 2 = 1 PROVE FALSE
    <3>1. n = 1 * n /\ n \in 3..n
      BY <2>2
    <3>2. n % n = 0
      BY <3>1, MultipleMod
    <3> QED BY <2>2, <3>1, <3>2 DEF NotPowerOfTwo
  <2> QED BY <2>1, <2>2
<1>2. PICK h \in Nat : n = h * 2
  BY <1>1, ModMultiple
<1>3. h # 0 /\ h < n
  BY <1>2
<1>4. ASSUME NotPowerOfTwo(h) PROVE FALSE
  <2>1. PICK d \in 3..h : d % 2 = 1 /\ h % d = 0
    BY <1>4 DEF NotPowerOfTwo
  <2>2. d \in Nat \ {0} /\ d \in 3..n /\ n \in Nat /\ h \in Nat \ {0}
    BY <1>3, <2>1
  <2>3. n % h = 0
    <3>1. n = 2 * h
      BY <1>2
    <3> QED BY <3>1, <2>2, MultipleMod
  <2>4. n % d = 0
    BY <2>1, <2>2, <2>3, DividesTrans
  <2> QED BY <2>1, <2>2, <2>4 DEF NotPowerOfTwo
<1> QED BY <1>2, <1>3, <1>4

LEMMA PowersDivide ==
    ASSUME NEW a \in Nat \ {0}, NEW b \in Nat, a <= b, ~NotPowerOfTwo(a), ~NotPowerOfTwo(b)
    PROVE  b % a = 0
<1> DEFINE Bad == {n \in Nat \ {0} : ~NotPowerOfTwo(n) /\ \E k \in Nat : n <= k /\ ~NotPowerOfTwo(k) /\ k % n # 0}
<1>1. SUFFICES ASSUME b % a # 0 PROVE FALSE
  OBVIOUS
<1>2. a \in Bad /\ Bad \in SUBSET Nat
  BY <1>1
<1>3. PICK n \in Bad : \A m \in Bad : n <= m
  BY <1>2, Least
<1>4. PICK k \in Nat : n <= k /\ ~NotPowerOfTwo(k) /\ k % n # 0
  BY <1>3
<1>5. n \in Nat \ {0} /\ ~NotPowerOfTwo(n)
  BY <1>3
<1>6. n > 1
  <2>1. k % 1 = 0
    BY <1>4
  <2> QED BY <1>4, <1>5, <2>1
<1>7. k > 1
  BY <1>4, <1>5, <1>6
<1>8. PICK h \in Nat \ {0} : n = h * 2 /\ h < n /\ ~NotPowerOfTwo(h)
  BY <1>5, <1>6, Halved
<1>9. PICK j \in Nat \ {0} : k = j * 2 /\ j < k /\ ~NotPowerOfTwo(j)
  BY <1>4, <1>7, Halved
<1>10. h \notin Bad
  BY <1>3, <1>5, <1>8
<1>11. h <= j
  BY <1>4, <1>5, <1>8, <1>9
<1>12. j % h = 0
  BY <1>8, <1>9, <1>10, <1>11
<1>13. PICK q \in Nat : j = q * h
  BY <1>12, ModMultiple
<1>14. k = q * n
  BY <1>8, <1>9, <1>13
<1> QED BY <1>4, <1>5, <1>14, MultipleMod

(* What a caller was promised of the place of its pointer. *)
AlignedIn(r, p) ==
    /\ r.kind = "malloc" => p % Granule = 0
    /\ r.kind = "align" => p % Alignment(r) = 0
    /\ r.kind = "boundry" => ~Crosses(p, r)
    /\ r.kind = "boundry" /\ (r.boundry = 0 \/ Alignment(r) <= r.boundry) => p % Alignment(r) = 0

LEMMA PlacementAligned ==
    ASSUME NEW r \in Requests, NEW raw \in Nat, raw % Granule = 0,
           ~Misplaced(r, raw), ~Refused(r)
    PROVE  AlignedIn(r, Placement(r, raw))
<1>1. /\ r.size \in Nat /\ r.align \in Nat /\ r.boundry \in Nat
      /\ r.kind \in {"malloc", "align", "boundry"} /\ ~NotPowerOfTwo(r.align)
  BY RequestAssumption
<1>2. Alignment(r) \in Nat \ {0} /\ ~NotPowerOfTwo(Alignment(r))
  BY <1>1 DEF Alignment, NotPowerOfTwo
<1>3. AlignedAt(r, raw) \in Nat /\ AlignedAt(r, raw) % Alignment(r) = 0
  <2>1. raw + AlignHeaderSize \in Nat
    BY DEF AlignHeaderSize
  <2> QED BY <2>1, <1>2, RoundUpBounds, RoundedIsMultiple DEF AlignedAt
<1>4. CASE r.kind = "malloc"
  BY <1>4 DEF AlignedIn, Placement
<1>5. CASE r.kind = "align"
  BY <1>3, <1>5 DEF AlignedIn, Placement
<1>6. CASE r.kind = "boundry"
  <2>1. ~Crosses(BoundryAt(r, raw), r) /\ ~NotPowerOfTwo(r.boundry)
    BY <1>6 DEF Misplaced, Refused
  <2>2. ASSUME r.boundry = 0 \/ Alignment(r) <= r.boundry
        PROVE  BoundryAt(r, raw) % Alignment(r) = 0
    <3>1. CASE ~Crosses(AlignedAt(r, raw), r)
      BY <1>3, <3>1 DEF BoundryAt
    <3>2. CASE Crosses(AlignedAt(r, raw), r)
      <4>1. r.boundry \in Nat \ {0} /\ Alignment(r) <= r.boundry
        BY <1>1, <2>2, <3>2 DEF Crosses
      <4>2. r.boundry % Alignment(r) = 0
        BY <1>2, <2>1, <4>1, PowersDivide
      <4>3. /\ BoundryAt(r, raw) \in Nat
            /\ BoundryAt(r, raw) % r.boundry = 0
        <5>1. AlignedAt(r, raw) + r.boundry \in Nat
          BY <1>3, <4>1
        <5> QED BY <3>2, <4>1, <5>1, RoundDownBounds, RoundedIsMultiple DEF BoundryAt
      <4> QED BY <1>2, <4>1, <4>2, <4>3, DividesTrans
    <3> QED BY <3>1, <3>2
  <2> QED BY <1>6, <2>1, <2>2 DEF AlignedIn, Placement
<1> QED BY <1>1, <1>4, <1>5, <1>6

(* What malloc_boundry refuses at its entry is never searched for. *)
AlignedInv ==
    /\ \A p \in DOMAIN held : AlignedIn(held[p].req, p)
    /\ pc = "search" => ~Refused(req)

LEMMA AlignedStep ==
    ASSUME HeapInv, AlignedInv, [Next]_vars
    PROVE  AlignedInv'
<1>1. CASE SearchTake
  <2>1. /\ req \in Requests /\ cur \in Blocks /\ ~Misplaced(req, Payload(cur)) /\ ~Refused(req)
        /\ pc' = "idle"
    BY <1>1 DEF SearchTake, HeapInv, TypeOK, AlignedInv
  <2>2. Payload(cur) \in Nat /\ Payload(cur) % Granule = 0
    <3>1. cur \in Nat /\ cur % Granule = 0
      BY <2>1, BlockFacts DEF HeapInv, Tiling, BlockInRegion, BlockFact
    <3> QED BY <3>1 DEF Payload, BlockSize, Granule
  <2>3. AlignedIn(req, Placement(req, Payload(cur)))
    BY <2>1, <2>2, PlacementAligned
  <2>4. PICK p : /\ p = Placement(req, Payload(cur))
                 /\ held' = [q \in DOMAIN held \cup {p} |->
                               IF q = p THEN [raw |-> Payload(cur), req |-> req] ELSE held[q]]
    BY <1>1 DEF SearchTake
  <2>5. ASSUME NEW q \in DOMAIN held' PROVE AlignedIn(held'[q].req, q)
    <3>1. CASE q = p
      <4>1. held'[q].req = req
        BY <2>4, <2>5, <3>1
      <4> QED BY <2>3, <2>4, <3>1, <4>1
    <3>2. CASE q # p
      BY <2>4, <2>5, <3>2 DEF AlignedInv
    <3> QED BY <3>1, <3>2
  <2> QED BY <2>1, <2>5 DEF AlignedInv, AlignedIn, Alignment, Crosses, RoundDown, Granule
<1>2. CASE \E p \in DOMAIN held : FreeBegin(p)
  <2>1. pc' = "right" /\ \A q \in DOMAIN held' : q \in DOMAIN held /\ held'[q] = held[q]
    BY <1>2 DEF FreeBegin
  <2> QED BY <2>1 DEF AlignedInv, AlignedIn, Alignment, Crosses, RoundDown, Granule
<1>3. CASE \E r \in Requests : MallocBegin(r)
  <2>1. PICK r \in Requests : MallocBegin(r)
    BY <1>3
  <2>2. held' = held /\ req' = r /\ ~Refused(r)
    BY <2>1 DEF MallocBegin
  <2> QED BY <2>2 DEF AlignedInv, AlignedIn, Alignment, Crosses, RoundDown, Granule,
                      Refused, TooBig, NotPowerOfTwo
<1>4. CASE SearchNext \/ SearchReject \/ MergeRight \/ RightDone \/ MergeLeft \/ LeftDone \/ UNCHANGED vars
  <2>1. held' = held /\ (pc' # "search" \/ (pc = "search" /\ req' = req))
    BY <1>4 DEF SearchNext, SearchReject, MergeRight, RightDone, MergeLeft, LeftDone, vars
  <2> QED BY <2>1 DEF AlignedInv, AlignedIn, Alignment, Crosses, RoundDown, Granule,
                      Refused, TooBig, NotPowerOfTwo
<1> QED BY <1>1, <1>2, <1>3, <1>4 DEF Next, Step

(* A pointer that malloc_align or malloc_boundry returns is aligned as the *)
(* caller asked and does not cross the boundary, for every power of two    *)
(* and every place of the block; one of malloc is aligned to 16 bytes.     *)
THEOREM AlignedInvariant == Spec => []Aligned
<1>1. Init => AlignedInv
  BY DEF Init, AlignedInv
<1>2. HeapInv /\ AlignedInv /\ [Next]_vars => AlignedInv'
  BY AlignedStep
<1>3. AlignedInv => Aligned
  BY DEF AlignedInv, AlignedIn, Aligned
<1> QED BY <1>1, <1>2, <1>3, HeapInvariant, PTL DEF Spec
===========================================================================

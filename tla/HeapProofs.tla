----------------------------- MODULE HeapProofs -----------------------------
(***************************************************************************)
(* The kernel heap keeps its blocks and its free list in order and         *)
(* implements Allocator, for every set of layouts, every page size and     *)
(* every number of pages.                                                  *)
(***************************************************************************)
EXTENDS Heap, HeapLemmas, FiniteSetLaws, TLAPS

USE DEF BLOCK_HEADER_SIZE, MIN_ALLOC_SIZE, MIN_BLOCK_SIZE, Null

-----------------------------------------------------------------------------
(* align_up to 8 keeps the order, and commutes with multiples of 8. *)
LEMMA AlignUpEightMore ==
  /\ \A x, y \in Nat : x <= y => AlignUp(x, 8) <= AlignUp(y, 8)
  /\ \A x, y \in Nat : x % 8 = 0 => AlignUp(x + y, 8) = x + AlignUp(y, 8)
  /\ \A x \in Nat : x > 8 => AlignUp(x, 8) >= 16
<1>1. ASSUME NEW x \in Nat, NEW y \in Nat, x <= y PROVE AlignUp(x, 8) <= AlignUp(y, 8)
  BY <1>1 DEF AlignUp
<1>2. ASSUME NEW x \in Nat, NEW y \in Nat, x % 8 = 0
      PROVE  AlignUp(x + y, 8) = x + AlignUp(y, 8)
  BY <1>2 DEF AlignUp
<1>3. ASSUME NEW x \in Nat, x > 8 PROVE AlignUp(x, 8) >= 16
  BY <1>3 DEF AlignUp
<1> QED
  BY <1>1, <1>2, <1>3

(* A multiple of 8 is aligned for every alignment up to 8. *)
LEMMA SmallAlign ==
  ASSUME NEW l \in Layouts, l.align <= 8, NEW x \in Nat, x % 8 = 0
  PROVE  x % l.align = 0 /\ l.align \in {1, 2, 4, 8}
<1>1. l.align \in {1, 2, 4, 8}
  BY LayoutFacts
<1> QED
  BY <1>1

(* What find_fit has found: the block itself, or a place inside it. *)
Placed(D, s, lv, this, at, l) ==
  \/ at = this /\ s.hdr[this].size >= AlignUp(l.size, 8) /\ (this + 16) % l.align = 0
  \/ PlaceInside(D, s, lv, this, at, l)

(* split_block at a place find_fit found. *)
LEMMA SplitOK ==
  ASSUME NEW D, NEW s, NEW lv, HeapOK(D, s, lv), NEW this \in FreeBlocks(s),
         NEW l \in Layouts, NEW at, Placed(D, s, lv, this, at, l),
         NEW t, t = SplitBlock(s, this, at, l)
  PROVE  /\ t.heap_end = s.heap_end
         /\ ~Tears(s, this, at, l) => \E G : HeapOK(G, t, Holding(lv, at + 16, l))
<1>1. CASE /\ at = this /\ s.hdr[this].size >= AlignUp(l.size, 8)
           /\ (this + 16) % l.align = 0
  <2>1. t = SplitTwo(s, this, l)
    BY <1>1, Zenon DEF SplitBlock
  <2>2. (\E G : HeapOK(G, t, Holding(lv, this + 16, l))) /\ t.heap_end = s.heap_end
    BY <1>1, <2>1, SplitTwoOK
  <2> QED
    BY <1>1, <2>2
<1>2. CASE PlaceInside(D, s, lv, this, at, l)
  <2>1. this # at
    BY <1>2, PlaceFacts
  <2>2. t = SplitThree(s, this, at, l)
    BY <2>1, Zenon DEF SplitBlock
  <2>3. t.heap_end = s.heap_end
    <3>1. SplitThree(s, this, at, l).heap_end = s.heap_end
      BY <1>2, SplitThreeEnd
    <3> QED
      BY <2>2, <3>1, Zenon
  <2>4. ASSUME ~Tears(s, this, at, l)
        PROVE  \E G : HeapOK(G, t, Holding(lv, at + 16, l))
    <3>1. AlignedSize(l) \in Nat /\ EndPtr(s, this) \in Int /\ at \in Nat
      BY <1>2, PlaceFacts, Zenon
    <3>2. Excess(at, EndPtr(s, this), l) \in Int
      BY <3>1 DEF Excess, AllocArea
    <3>3. this = s.tail /\ ~(Excess(at, EndPtr(s, this), l) < 16)
      BY <2>1, <2>4, Zenon DEF Tears
    <3>4. Excess(at, EndPtr(s, this), l) >= 16
      BY <3>2, <3>3
    <3> QED
      BY <1>2, <2>2, <3>3, <3>4, SplitThreeOK, Zenon
  <2> QED
    BY <2>3, <2>4, Zenon
<1> QED
  BY <1>1, <1>2, Zenon DEF Placed

(* What a caller gets: aligned memory of the heap that nobody else holds. *)
HandedOut(s, lv, p, l) ==
  /\ p \in Nat /\ p >= HeapStart /\ p % l.align = 0 /\ p + l.size <= s.heap_end
  /\ p \notin DOMAIN lv
  /\ \A q \in DOMAIN lv : p + l.size <= q \/ q + lv[q].size <= p

(* A place find_fit found is such memory. *)
LEMMA PlacedApart ==
  ASSUME NEW D, NEW s, NEW lv, HeapOK(D, s, lv), NEW this \in FreeBlocks(s),
         NEW l \in Layouts, NEW at, Placed(D, s, lv, this, at, l)
  PROVE  HandedOut(s, lv, at + 16, l)
<1>1. /\ D \in SUBSET Nat /\ s \in HeapState(D) /\ Tiles(s) /\ LiveOK(s, lv)
      /\ DOMAIN s.hdr = D /\ this \in D /\ ~s.hdr[this].used
  BY Zenon DEF HeapOK, HeapCore, HeapState, FreeBlocks
<1>2. PICK end \in Int : end = EndPtr(s, this)
  BY <1>1, TilesFacts, Zenon
<1>3. l.size \in Nat /\ l.size > 0
  BY LayoutFacts
<1>4. this \in Nat /\ HeapStart <= this
  BY <1>1, TilesFacts, Zenon
<1>5. /\ at \in Nat /\ this <= at /\ at + 16 + l.size <= end /\ (at + 16) % l.align = 0
      /\ at \notin D \/ ~s.hdr[at].used
  <2>1. CASE /\ at = this /\ s.hdr[this].size >= AlignUp(l.size, 8)
             /\ (this + 16) % l.align = 0
    <3>1. end = this + 16 + s.hdr[this].size /\ s.hdr[this].size \in Int
      BY <1>1, <1>2, TilesFacts
    <3>2. AlignUp(l.size, 8) \in Nat /\ AlignUp(l.size, 8) >= l.size
      BY <1>3, AlignUpEight, Zenon
    <3> QED
      BY <1>1, <1>3, <1>4, <2>1, <3>1, <3>2
  <2>2. CASE PlaceInside(D, s, lv, this, at, l)
    <3>1. at \in Nat /\ this < at /\ at \notin D
      BY <2>2, PlaceFacts, Zenon
    <3>2. at + 16 + AlignedSize(l) + 16 <= end /\ (at + 16) % l.align = 0
      BY <1>2, <2>2, Zenon DEF PlaceInside
    <3>3. AlignedSize(l) \in Nat /\ AlignedSize(l) >= l.size
      BY AlignedSizeFacts, Zenon
    <3> QED
      BY <1>2, <1>3, <1>4, <3>1, <3>2, <3>3
  <2> QED
    BY <2>1, <2>2 DEF Placed
<1>6. PICK p \in Nat : p = at + 16
  BY <1>5
<1>7. end <= s.heap_end /\ s.heap_end \in Int
  <2>1. s.tail \in D /\ EndPtr(s, s.tail) = s.heap_end /\ this <= s.tail
    BY <1>1, TilesFacts
  <2>2. s.heap_end \in Int /\ s.tail \in Int /\ s.heap_end >= s.tail + 32
    <3>1. EndPtr(s, s.tail) >= s.tail + 32
      BY <1>1, <2>1, TilesFacts, Zenon
    <3> QED
      BY <1>1, <2>1, <3>1, Zenon DEF HeapState
  <2>3. CASE this = s.tail
    BY <1>2, <2>1, <2>2, <2>3
  <2>4. CASE this # s.tail
    <3>1. this < s.tail
      BY <1>4, <2>1, <2>2, <2>4
    <3>2. end <= s.tail
      BY <1>1, <1>2, <2>1, <3>1, TilesFacts, ZenonT(30)
    <3> QED
      BY <1>2, <2>2, <3>2
  <2> QED
    BY <2>3, <2>4, Zenon
<1>8. ASSUME NEW q \in DOMAIN lv
      PROVE  (p + l.size <= q \/ q + lv[q].size <= p) /\ p # q
  <2>1. /\ q \in Nat /\ lv[q] \in Layouts
        /\ q - 16 \in D /\ s.hdr[q - 16].used
        /\ lv[q].size <= s.hdr[q - 16].size
    BY <1>1, Zenon DEF LiveOK
  <2>2. PICK b \in Nat : b = q - 16 /\ b \in D /\ s.hdr[b].used /\ lv[q].size <= s.hdr[b].size
    BY <1>1, <2>1, Zenon
  <2>3. lv[q].size \in Nat
    BY <2>1, LayoutFacts, Zenon
  <2>4. b # this /\ b # at
    BY <1>1, <1>5, <2>2
  <2>5. CASE b < this
    <3>0. EndPtr(s, b) = b + 16 + s.hdr[b].size /\ s.hdr[b].size \in Int
      <4>1. s.hdr[b] \in Header
        BY <1>1, <2>2, Zenon DEF HeapState
      <4> QED
        BY <2>2, <4>1, Zenon DEF EndPtr, AllocArea, Header
    <3>1. EndPtr(s, b) <= this /\ EndPtr(s, b) = b + 16 + s.hdr[b].size /\ s.hdr[b].size \in Int
      BY <1>1, <2>2, <2>5, <3>0, TilesFacts, Zenon
    <3>2. q + lv[q].size <= p
      BY <1>4, <1>5, <1>6, <2>1, <2>2, <2>3, <3>1
    <3> QED
      BY <1>5, <1>6, <2>1, <2>2, <2>4, <3>2
  <2>6. CASE b > this
    <3>1. end <= b
      BY <1>1, <1>2, <2>2, <2>6, TilesFacts
    <3>2. p + l.size <= q
      BY <1>2, <1>3, <1>5, <1>6, <2>1, <2>2, <3>1
    <3> QED
      BY <1>5, <1>6, <2>1, <2>2, <2>4, <3>2
  <2> QED
    BY <1>4, <2>2, <2>4, <2>5, <2>6
<1>9. p >= HeapStart /\ p + l.size <= s.heap_end
  <2>1. HeapStart \in Nat
    BY HeapAssumption, Zenon
  <2> QED
    BY <1>2, <1>3, <1>4, <1>5, <1>6, <1>7, <2>1
<1>10. p % l.align = 0
  BY <1>5, <1>6, Zenon
<1>11. HandedOut(s, lv, p, l)
  BY <1>8, <1>9, <1>10 DEF HandedOut
<1> QED
  BY <1>6, <1>11, Zenon

(* The end of the heap is an address. *)
LEMMA EndNat ==
  ASSUME NEW s, NEW lv, \E D : HeapOK(D, s, lv)
  PROVE  s.heap_end \in Nat
BY OKShaped, Zenon DEF HeapOK, Shaped

(* The pages taken are pages there were. *)
LEMMA PagesTaken ==
  ASSUME NEW k \in Nat, NEW sp \in 0..SparePages, NEW n, n = k * PageSize,
         n <= sp * PageSize
  PROVE  /\ sp - n \div PageSize \in 0..SparePages
         /\ (sp - n \div PageSize) * PageSize \in Nat
         /\ (sp - n \div PageSize) * PageSize + n = sp * PageSize
<1>1. PageSize \in Nat /\ PageSize > 0 /\ SparePages \in Nat
  BY HeapAssumption
<1>2. PICK P \in Nat : P = PageSize
  BY <1>1, Zenon
<1>3. P > 0 /\ n = k * P /\ n <= sp * P /\ sp \in Nat
  BY <1>1, <1>2
<1>4. k <= sp
  <2> SUFFICES ASSUME k >= sp + 1 PROVE FALSE
    BY <1>3
  <2>1. PICK d \in Nat : k = sp + 1 + d
    <3>1. k - sp - 1 \in Nat
      BY <1>3
    <3> QED
      BY <1>3, <3>1
  <2>2. k * P = sp * P + P + d * P
    BY <1>3, <2>1
  <2>3. PICK x \in Nat, y \in Nat : x = sp * P /\ y = d * P
    BY <1>3
  <2>4. x + P + y <= x
    BY <1>3, <2>2, <2>3, Zenon
  <2> QED
    BY <1>3, <2>3, <2>4
<1>5. n \div P = k
  BY <1>3
<1>6. sp - k \in 0..SparePages /\ sp - k \in Nat
  BY <1>1, <1>3, <1>4
<1>7. (sp - k) * P \in Nat /\ (sp - k) * P + k * P = sp * P
  BY <1>3, <1>6
<1> QED
  BY <1>2, <1>3, <1>5, <1>6, <1>7, Zenon

(* init makes the whole heap one free block. *)
NewHeap(s) ==
  s = [hdr |-> [b \in {HeapStart} |->
                 NewHeader(InitPages * PageSize - BLOCK_HEADER_SIZE, FALSE)],
       tail |-> HeapStart, heap_end |-> HeapStart + InitPages * PageSize,
       free_head |-> HeapStart]

(* That is a heap in order without allocations. *)
LEMMA NewHeapOK ==
  ASSUME NEW s, NEW lv, DOMAIN lv = {}, NewHeap(s)
  PROVE  \E D : HeapOK(D, s, lv)
<1>1. PICK P \in Nat, N \in Nat, H \in Nat :
        /\ P = PageSize /\ N = InitPages * P /\ H = HeapStart
        /\ P % 8 = 0 /\ P >= 32 /\ H % P = 0
  BY HeapAssumption
<1>2. N % 8 = 0 /\ N >= 32
  <2>1. N % 8 = 0
    BY <1>1, HeapAssumption, EightDivides, Zenon
  <2>2. PICK k \in Nat : InitPages = k + 1
    <3>1. InitPages - 1 \in Nat
      BY HeapAssumption
    <3> QED
      BY <3>1, HeapAssumption
  <2>3. N = k * P + P
    BY <1>1, <2>2
  <2>4. k * P \in Nat
    BY <1>1, <2>2
  <2> QED
    BY <1>1, <2>1, <2>3, <2>4
<1>3. H % 8 = 0
  <2>1. PICK k \in Int : k = H \div P /\ k >= 0
    BY <1>1
  <2>2. k \in Nat /\ H = k * P
    BY <1>1, <2>1
  <2>3. (k * P) % 8 = 0
    BY <1>1, <2>2, EightDivides, Zenon
  <2> QED
    BY <2>2, <2>3, Zenon
<1>5. s = [hdr |-> [b \in {H} |-> NewHeader(N - 16, FALSE)],
           tail |-> H, heap_end |-> H + N, free_head |-> H]
  BY <1>1, Zenon DEF NewHeap
<1>6. PICK D : D = {H}
  BY Zenon
<1>7. D \in SUBSET Nat /\ Listed(D) /\ H \in D /\ \A b \in D : b = H
  <2>1. H \in Nat /\ [i \in 1..1 |-> H] \in [1..1 -> Nat]
    BY <1>1, Zenon
  <2>2. \A b \in D : \E i \in 1..1 : [j \in 1..1 |-> H][i] = b
    BY <1>6
  <2>3. Listed(D)
    BY <2>1, <2>2, Zenon DEF Listed
  <2> QED
    BY <1>6, <2>1, <2>3, Zenon
<1>8. /\ s \in HeapState(D) /\ DOMAIN s.hdr = D
      /\ s.tail = H /\ s.heap_end = H + N /\ s.free_head = H
      /\ s.hdr[H].size = N - 16 /\ s.hdr[H].prev = -1 /\ s.hdr[H].free_next = -1
      /\ s.hdr[H].free_prev = -1 /\ s.hdr[H].used = FALSE
  <2>1. s.hdr[H] = NewHeader(N - 16, FALSE) /\ s.hdr = [b \in D |-> NewHeader(N - 16, FALSE)]
    BY <1>5, <1>6, Zenon
  <2>2. NewHeader(N - 16, FALSE) \in Header
    BY DEF NewHeader, Header
  <2>3. s \in HeapState(D)
    <3>1. s.hdr \in [D -> Header]
      BY <2>1, <2>2, Zenon
    <3>2. s = [hdr |-> s.hdr, tail |-> H, heap_end |-> H + N, free_head |-> H]
      BY <1>5, Zenon
    <3>3. H \in Int /\ H + N \in Int
      OBVIOUS
    <3> QED
      BY <3>1, <3>2, <3>3 DEF HeapState
  <2>4. /\ s.hdr[H].size = N - 16 /\ s.hdr[H].prev = -1 /\ s.hdr[H].free_next = -1
        /\ s.hdr[H].free_prev = -1 /\ s.hdr[H].used = FALSE
    BY <2>1 DEF NewHeader
  <2> QED
    BY <1>5, <2>1, <2>3, <2>4, Zenon
<1>9. EndPtr(s, H) = H + N
  BY <1>8 DEF EndPtr, AllocArea
<1>10. Tiles(s)
  <2>1. N - 16 >= 16 /\ (N - 16) % 8 = 0
    BY <1>2
  <2>2. D \ {s.tail} = {} /\ D \ {HeapStart} = {} /\ HeapStart = H
    BY <1>1, <1>7, <1>8, Zenon
  <2>3. \A b \in D : /\ HeapStart <= b /\ b <= s.tail /\ b % 8 = 0
                     /\ s.hdr[b].size >= MIN_ALLOC_SIZE /\ s.hdr[b].size % 8 = 0
    <3>1. H <= H /\ N - 16 >= MIN_ALLOC_SIZE
      BY <2>1 DEF MIN_ALLOC_SIZE
    <3>2. /\ HeapStart <= H /\ H <= s.tail /\ H % 8 = 0
          /\ s.hdr[H].size >= MIN_ALLOC_SIZE /\ s.hdr[H].size % 8 = 0
      BY <1>3, <1>8, <2>1, <2>2, <3>1, Zenon
    <3> QED
      BY <1>7, <3>2, Zenon
  <2>4. \A b, c \in D : ~(b < c)
    BY <1>7
  <2> QED
    BY <1>7, <1>8, <1>9, <2>2, <2>3, <2>4, Zenon DEF Tiles
<1>11. FreeOK(s, FreeBlocks(s))
  <2>1. FreeBlocks(s) = D
    BY <1>7, <1>8, Zenon DEF FreeBlocks
  <2>2. PICK f : f = [i \in 1..1 |-> H]
    BY Zenon
  <2>3. f \in [1..1 -> D] /\ f[1] = H /\ \A i \in 1..1 : i = 1
    BY <1>7, <2>2
  <2>4. FreeChain(s, D, 1, f)
    BY <1>7, <1>8, <2>3 DEF FreeChain
  <2> QED
    BY <2>1, <2>3, <2>4, Zenon DEF FreeOK
<1>13. LiveOK(s, lv)
  BY <1>7, <1>8, Zenon DEF LiveOK
<1>14. Coalesced(s)
  BY <1>7, <1>8, Zenon DEF Coalesced
<1>15. HeapOK(D, s, lv)
  BY <1>7, <1>8, <1>10, <1>11, <1>13, <1>14, Zenon DEF HeapOK, HeapCore
<1> QED
  BY <1>15, Zenon

-----------------------------------------------------------------------------
(* A non-empty set of natural numbers has a least element. *)
LEMMA LeastNat ==
  ASSUME CountingLaws, NEW S \in SUBSET Nat, S # {}
  PROVE  \E x \in S : \A y \in S : x <= y
BY Zenon DEF CountingLaws, LeastElement

(* Min of a non-empty set of natural numbers is its least element. *)
LEMMA MinNat ==
  ASSUME CountingLaws, NEW S \in SUBSET Nat, S # {}
  PROVE  Min(S) \in S /\ \A y \in S : Min(S) <= y
<1>1. \E x \in S : \A y \in S : x <= y
  BY LeastNat, Zenon
<1> QED
  BY <1>1, Zenon DEF Min

(* The size of an interval that starts at 1. *)
LEMMA IntervalSize ==
  ASSUME CountingLaws, NEW n \in Nat
  PROVE  IsFiniteSet(1..n) /\ Cardinality(1..n) = n
<1>1. 1 \in Int /\ n \in Int
  OBVIOUS
<1>2. IsFiniteSet(1..n) /\ Cardinality(1..n) = IF 1 > n THEN 0 ELSE n - 1 + 1
  BY <1>1, Zenon DEF CountingLaws, CardinalityInterval
<1> QED
  BY <1>2

(* A set of addresses that is listed is finite. *)
LEMMA ListedFinite ==
  ASSUME CountingLaws, NEW D \in SUBSET Nat, Listed(D)
  PROVE  IsFiniteSet(D)
<1>0. PICK n \in Nat : \E e \in [1..n -> Nat] : \A c \in D : \E i \in 1..n : e[i] = c
  BY Zenon DEF Listed
<1>1. PICK e \in [1..n -> Nat] : \A c \in D : \E i \in 1..n : e[i] = c
  BY <1>0, Zenon
<1>2. PICK R : R = {e[i] : i \in 1..n}
  BY Zenon
<1>3. e \in [1..n -> R] /\ \A y \in R : \E i \in 1..n : e[i] = y
  BY <1>2, Zenon
<1>4. IsFiniteSet(1..n)
  BY Zenon, IntervalSize
<1>5. IsFiniteSet(R)
  BY <1>3, <1>4, Zenon DEF CountingLaws, CardinalityOnto
<1>6. D \subseteq R
  BY <1>1, <1>2, Zenon
<1> QED
  BY <1>5, <1>6, Zenon DEF CountingLaws, CardinalitySubset

(* Walking free_next from free_head yields the chain, in its order: the    *)
(* walk of FreeList takes as many steps as there are headers, and the      *)
(* chain visits each free block once, so it ends within them.              *)
LEMMA FreeListIsChain ==
  ASSUME CountingLaws, NEW D \in SUBSET Nat, IsFiniteSet(D), NEW s \in HeapState(D),
         NEW F \in SUBSET D, NEW n \in Nat, NEW f \in [1..n -> F], FreeChain(s, F, n, f)
  PROVE  FreeList(s) = f
<1> DEFINE Walk(nd, m) ==
      nd = [i \in 1..m |-> IF i = 1 THEN s.free_head
                           ELSE IF nd[i - 1] = Null THEN Null ELSE s.hdr[nd[i - 1]].free_next]
<1>1. PICK m : m = Cardinality(DOMAIN s.hdr)
  BY Zenon
<1>2. PICK c : c = CHOOSE nd : Walk(nd, m)
  BY Zenon
<1>3. FreeList(s) = [i \in 1..Cardinality({j \in 1..m : c[j] # Null}) |-> c[i]]
  BY <1>1, <1>2 DEF FreeList
<1>4. m \in Nat /\ n <= m
  <2>0. DOMAIN s.hdr = D
    BY Zenon DEF HeapState
  <2>1. m \in Nat
    BY <1>1, <2>0, Zenon DEF CountingLaws, CardinalityNat
  <2>2. f \in [1..n -> D] /\ \A i, j \in 1..n : f[i] = f[j] => i = j
    BY Zenon DEF FreeChain
  <2>3. Cardinality(1..n) <= Cardinality(D)
    BY <2>2, Zenon DEF CountingLaws, CardinalityInto
  <2>4. Cardinality(1..n) = n
    BY IntervalSize, Zenon
  <2> QED
    BY <1>1, <2>0, <2>1, <2>3, <2>4
<1>5. /\ \A i \in 1..n : f[i] \in Nat /\ f[i] # Null
      /\ s.free_head = IF n = 0 THEN Null ELSE f[1]
      /\ \A i \in 1..n : s.hdr[f[i]].free_next = IF i = n THEN Null ELSE f[i + 1]
  <2>1. \A i \in 1..n : f[i] \in Nat /\ f[i] # Null
    <3>1. F \subseteq Nat
      BY Zenon
    <3>2. \A i \in 1..n : f[i] \in F
      BY Zenon
    <3>3. \A i \in 1..n : f[i] \in Nat
      BY <3>1, <3>2, Zenon
    <3> QED
      BY <3>3
  <2> QED
    BY <2>1, Zenon DEF FreeChain
<1>6. PICK g : g = [i \in 1..m |-> IF i <= n THEN f[i] ELSE Null]
  BY Zenon
<1>7. ASSUME NEW i \in 1..m
      PROVE  g[i] = IF i = 1 THEN s.free_head
                    ELSE IF g[i - 1] = Null THEN Null ELSE s.hdr[g[i - 1]].free_next
  <2>1. CASE i = 1
    BY <1>5, <1>6, <2>1
  <2>2. CASE i # 1
    <3>1. i - 1 \in 1..m /\ (i - 1) + 1 = i
      BY <1>4, <2>2
    <3>2. CASE i - 1 <= n
      <4>1. g[i - 1] = f[i - 1] /\ i - 1 \in 1..n
        BY <1>6, <3>1, <3>2
      <4>2. s.hdr[f[i - 1]].free_next = IF i - 1 = n THEN Null ELSE f[i]
        BY <1>5, <3>1, <4>1, Zenon
      <4>3. f[i - 1] # Null
        BY <1>5, <4>1
      <4>4. g[i] = IF i - 1 = n THEN Null ELSE f[i]
        BY <1>6, <3>2
      <4> QED
        BY <2>2, <4>1, <4>2, <4>3, <4>4
    <3>3. CASE ~(i - 1 <= n)
      <4>1. g[i - 1] = Null /\ g[i] = Null
        BY <1>6, <3>1, <3>3
      <4> QED
        BY <2>2, <4>1, Zenon
    <3> QED
      BY <3>2, <3>3, Zenon
  <2> QED
    BY <2>1, <2>2, Zenon
<1>8. Walk(g, m)
  BY <1>6, <1>7, Zenon
<1>9. Walk(c, m)
  <2> HIDE DEF Walk
  <2> QED
    BY <1>2, <1>8, Zenon
<1>10. \A i \in 1..m : c[i] = g[i]
  <2> DEFINE S == {i \in 1..m : c[i] # g[i]}
  <2> SUFFICES ASSUME S # {} PROVE FALSE
    BY Zenon
  <2>1. S \in SUBSET Nat
    OBVIOUS
  <2>2. PICK x \in S : \A y \in S : x <= y
    BY <2>1, LeastNat, Zenon
  <2>3. x \in 1..m /\ c[x] # g[x]
    BY Zenon
  <2>4. x # 1 => x - 1 \in 1..m /\ c[x - 1] = g[x - 1]
    <3> SUFFICES ASSUME x # 1 PROVE x - 1 \in 1..m /\ c[x - 1] = g[x - 1]
      BY Zenon
    <3>1. x - 1 \in 1..m /\ x - 1 < x
      BY <1>4, <2>3
    <3>2. x - 1 \notin S
      BY <2>2, <3>1
    <3> QED
      BY <3>1, <3>2, Zenon
  <2>5. c[x] = IF x = 1 THEN s.free_head
               ELSE IF c[x - 1] = Null THEN Null ELSE s.hdr[c[x - 1]].free_next
    BY <1>9, <2>3, Zenon
  <2> QED
    BY <1>7, <2>3, <2>4, <2>5
<1>11. {j \in 1..m : c[j] # Null} = 1..n
  BY <1>4, <1>5, <1>6, <1>10
<1>12. Cardinality(1..n) = n
  BY IntervalSize, Zenon
<1>13. FreeList(s) = [i \in 1..n |-> c[i]]
  BY <1>3, <1>11, <1>12, Zenon
<1>14. \A i \in 1..n : c[i] = f[i]
  BY <1>4, <1>6, <1>10
<1> QED
  BY <1>13, <1>14, Zenon

(* check_aligned_fit returns a place for the allocation, or none. *)
LEMMA AlignedFitPlace ==
  ASSUME CountingLaws, NEW D, NEW s, NEW lv, HeapOK(D, s, lv), NEW b \in FreeBlocks(s),
         NEW l \in Layouts, CheckAlignedFit(s, b, l) # Null
  PROVE  /\ Placed(D, s, lv, b, CheckAlignedFit(s, b, l), l)
         /\ l.align <= 8 => CheckAlignedFit(s, b, l) = b
<1>1. /\ D \in SUBSET Nat /\ s \in HeapState(D) /\ Tiles(s) /\ b \in D
  BY Zenon DEF HeapOK, HeapCore, HeapState, FreeBlocks
<1>2. PICK end \in Int, size \in Int : end = EndPtr(s, b) /\ size = s.hdr[b].size
  BY <1>1, TilesFacts
<1>3. b \in Nat /\ b % 8 = 0 /\ end = b + 16 + size /\ end >= b + 32
  <2>1. b % 8 = 0 /\ EndPtr(s, b) = b + 16 + s.hdr[b].size /\ EndPtr(s, b) >= b + 32
    BY <1>1, TilesFacts
  <2> QED
    BY <1>1, <1>2, <2>1, Zenon
<1>4. PICK al \in Nat \ {0}, sz \in Nat \ {0} :
        al = l.align /\ sz = l.size /\ (al \in {1, 2, 4, 8} \/ (al % 8 = 0 /\ sz > 8))
  BY LayoutFacts, Zenon
<1>5. PICK area \in Nat : area = b + 16 /\ area = AllocArea(b) /\ area % 8 = 0
  BY <1>3 DEF AllocArea
<1>6. PICK first \in Nat : first = AlignUp(area, al) /\ first >= area
  BY <1>4, <1>5, AlignUpFacts, Zenon
<1>7. PICK j \in Nat : first = j * al
  BY <1>4, <1>5, <1>6, AlignUpFacts, ZenonT(30)
<1> DEFINE Fit(a) == /\ AlignUp(a + sz, 8) + 16 <= end
                     /\ a = area \/ a - area >= 32
           places == {a \in {AlignUp(AllocArea(b), l.align) + k * l.align :
                               k \in 0..(s.hdr[b].size \div l.align)} :
                        /\ AlignUp(a + l.size, 8) + 16 <= EndPtr(s, b)
                        /\ \/ a = AllocArea(b)
                           \/ a - AllocArea(b) >= 32}
<1>8. places # {} /\ CheckAlignedFit(s, b, l) = Min(places) - 16
  <2>1. CheckAlignedFit(s, b, l) = IF places = {} THEN -1 ELSE Min(places) - 16
    BY DEF CheckAlignedFit
  <2> QED
    BY <2>1, Zenon
<1>9. \A a : a \in places <=> (\E k \in 0..(size \div al) : a = first + k * al) /\ Fit(a)
  BY <1>2, <1>4, <1>5, <1>6, Zenon
<1> HIDE DEF places
<1>a. \A k \in 0..(size \div al) : k \in Nat /\ k * al \in Nat /\ first + k * al \in Nat
  BY <1>4, <1>6
<1>10. places \in SUBSET Nat
  BY <1>9, <1>a
<1>11. PICK a \in Nat : a = Min(places) /\ a \in places /\ \A c \in places : a <= c
  BY <1>8, <1>10, MinNat, Zenon
<1>12. Fit(a) /\ a >= first
  BY <1>6, <1>9, <1>a, <1>11
<1>b. PICK m \in Nat : a = m * al
  <2>1. PICK k \in 0..(size \div al) : a = first + k * al
    BY <1>9, <1>11, Zenon
  <2>2. j + k \in Nat /\ a = (j + k) * al
    BY <1>4, <1>7, <1>a, <2>1
  <2> QED
    BY <2>2, Zenon
<1>13. a % al = 0
  BY <1>4, <1>b, MultipleMod, Zenon
<1>14. CASE a = area
  <2>1. AlignUp(area + sz, 8) = area + AlignUp(sz, 8) /\ AlignUp(sz, 8) \in Nat
    BY <1>4, <1>5, AlignUpEightMore, AlignUpEight, Zenon
  <2>2. size >= AlignUp(sz, 8)
    BY <1>3, <1>5, <1>12, <1>14, <2>1
  <2>3. CheckAlignedFit(s, b, l) = b
    <3>1. CheckAlignedFit(s, b, l) = a - 16
      BY <1>8, <1>11
    <3> QED
      BY <1>3, <1>5, <1>14, <3>1
  <2> QED
    BY <1>2, <1>4, <1>5, <1>13, <1>14, <2>2, <2>3 DEF Placed
<1>15. CASE a # area
  <2>1. al % 8 = 0 /\ sz > 8 /\ al \notin {1, 2, 4, 8}
    <3> SUFFICES ASSUME al \in {1, 2, 4, 8} PROVE FALSE
      BY <1>4, Zenon
    <3>1. first = area
      <4>1. CASE al = 1
        BY <1>5, <1>6, <4>1 DEF AlignUp
      <4>2. CASE al = 2
        BY <1>5, <1>6, <4>2 DEF AlignUp
      <4>3. CASE al = 4
        BY <1>5, <1>6, <4>3 DEF AlignUp
      <4>4. CASE al = 8
        BY <1>5, <1>6, <4>4 DEF AlignUp
      <4> QED
        BY <4>1, <4>2, <4>3, <4>4
    <3>2. AlignUp(area + sz, 8) <= AlignUp(a + sz, 8) /\ AlignUp(area + sz, 8) \in Nat
          /\ AlignUp(a + sz, 8) \in Nat
      <4>1. area + sz \in Nat /\ a + sz \in Nat /\ area + sz <= a + sz
        BY <1>4, <1>5, <1>6, <1>12
      <4> QED
        BY <4>1, AlignUpEightMore, AlignUpEight
    <3>3. Fit(area)
      BY <1>2, <1>12, <3>2
    <3>4. area \in places
      <4>1. 0 \in 0..(size \div al) /\ area = first + 0 * al
        BY <1>3, <1>4, <3>1
      <4> QED
        BY <1>9, <3>3, <4>1
    <3>5. a <= area
      BY <1>11, <3>4, Zenon
    <3> QED
      BY <1>5, <1>6, <1>12, <1>15, <3>5
  <2>2. a % 8 = 0
    BY <1>4, <1>b, <2>1, EightDivides, Zenon
  <2>3. PICK up \in Nat : up = AlignUp(sz, 8) /\ up >= 16
    BY <1>4, <2>1, AlignUpEight, AlignUpEightMore, Zenon
  <2>4. AlignedSize(l) = up
    BY <1>4, <2>3 DEF AlignedSize, MaxOf
  <2>5. AlignUp(a + sz, 8) = a + up
    BY <1>4, <2>2, <2>3, AlignUpEightMore, Zenon
  <2>6. PICK at \in Nat : at = a - 16 /\ at >= b + 32 /\ at % 8 = 0
    BY <1>3, <1>5, <1>12, <1>15, <2>2
  <2>7. at + 16 + up + 16 <= end
    BY <1>12, <2>5, <2>6
  <2>8. (at + 16) % l.align = 0
    BY <1>4, <1>13, <2>6
  <2>9. PlaceInside(D, s, lv, b, at, l)
    BY <1>2, <2>4, <2>6, <2>7, <2>8 DEF PlaceInside
  <2>10. ~(l.align <= 8)
    BY <1>4, <2>1
  <2> QED
    BY <1>8, <1>11, <2>6, <2>9, <2>10 DEF Placed
<1> QED
  BY <1>14, <1>15

(* A multiple of n below the one after y * n is at most y * n. *)
LEMMA MultipleOrder ==
  ASSUME NEW x \in Nat, NEW y \in Nat, NEW n \in Nat \ {0}, x * n < y * n + n
  PROVE  x <= y
<1> SUFFICES ASSUME x >= y + 1 PROVE FALSE
  OBVIOUS
<1>1. PICK d \in Nat : x = y + 1 + d
  <2>1. x - y - 1 \in Nat
    OBVIOUS
  <2> QED
    BY <2>1
<1>2. x * n = y * n + n + d * n
  BY <1>1
<1>3. PICK u \in Nat, v \in Nat : u = y * n /\ v = d * n
  BY <1>1
<1>4. u + n + v < u + n
  BY <1>2, <1>3, Zenon
<1> QED
  BY <1>3, <1>4

(* The m-th multiple of al lies in the size bytes from area on. *)
Within(area, size, al, m) ==
  /\ area \in Nat /\ size \in Nat /\ al \in Nat \ {0} /\ m \in Nat
  /\ area <= m * al /\ m * al <= area + size

(* check_aligned_fit meets it on its way. *)
Reached(area, size, al, m) ==
  \E k \in 0..(size \div al) : m * al = AlignUp(area, al) + k * al

(* check_aligned_fit steps far enough to meet every aligned place of the   *)
(* block.                                                                  *)
LEMMA StepsReach ==
  ASSUME NEW area, NEW size, NEW al, NEW m, Within(area, size, al, m)
  PROVE  Reached(area, size, al, m)
<1> USE DEF Within
<1>1. PICK j \in Nat : AlignUp(area, al) = j * al
  BY AlignUpFacts, Zenon
<1>2. PICK a \in Nat, first \in Nat : a = m * al /\ first = j * al
  BY <1>1
<1>3. first >= area /\ first < area + al
  BY <1>1, <1>2, AlignUpFacts, Zenon
<1>4. j <= m
  <2>1. first < a + al
    BY <1>2, <1>3
  <2> QED
    BY <1>1, <1>2, <2>1, MultipleOrder, Zenon
<1>5. PICK k \in Nat : m = j + k
  <2>1. m - j \in Nat
    BY <1>1, <1>4
  <2> QED
    BY <1>1, <2>1
<1>6. PICK y \in Nat : y = k * al /\ a = first + y
  BY <1>2, <1>5
<1>7. y <= size
  BY <1>2, <1>3, <1>6
<1>8. PICK q \in Nat, r \in Nat : q = size \div al /\ size = q * al + r /\ r < al
  <2>1. size \div al \in Nat /\ size % al \in Nat /\ size % al < al
    OBVIOUS
  <2>2. size = (size \div al) * al + (size % al)
    OBVIOUS
  <2> QED
    BY <2>1, <2>2, Zenon
<1>9. PICK z \in Nat : z = q * al
  BY <1>8
<1>10. y < z + al
  BY <1>7, <1>8, <1>9
<1>11. k <= q
  BY <1>6, <1>8, <1>9, <1>10, MultipleOrder, Zenon
<1>12. k \in 0..(size \div al)
  BY <1>5, <1>8, <1>11
<1> QED
  BY <1>1, <1>2, <1>6, <1>12, Zenon DEF Reached

(* check_aligned_fit finds a place when there is one. *)
LEMMA FitExists ==
  ASSUME CountingLaws, NEW D, NEW s, NEW lv, HeapOK(D, s, lv), NEW b \in FreeBlocks(s),
         NEW l \in Layouts, NEW m \in Nat, NEW c \in Nat, c = m * l.align,
         AlignUp(c + l.size, 8) + 16 <= EndPtr(s, b),
         c = b + 16 \/ c - (b + 16) >= 32
  PROVE  CheckAlignedFit(s, b, l) # Null
<1>1. D \in SUBSET Nat /\ s \in HeapState(D) /\ Tiles(s) /\ b \in D
  BY Zenon DEF HeapOK, HeapCore, HeapState, FreeBlocks
<1>2. PICK end \in Int, size \in Int : end = EndPtr(s, b) /\ size = s.hdr[b].size
  BY <1>1, TilesFacts
<1>3. b \in Nat /\ end = b + 16 + size /\ end >= b + 32
  <2>1. EndPtr(s, b) = b + 16 + s.hdr[b].size /\ EndPtr(s, b) >= b + 32
    BY <1>1, BlockPlace, Zenon
  <2> QED
    BY <1>1, <1>2, <2>1, Zenon
<1>4. PICK al \in Nat \ {0}, sz \in Nat \ {0} : al = l.align /\ sz = l.size
  BY LayoutFacts, Zenon
<1>5. PICK area \in Nat : area = b + 16 /\ area = AllocArea(b)
  BY <1>3 DEF AllocArea
<1>6. PICK first \in Nat : first = AlignUp(area, al) /\ first >= area
  BY <1>4, <1>5, AlignUpFacts, Zenon
<1> DEFINE places == {a \in {AlignUp(AllocArea(b), l.align) + k * l.align :
                               k \in 0..(s.hdr[b].size \div l.align)} :
                        /\ AlignUp(a + l.size, 8) + 16 <= EndPtr(s, b)
                        /\ \/ a = AllocArea(b)
                           \/ a - AllocArea(b) >= 32}
<1>7. CheckAlignedFit(s, b, l) = IF places = {} THEN -1 ELSE Min(places) - 16
  BY DEF CheckAlignedFit
<1>8. \A a : a \in places => \E k \in 0..(size \div al) : a = first + k * al
  BY <1>2, <1>4, <1>5, <1>6, Zenon
<1>9. c \in places
  <2>1. AlignUp(c + sz, 8) \in Nat /\ AlignUp(c + sz, 8) >= c + sz
    BY <1>4, AlignUpEight
  <2>2. area <= m * al /\ m * al <= area + size /\ size \in Nat
    BY <1>2, <1>3, <1>4, <1>5, <2>1
  <2>3. Reached(area, size, al, m)
    <3>1. Within(area, size, al, m)
      BY <2>2, Zenon DEF Within
    <3> QED
      BY <3>1, StepsReach, Zenon
  <2> QED
    BY <1>2, <1>4, <1>5, <2>3, Zenon DEF Reached
<1> HIDE DEF places
<1>10. \A k \in 0..(size \div al) : k \in Nat /\ k * al \in Nat /\ first + k * al \in Nat
  BY <1>4, <1>6
<1>11. places \in SUBSET Nat /\ \A a \in places : a >= first
  <2>1. \A k \in 0..(size \div al) : first + k * al >= first
    BY <1>6, <1>10
  <2> QED
    BY <1>8, <1>10, <2>1, Zenon
<1>12. Min(places) \in places
  BY <1>9, <1>11, MinNat, Zenon
<1>13. PICK x \in Nat : x = Min(places) /\ x >= first
  BY <1>11, <1>12, Zenon
<1>14. CheckAlignedFit(s, b, l) = x - 16
  BY <1>7, <1>9, <1>13, Zenon
<1> QED
  BY <1>3, <1>5, <1>6, <1>13, <1>14

(* find_fit's test of one block. *)
LEMMA FitPlace ==
  ASSUME CountingLaws, NEW D, NEW s, NEW lv, HeapOK(D, s, lv), NEW b \in FreeBlocks(s),
         NEW l \in Layouts, FitIn(s, b, l) # Null
  PROVE  Placed(D, s, lv, b, FitIn(s, b, l), l)
<1>1. CASE l.align <= 8
  <2>1. FitIn(s, b, l) = b /\ s.hdr[b].size >= AlignUp(l.size, 8)
    BY <1>1, Zenon DEF FitIn
  <2>2. /\ D \in SUBSET Nat /\ s \in HeapState(D) /\ Tiles(s) /\ b \in D
    BY Zenon DEF HeapOK, HeapCore, HeapState, FreeBlocks
  <2>3. b \in Nat /\ b % 8 = 0
    BY <2>2, TilesFacts, Zenon
  <2>4. b + 16 \in Nat /\ (b + 16) % 8 = 0
    BY <2>3
  <2>5. (b + 16) % l.align = 0
    BY <1>1, <2>4, SmallAlign
  <2> QED
    BY <2>1, <2>5, Zenon DEF Placed
<1>2. CASE ~(l.align <= 8)
  <2>1. FitIn(s, b, l) = CheckAlignedFit(s, b, l)
    BY <1>2, Zenon DEF FitIn
  <2>2. Placed(D, s, lv, b, CheckAlignedFit(s, b, l), l)
    BY <2>1, AlignedFitPlace
  <2> QED
    BY <2>1, <2>2, Zenon
<1> QED
  BY <1>1, <1>2, Zenon

(* find_fit walks the whole free list, and returns a block of it that fits. *)
LEMMA FirstFitFacts ==
  ASSUME CountingLaws, NEW D, NEW s, NEW lv, HeapOK(D, s, lv), NEW l
  PROVE  /\ FirstFit(s, l) # Null =>
              FirstFit(s, l) \in FreeBlocks(s) /\ FitIn(s, FirstFit(s, l), l) # Null
         /\ FirstFit(s, l) = Null => \A b \in FreeBlocks(s) : FitIn(s, b, l) = Null
<1>1. PICK F : F = FreeBlocks(s)
  BY Zenon
<1>2. D \in SUBSET Nat /\ IsFiniteSet(D) /\ s \in HeapState(D) /\ FreeOK(s, F) /\ F \in SUBSET D
  BY <1>1, ListedFinite, Zenon DEF HeapOK, HeapCore, HeapState, FreeBlocks
<1>3. PICK n \in Nat : \E f \in [1..n -> F] : FreeChain(s, F, n, f)
  BY <1>2, Zenon DEF FreeOK
<1>4. PICK f \in [1..n -> F] : FreeChain(s, F, n, f)
  BY <1>3, Zenon
<1>5. FreeList(s) = f
  BY <1>2, <1>4, FreeListIsChain
<1>6. DOMAIN f = 1..n /\ \A b \in F : \E i \in 1..n : f[i] = b
  BY <1>4, Zenon DEF FreeChain
<1> DEFINE fits == {i \in 1..n : FitIn(s, f[i], l) # Null}
<1>7. FirstFit(s, l) = IF fits = {} THEN Null ELSE f[Min(fits)]
  BY <1>5, <1>6 DEF FirstFit
<1>8. CASE fits = {}
  <2>1. \A b \in F : FitIn(s, b, l) = Null
    BY <1>6, <1>8, Zenon
  <2> QED
    BY <1>1, <1>7, <1>8, <2>1
<1>9. CASE fits # {}
  <2>1. PICK i : i = Min(fits)
    BY Zenon
  <2>2. i \in fits
    BY <1>9, <2>1, MinNat
  <2>3. f[i] \in F /\ FitIn(s, f[i], l) # Null
    BY <1>4, <2>2, Zenon
  <2>4. f[i] # Null
    BY <1>2, <2>3
  <2> QED
    BY <1>1, <1>7, <1>9, <2>1, <2>3, <2>4
<1> QED
  BY <1>8, <1>9, Zenon

-----------------------------------------------------------------------------

-----------------------------------------------------------------------------
(* While no split has torn the blocks the heap is in order for exactly the *)
(* allocations callers hold, and it ends with a page.                      *)
Ordered(s, lv) ==
  (\E D : HeapOK(D, s, lv)) /\ \E k \in Nat : s.heap_end = k * PageSize

(* The counters and flags stay in range, torn or not. *)
Bounds ==
  /\ spare \in 0..SparePages
  /\ panicked \in BOOLEAN /\ torn \in BOOLEAN
  /\ wear \in 0..MaxWear

(* The inductive invariant. *)
HInv == Bounds /\ (~torn => Ordered(h, live))

(* What growth takes from the page allocator, in bytes. *)
LEMMA GrowthPaid ==
  ASSUME Bounds, NEW l \in Layouts, NEW n, n = GrowBytes(l), ~(n > spare * PageSize)
  PROVE  /\ spare - n \div PageSize \in 0..SparePages
         /\ (spare - n \div PageSize) * PageSize \in Nat
         /\ (spare - n \div PageSize) * PageSize + n = spare * PageSize
<1>1. n \in Nat /\ \E k \in Nat : n = k * PageSize
  BY GrowBytesFacts, Zenon
<1>2. PICK k \in Nat : n = k * PageSize
  BY <1>1, Zenon
<1>3. PICK sp \in 0..SparePages : sp = spare
  BY Zenon DEF Bounds
<1>4. sp * PageSize \in Int
  BY <1>3, HeapAssumption
<1>5. n <= sp * PageSize
  BY <1>1, <1>3, <1>4
<1> QED
  BY <1>2, <1>3, <1>5, PagesTaken, Zenon

(* Every step keeps the counters in range, and a torn heap stays torn. *)
LEMMA BoundsStep ==
  ASSUME Bounds, [Next]_vars
  PROVE  Bounds' /\ (torn => torn')
<1>1. ASSUME Wears PROVE wear' \in 0..MaxWear
  <2>1. wear \in 0..MaxWear /\ torn \in BOOLEAN /\ MaxWear \in Nat
    BY BoundAssumption, Zenon DEF Bounds
  <2>2. (torn => wear < MaxWear) /\ wear' = IF torn THEN wear + 1 ELSE wear
    BY <1>1, Zenon DEF Wears
  <2>3. CASE torn
    BY <2>1, <2>2, <2>3
  <2>4. CASE ~torn
    BY <2>1, <2>2, <2>4, Zenon
  <2> QED
    BY <2>3, <2>4, Zenon
<1>2. ASSUME NEW s, NEW this, NEW at, NEW l, Commit(s, this, at, l)
      PROVE  panicked' \in BOOLEAN /\ torn' \in BOOLEAN /\ (torn => torn')
  BY <1>2, Zenon DEF Commit, Bounds, Tears
<1>3. ASSUME NEW l \in Layouts, AllocFit(l) PROVE Bounds' /\ (torn => torn')
  <2>1. /\ Wears /\ spare' = spare
        /\ Commit(h, FirstFit(h, l), FitIn(h, FirstFit(h, l), l), l)
    BY <1>3, Zenon DEF AllocFit
  <2>2. panicked' \in BOOLEAN /\ torn' \in BOOLEAN /\ (torn => torn')
    BY <1>2, <2>1, Zenon
  <2> QED
    BY <1>1, <2>1, <2>2, Zenon DEF Bounds
<1>4. ASSUME NEW l \in Layouts, AllocGrow(l) PROVE Bounds' /\ (torn => torn')
  <2>1. PICK n : n = GrowBytes(l)
    BY Zenon
  <2>2. PICK s : s = Grow(h, n)
    BY Zenon
  <2>3. PICK at : at = CheckAlignedFit(s, s.tail, l)
    BY Zenon
  <2>4. /\ Wears
        /\ IF n > spare * PageSize
           THEN panicked' = TRUE /\ UNCHANGED <<h, spare, live, torn>>
           ELSE /\ spare' = spare - n \div PageSize
                /\ IF at = Null
                   THEN panicked' = TRUE /\ h' = s /\ UNCHANGED <<live, torn>>
                   ELSE Commit(s, s.tail, at, l)
    BY <1>4, <2>1, <2>2, <2>3 DEF AllocGrow
  <2>5. spare' \in 0..SparePages
    <3>1. CASE n > spare * PageSize
      BY <2>4, <3>1, Zenon DEF Bounds
    <3>2. CASE ~(n > spare * PageSize)
      BY <2>1, <2>4, <3>2, GrowthPaid, Zenon
    <3> QED
      BY <3>1, <3>2, Zenon
  <2>6. panicked' \in BOOLEAN /\ torn' \in BOOLEAN /\ (torn => torn')
    BY <1>2, <2>4, Zenon DEF Bounds
  <2> QED
    BY <1>1, <2>4, <2>5, <2>6, Zenon DEF Bounds
<1>5. ASSUME NEW p \in DOMAIN live, Dealloc(p) PROVE Bounds' /\ (torn => torn')
  <2>1. Wears /\ spare' = spare /\ panicked' = panicked /\ torn' = torn
    BY <1>5, Zenon DEF Dealloc
  <2> QED
    BY <1>1, <2>1, Zenon DEF Bounds
<1>6. CASE vars' = vars
  <2>1. spare' = spare /\ panicked' = panicked /\ torn' = torn /\ wear' = wear
    BY <1>6, Zenon DEF vars
  <2> QED
    BY <2>1, Zenon DEF Bounds
<1> QED
  BY <1>3, <1>4, <1>5, <1>6, Zenon DEF Next

(* The memory a caller gets is what Allocator promises. *)
LEMMA HandedOutAlloc ==
  ASSUME NEW s, NEW p, NEW l \in Layouts, HandedOut(s, live, p, l),
         live' = Holding(live, p, l), h'.heap_end = s.heap_end,
         ~panicked, ~panicked', Promise!Grows
  PROVE  Promise!AAlloc(l)
<1>1. DOMAIN live' = DOMAIN live \cup {p}
  BY Zenon DEF Holding
<1>2. p \in (DOMAIN live') \ DOMAIN live
  BY <1>1, Zenon DEF HandedOut
<1>3. live' = [q \in DOMAIN live \cup {p} |-> IF q = p THEN l ELSE live[q]]
  BY Zenon DEF Holding
<1>4. \A q \in DOMAIN live : Promise!Apart(p, l, q, live[q])
  BY Zenon DEF HandedOut, Promise!Apart
<1>5. p \in Nat /\ p >= HeapStart /\ p % l.align = 0 /\ p + l.size <= h'.heap_end
  BY Zenon DEF HandedOut
<1> QED
  BY <1>2, <1>3, <1>4, <1>5, Zenon DEF Promise!AAlloc

(* alloc from a place found, in the heap as it was or as it has grown. *)
LEMMA CommitStep ==
  ASSUME NEW D, NEW s, NEW this, NEW at, NEW l \in Layouts,
         HeapOK(D, s, live), this \in FreeBlocks(s),
         Placed(D, s, live, this, at, l), ~panicked, ~torn,
         \E k \in Nat : s.heap_end = k * PageSize,
         s.heap_end >= h.heap_end, spare' * PageSize \in Nat,
         s.heap_end + spare' * PageSize = h.heap_end + spare * PageSize,
         Commit(s, this, at, l)
  PROVE  /\ ~torn' => Ordered(h', live')
         /\ Promise!AAlloc(l)
         /\ this = at => ~torn'
<1>1. PICK t, lv : t = h' /\ lv = live
  BY Zenon
<1>2. t = SplitBlock(s, this, at, l)
  BY <1>1, Zenon DEF Commit
<1>3. HeapOK(D, s, lv) /\ Placed(D, s, lv, this, at, l)
  BY <1>1
<1>4. /\ t.heap_end = s.heap_end
      /\ ~Tears(s, this, at, l) => \E G : HeapOK(G, t, Holding(lv, at + 16, l))
  BY <1>2, <1>3, SplitOK
<1>5. HandedOut(s, lv, at + 16, l)
  BY <1>3, PlacedApart, Zenon
<1>6. /\ live' = Holding(live, at + 16, l)
      /\ torn' = Tears(s, this, at, l) /\ panicked' = panicked
  <2>1. live' = Holding(live, at + 16, l) /\ panicked' = panicked
    BY Zenon DEF Commit, Holding, AllocArea
  <2>2. torn' = (torn \/ Tears(s, this, at, l)) /\ Tears(s, this, at, l) \in BOOLEAN
    BY Zenon DEF Commit, Tears
  <2> QED
    BY <2>1, <2>2, Zenon
<1>7. ~torn' => \E G : HeapOK(G, h', live')
  BY <1>1, <1>4, <1>6
<1>8. ~torn' => Ordered(h', live')
  BY <1>1, <1>4, <1>7, Zenon DEF Ordered
<1>9. s.heap_end \in Nat
  BY <1>3, EndNat, Zenon
<1>10. Promise!Grows
  BY <1>1, <1>4, <1>9, Zenon DEF Promise!Grows
<1>11. Promise!AAlloc(l)
  BY <1>1, <1>4, <1>5, <1>6, <1>10, HandedOutAlloc, Zenon
<1>12. this = at => ~torn'
  BY <1>6, Zenon DEF Tears
<1> QED
  BY <1>8, <1>11, <1>12, Zenon

(* alloc that finds a block. *)
LEMMA AllocFitStep ==
  ASSUME CountingLaws, HInv, ~torn, NEW l \in Layouts, AllocFit(l)
  PROVE  /\ ~torn' => Ordered(h', live')
         /\ Promise!AAlloc(l)
         /\ l.align <= 8 => ~torn'
<1>1. spare' = spare /\ ~panicked
  BY Zenon DEF AllocFit, MayAlloc, Running
<1>2. PICK D : HeapOK(D, h, live)
  BY Zenon DEF HInv, Ordered
<1>3. PICK s : s = h
  BY Zenon
<1>4. PICK this : this = FirstFit(s, l)
  BY Zenon
<1>5. PICK at : at = FitIn(s, this, l)
  BY Zenon
<1>6. this # Null /\ Commit(s, this, at, l)
  BY <1>3, <1>4, <1>5 DEF AllocFit
<1>7. this \in FreeBlocks(s) /\ at # Null
  BY <1>2, <1>3, <1>4, <1>5, <1>6, FirstFitFacts
<1>8. Placed(D, s, live, this, at, l)
  BY <1>2, <1>3, <1>5, <1>7, FitPlace
<1>9. \E k \in Nat : s.heap_end = k * PageSize
  BY <1>3, Zenon DEF HInv, Ordered
<1>10. s.heap_end \in Nat
  BY <1>2, <1>3, EndNat, Zenon
<1>11. spare' * PageSize \in Nat
  <2>1. spare \in 0..SparePages /\ PageSize \in Nat /\ SparePages \in Nat
    BY HeapAssumption, Zenon DEF HInv, Bounds
  <2> QED
    BY <1>1, <2>1
<1>12. /\ s.heap_end >= h.heap_end
       /\ s.heap_end + spare' * PageSize = h.heap_end + spare * PageSize
  BY <1>1, <1>3, <1>10
<1>13. /\ ~torn' => Ordered(h', live')
       /\ Promise!AAlloc(l)
       /\ this = at => ~torn'
  BY <1>1, <1>2, <1>3, <1>6, <1>7, <1>8, <1>9, <1>11, <1>12, CommitStep
<1>14. l.align <= 8 => this = at
  BY <1>5, <1>7, Zenon DEF FitIn
<1> QED
  BY <1>13, <1>14, Zenon

(* The grown last block holds every request that is Served. *)
LEMMA TailServes ==
  ASSUME CountingLaws, Served, NEW E, NEW s, NEW lv, HeapOK(E, s, lv),
         s.tail \in FreeBlocks(s), NEW l \in Layouts, NEW end \in Nat,
         NEW k \in Nat, end = k * PageSize, s.tail <= end,
         s.heap_end = end + GrowBytes(l)
  PROVE  CheckAlignedFit(s, s.tail, l) # Null
<1>1. E \in SUBSET Nat /\ s \in HeapState(E) /\ Tiles(s)
  BY Zenon DEF HeapOK, HeapCore
<1>2. PICK b \in Nat : b = s.tail /\ b % 8 = 0 /\ b <= end
  <2>1. s.tail \in E
    BY <1>1, LastBlock, Zenon
  <2> QED
    BY <1>1, <2>1, BlockPlace, Zenon
<1>3. PICK n \in Nat : n = GrowBytes(l)
  BY GrowBytesFacts, Zenon
<1>4. EndPtr(s, b) = end + n
  BY <1>1, <1>2, <1>3, LastBlock, Zenon
<1>5. PICK al \in Nat \ {0}, sz \in Nat \ {0} :
        al = l.align /\ sz = l.size /\ (al \in {1, 2, 4, 8} \/ (al % 8 = 0 /\ sz > 8))
  BY LayoutFacts, Zenon
<1>6. PICK up \in Nat : up = AlignUp(sz, 8)
  BY <1>5, AlignUpEight, Zenon
<1>7. CASE al <= 8
  <2>1. 32 + up <= n
    <3>1. 2 * 16 + AlignUp(l.size, 8) <= GrowBytes(l)
      BY <1>5, <1>7, Zenon DEF Served
    <3> QED
      BY <1>3, <1>5, <1>6, <3>1
  <2>2. PICK c \in Nat : c = b + 16 /\ c % 8 = 0
    BY <1>2
  <2>3. AlignUp(c + sz, 8) = c + up
    BY <1>5, <1>6, <2>2, AlignUpEightMore, Zenon
  <2>4. AlignUp(c + sz, 8) + 16 <= EndPtr(s, b)
    BY <1>2, <1>4, <2>1, <2>2, <2>3
  <2>5. c % al = 0
    BY <1>5, <1>7, <2>2, SmallAlign, Zenon
  <2>6. PICK m \in Nat : c = m * al
    <3>1. c \div al \in Nat /\ c = (c \div al) * al
      BY <2>5
    <3> QED
      BY <3>1, Zenon
  <2> QED
    BY <1>2, <1>5, <2>2, <2>4, <2>6, FitExists, Zenon
<1>8. CASE ~(al <= 8)
  <2>1. PICK w \in Nat : w = AlignUp(48, al) /\ w >= 48 /\ \E i \in Nat : w = i * al
    <3>1. PICK x \in Nat : x = 48
      OBVIOUS
    <3>2. /\ AlignUp(x, al) \in Nat /\ AlignUp(x, al) >= x
          /\ \E i \in Nat : AlignUp(x, al) = i * al
      BY AlignUpFacts, Zenon
    <3> QED
      BY <3>1, <3>2
  <2>2. PICK i \in Nat : w = i * al
    BY <2>1, Zenon
  <2>3. PageSize % al = 0 /\ w + up + 16 <= n
    <3>1. /\ PageSize % l.align = 0
          /\ AlignUp(16 + (16 + 16), l.align) + AlignUp(l.size, 8) + 16 <= GrowBytes(l)
      BY <1>5, <1>8, Zenon DEF Served
    <3>2. 16 + (16 + 16) = 48
      OBVIOUS
    <3> QED
      BY <1>3, <1>5, <1>6, <2>1, <3>1, <3>2, Zenon
  <2>4. PICK j \in Nat : PageSize = j * al
    <3>1. PageSize \in Nat
      BY HeapAssumption, Zenon
    <3>2. PageSize \div al \in Nat /\ PageSize = (PageSize \div al) * al
      BY <2>3, <3>1
    <3> QED
      BY <3>2, Zenon
  <2>5. PICK c \in Nat : c = end + w
    OBVIOUS
  <2>6. k * j + i \in Nat /\ c = (k * j + i) * al
    BY <2>2, <2>4, <2>5
  <2>a. al % 8 = 0
    BY <1>5, <1>8
  <2>7. c % 8 = 0
    BY <2>6, <2>a, EightDivides, Zenon
  <2>8. AlignUp(c + sz, 8) = c + up
    BY <1>5, <1>6, <2>7, AlignUpEightMore, Zenon
  <2>9. AlignUp(c + sz, 8) + 16 <= EndPtr(s, b)
    BY <1>4, <2>3, <2>5, <2>8
  <2>10. c - (b + 16) >= 32
    BY <1>2, <2>1, <2>5
  <2> QED
    BY <1>2, <1>5, <2>6, <2>9, <2>10, FitExists, Zenon
<1> QED
  BY <1>7, <1>8, Zenon

(* alloc that takes new pages, or panics. *)
LEMMA AllocGrowStep ==
  ASSUME CountingLaws, HInv, ~torn, NEW l \in Layouts, AllocGrow(l)
  PROVE  /\ ~torn' => Ordered(h', live')
         /\ Served => Promise!AAlloc(l) \/ Promise!AFail(l)
         /\ l.align <= 8 => ~torn'
<1>1. ~panicked /\ Bounds
  BY Zenon DEF AllocGrow, MayAlloc, Running, HInv
<1>2. PICK D : HeapOK(D, h, live)
  BY Zenon DEF HInv, Ordered
<1>3. PICK n : n = GrowBytes(l)
  BY Zenon
<1>4. PICK s, lv : s = Grow(h, n) /\ lv = live
  BY Zenon
<1>5. PICK at : at = CheckAlignedFit(s, s.tail, l)
  BY Zenon
<1>6. IF n > spare * PageSize
      THEN panicked' = TRUE /\ UNCHANGED <<h, spare, live, torn>>
      ELSE /\ spare' = spare - n \div PageSize
           /\ IF at = Null THEN panicked' = TRUE /\ h' = s /\ UNCHANGED <<live, torn>>
                           ELSE Commit(s, s.tail, at, l)
  BY <1>3, <1>4, <1>5 DEF AllocGrow
<1>7. PICK end \in Nat, k \in Nat : end = h.heap_end /\ end = k * PageSize
  BY <1>2, EndNat, Zenon DEF HInv, Ordered
<1>8. /\ n \in Nat /\ n % 8 = 0 /\ n >= 32 /\ \E j \in Nat : n = j * PageSize
      /\ n <= l.size + l.align + (PageSize + 16)
  BY <1>3, GrowBytesFacts, Zenon
<1>9. /\ \E E : HeapOK(E, s, lv)
      /\ s.tail \in FreeBlocks(s) /\ s.heap_end = end + n /\ s.tail <= end
  <2>1. PICK g : g = h
    BY Zenon
  <2>2. Grown(D, g, lv, n, s)
    BY <1>2, <1>4, <1>8, <2>1, Zenon DEF Grown
  <2>3. /\ \E E : HeapOK(E, s, lv)
        /\ s.tail \in FreeBlocks(s) /\ s.heap_end = g.heap_end + n
        /\ s.tail <= g.heap_end
    BY <2>2, GrowOK
  <2> QED
    BY <1>7, <2>1, <2>3, Zenon
<1>10. \E i \in Nat : s.heap_end = i * PageSize
  <2>1. PICK j \in Nat : n = j * PageSize
    BY <1>8, Zenon
  <2>2. k + j \in Nat /\ k * PageSize + j * PageSize = (k + j) * PageSize
    BY HeapAssumption
  <2> QED
    BY <1>7, <1>9, <2>1, <2>2, Zenon
<1>11. CASE n > spare * PageSize
  <2>1. panicked' = TRUE /\ h' = h /\ spare' = spare /\ live' = live /\ torn' = torn
    BY <1>6, <1>11, Zenon
  <2>2. ~torn' /\ Ordered(h', live')
    BY <2>1, Zenon DEF HInv
  <2>3. spare * PageSize < l.size + l.align + (PageSize + 16)
    <3>1. spare \in Nat /\ PageSize \in Nat
      BY <1>1, HeapAssumption DEF Bounds
    <3>2. spare * PageSize \in Nat /\ l.size \in Nat /\ l.align \in Nat
      BY <3>1, LayoutFacts
    <3> QED
      BY <1>8, <1>11, <3>1, <3>2
  <2>4. Promise!AFail(l)
    BY <1>1, <2>1, <2>3, Zenon DEF Promise!AFail
  <2> QED
    BY <2>2, <2>4, Zenon
<1>12. CASE ~(n > spare * PageSize)
  <2>1. /\ spare' = spare - n \div PageSize
        /\ spare' * PageSize \in Nat
        /\ spare' * PageSize + n = spare * PageSize
    BY <1>1, <1>3, <1>6, <1>12, GrowthPaid, Zenon
  <2>2. CASE at = Null
    <3>1. panicked' = TRUE /\ h' = s /\ live' = live /\ torn' = torn
      BY <1>6, <1>12, <2>2, Zenon
    <3>2. ~torn' /\ Ordered(h', live')
      BY <1>4, <1>9, <1>10, <3>1, Zenon DEF Ordered
    <3>3. ~Served
      BY <1>3, <1>5, <1>7, <1>9, <2>2, TailServes, Zenon
    <3> QED
      BY <3>2, <3>3, Zenon
  <2>3. CASE at # Null
    <3>1. Commit(s, s.tail, at, l)
      BY <1>6, <1>12, <2>3, Zenon
    <3>2. PICK E : HeapOK(E, s, lv)
      BY <1>9, Zenon
    <3>3. Placed(E, s, lv, s.tail, at, l) /\ (l.align <= 8 => at = s.tail)
      BY <1>5, <1>9, <2>3, <3>2, AlignedFitPlace
    <3>4. HeapOK(E, s, live) /\ Placed(E, s, live, s.tail, at, l)
      BY <1>4, <3>2, <3>3
    <3>5. /\ s.heap_end >= h.heap_end
          /\ s.heap_end + spare' * PageSize = h.heap_end + spare * PageSize
      BY <1>7, <1>8, <1>9, <2>1
    <3>6. /\ ~torn' => Ordered(h', live')
          /\ Promise!AAlloc(l)
          /\ s.tail = at => ~torn'
      BY <1>1, <1>9, <1>10, <2>1, <3>1, <3>4, <3>5, CommitStep, Zenon
    <3> QED
      BY <3>3, <3>6, Zenon
  <2> QED
    BY <2>2, <2>3, Zenon
<1> QED
  BY <1>11, <1>12, Zenon

(* dealloc of a pointer a caller holds. *)
LEMMA DeallocStep ==
  ASSUME HInv, ~torn, NEW p \in DOMAIN live, Dealloc(p)
  PROVE  ~torn' /\ Ordered(h', live') /\ Promise!ADealloc
<1>1. /\ spare' = spare /\ panicked' = panicked /\ torn' = torn
      /\ ~panicked
  BY Zenon DEF Dealloc, Running
<1>2. PICK D : HeapOK(D, h, live)
  BY <1>1, Zenon DEF HInv, Ordered
<1>3. PICK s, t, lv : s = h /\ t = h' /\ lv = live
  BY Zenon
<1>4. t = DeallocAndCoalesce(s, p - BLOCK_HEADER_SIZE) /\ live' = Dropping(lv, p)
  BY <1>3, Zenon DEF Dealloc, Dropping
<1>5. (\E E : HeapOK(E, t, Dropping(lv, p))) /\ t.heap_end = s.heap_end
  BY <1>2, <1>3, <1>4, DeallocOK
<1>6. Ordered(h', live')
  BY <1>3, <1>4, <1>5, Zenon DEF HInv, Ordered
<1>7. Promise!ADealloc
  BY <1>1, <1>3, <1>4, <1>5, Zenon DEF Promise!ADealloc, Dropping
<1> QED
  BY <1>1, <1>6, <1>7, Zenon

(* init puts the heap in order. *)
LEMMA InitOK ==
  ASSUME Init
  PROVE  HInv
<1>1. PICK s, lv : s = h /\ lv = live
  BY Zenon
<1>2. DOMAIN lv = {}
  BY <1>1, Zenon DEF Init
<1>3. \E D : HeapOK(D, s, lv)
  BY <1>1, <1>2, NewHeapOK, Zenon DEF Init, NewHeap
<1>4. \E k \in Nat : s.heap_end = k * PageSize
  <2>1. PICK P \in Nat \ {0}, H \in Nat, N \in Nat :
          P = PageSize /\ H = HeapStart /\ N = InitPages /\ H % P = 0
    BY HeapAssumption
  <2>2. s.heap_end = H + N * P
    BY <1>1, <2>1, Zenon DEF Init
  <2>3. H \div P \in Nat /\ H = (H \div P) * P
    BY <2>1
  <2>4. (H \div P) + N \in Nat /\ H + N * P = ((H \div P) + N) * P
    BY <2>1, <2>3
  <2> QED
    BY <2>1, <2>2, <2>4, Zenon
<1>5. Bounds
  <2>1. spare = SparePages /\ SparePages \in Nat /\ wear = 0 /\ MaxWear \in Nat
    BY HeapAssumption, BoundAssumption, Zenon DEF Init
  <2>2. spare \in 0..SparePages /\ wear \in 0..MaxWear
    BY <2>1
  <2>3. panicked \in BOOLEAN /\ torn \in BOOLEAN
    BY Zenon DEF Init
  <2> QED
    BY <2>2, <2>3, Zenon DEF Bounds
<1> QED
  BY <1>1, <1>3, <1>4, <1>5, Zenon DEF HInv, Ordered

(* Every step keeps the invariant.  A step of a heap that is not torn is a *)
(* step of Allocator, or none, if the pages taken always serve; and it     *)
(* tears nothing if no layout asks for more than 8-byte alignment.         *)
LEMMA NextOK ==
  ASSUME CountingLaws, HInv, [Next]_vars
  PROVE  /\ HInv'
         /\ Served => [torn \/ Promise!ANext]_(Promise!avars)
         /\ (\A l \in Layouts : l.align <= 8) /\ ~torn => ~torn'
<1>1. Bounds' /\ (torn => torn')
  BY BoundsStep, Zenon DEF HInv
<1>2. CASE torn
  BY <1>1, <1>2, Zenon DEF HInv
<1>3. CASE ~torn
  <2>1. ASSUME NEW l \in Layouts, AllocFit(l)
        PROVE  (~torn' => Ordered(h', live')) /\ Promise!ANext /\ (l.align <= 8 => ~torn')
    BY <1>3, <2>1, AllocFitStep, Zenon DEF Promise!ANext
  <2>2. ASSUME NEW l \in Layouts, AllocGrow(l)
        PROVE  /\ ~torn' => Ordered(h', live')
               /\ Served => Promise!ANext
               /\ l.align <= 8 => ~torn'
    BY <1>3, <2>2, AllocGrowStep, Zenon DEF Promise!ANext
  <2>3. ASSUME NEW p \in DOMAIN live, Dealloc(p)
        PROVE  ~torn' /\ Ordered(h', live') /\ Promise!ANext
    BY <1>3, <2>3, DeallocStep, Zenon DEF Promise!ANext
  <2>4. ASSUME vars' = vars
        PROVE  ~torn' /\ Ordered(h', live') /\ UNCHANGED Promise!avars
    <3>1. h' = h /\ spare' = spare /\ live' = live /\ panicked' = panicked /\ torn' = torn
      BY <2>4, Zenon DEF vars
    <3> QED
      BY <1>3, <3>1, Zenon DEF HInv, Promise!avars
  <2>5. /\ ~torn' => Ordered(h', live')
        /\ Served => Promise!ANext \/ UNCHANGED Promise!avars
        /\ (\A l \in Layouts : l.align <= 8) => ~torn'
    BY <2>1, <2>2, <2>3, <2>4, Zenon DEF Next
  <2> QED
    BY <1>1, <2>5, Zenon DEF HInv
<1> QED
  BY <1>2, <1>3, Zenon
(* Headers hold possible values. *)
LEMMA HInvTypes ==
  ASSUME HInv
  PROVE  HTypeOK
<1> SUFFICES ASSUME ~torn
             PROVE  /\ \A b \in Blocks :
                         /\ b % 8 = 0
                         /\ h.hdr[b].size >= MIN_ALLOC_SIZE /\ h.hdr[b].size % 8 = 0
                         /\ {h.hdr[b].prev, h.hdr[b].free_next, h.hdr[b].free_prev} \subseteq Int
                         /\ h.hdr[b].used \in BOOLEAN
                    /\ {h.tail, h.heap_end} \subseteq Nat /\ h.free_head \in Int
                    /\ \A p \in DOMAIN live : p \in Nat /\ live[p] \in Layouts
  BY Zenon DEF HTypeOK, HInv, Bounds
<1>1. PICK D, s : s = h /\ HeapCore(D, s, live) /\ Shaped(D, s)
  BY OKShaped, Zenon DEF HInv, Ordered, HeapOK
<1>2. /\ D \in SUBSET Nat /\ s \in HeapState(D) /\ s.tail \in D /\ s.heap_end \in Nat
      /\ \A b \in D : b % 8 = 0 /\ s.hdr[b].size >= 16 /\ s.hdr[b].size % 8 = 0
  BY <1>1, Zenon DEF Shaped
<1>3. DOMAIN s.hdr = D /\ s.free_head \in Int /\ s.tail \in Nat
  BY <1>2, Zenon DEF HeapState
<1>4. ASSUME NEW b \in D
      PROVE  /\ s.hdr[b].prev \in Int /\ s.hdr[b].free_next \in Int
             /\ s.hdr[b].free_prev \in Int /\ s.hdr[b].used \in BOOLEAN
  <2>1. s.hdr[b] \in Header
    BY <1>2, Zenon DEF HeapState
  <2> QED
    BY <2>1, Zenon DEF Header
<1>5. \A b \in D : {s.hdr[b].prev, s.hdr[b].free_next, s.hdr[b].free_prev} \subseteq Int
  BY <1>4, Zenon
<1>6. \A p \in DOMAIN live : p \in Nat /\ live[p] \in Layouts
  BY <1>1, Zenon DEF HeapCore, LiveOK
<1> QED
  BY <1>1, <1>2, <1>3, <1>4, <1>5, <1>6, Zenon DEF Blocks

(* Tiles is what Linked says of the heap. *)
LEMMA HInvTiled ==
  ASSUME HInv
  PROVE  Tiled
<1> SUFFICES ASSUME ~torn PROVE Linked
  BY Zenon DEF Tiled
<1>1. PICK D, s : s = h /\ HeapOK(D, s, live)
  BY Zenon DEF HInv, Ordered
<1>2. D \in SUBSET Nat /\ s \in HeapState(D) /\ Tiles(s) /\ DOMAIN s.hdr = D
  BY <1>1, Zenon DEF HeapOK, HeapCore, HeapState
<1>3. /\ HeapStart \in D /\ s.tail \in D
      /\ s.hdr[HeapStart].prev = Null
      /\ EndPtr(s, s.tail) = s.heap_end
      /\ \A b \in D \ {s.tail} : EndPtr(s, b) \in D /\ s.hdr[EndPtr(s, b)].prev = b
      /\ \A b \in D \ {HeapStart} : s.hdr[b].prev \in D /\ EndPtr(s, s.hdr[b].prev) = b
  BY <1>2, TilesFacts
<1> QED
  BY <1>1, <1>2, <1>3, Zenon DEF Linked, Blocks

(* The free list is the chain of the free blocks. *)
LEMMA HInvFreeList ==
  ASSUME CountingLaws, HInv
  PROVE  FreeListExact
<1> SUFFICES ASSUME ~torn
             PROVE  LET f == FreeList(h) IN
                    /\ {f[i] : i \in DOMAIN f} = {b \in Blocks : IsFree(h, b)}
                    /\ Len(f) = Cardinality({b \in Blocks : IsFree(h, b)})
                    /\ \A i \in DOMAIN f :
                         h.hdr[f[i]].free_prev = IF i = 1 THEN Null ELSE f[i - 1]
                    /\ \A b \in Blocks \ {h.tail} :
                         ~(IsFree(h, b) /\ IsFree(h, EndPtr(h, b)))
  BY Zenon DEF FreeListExact
<1>1. PICK D, s : s = h /\ HeapOK(D, s, live)
  BY Zenon DEF HInv, Ordered
<1>2. PICK F : F = FreeBlocks(s)
  BY Zenon
<1>3. /\ D \in SUBSET Nat /\ IsFiniteSet(D) /\ s \in HeapState(D) /\ DOMAIN s.hdr = D
      /\ F \in SUBSET D /\ FreeOK(s, F) /\ Coalesced(s)
  BY <1>1, <1>2, ListedFinite DEF HeapOK, HeapCore, HeapState, FreeBlocks
<1>4. PICK n \in Nat : \E g \in [1..n -> F] : FreeChain(s, F, n, g)
  BY <1>3, Zenon DEF FreeOK
<1>5. PICK f \in [1..n -> F] : FreeChain(s, F, n, f)
  BY <1>4, Zenon
<1>6. FreeList(s) = f
  BY <1>3, <1>5, FreeListIsChain
<1>7. F = {b \in Blocks : IsFree(h, b)}
  BY <1>1, <1>2 DEF FreeBlocks, Blocks, IsFree
<1>8. /\ \A b \in F : \E i \in 1..n : f[i] = b
      /\ \A i, j \in 1..n : f[i] = f[j] => i = j
      /\ \A i \in 1..n : s.hdr[f[i]].free_prev = IF i = 1 THEN Null ELSE f[i - 1]
  BY <1>5, Zenon DEF FreeChain
<1>9. {f[i] : i \in DOMAIN f} = F
  BY <1>5, <1>8
<1>10. Len(f) = n
  <2>1. f \in Seq(F) /\ DOMAIN f = 1..n
    BY <1>4, <1>5
  <2> QED
    BY <1>4, <2>1
<1>11. Cardinality(F) = n
  <2>1. IsFiniteSet(1..n) /\ Cardinality(1..n) = n
    BY IntervalSize, Zenon
  <2>2. IsFiniteSet(F) /\ Cardinality(F) <= Cardinality(1..n)
    BY <1>8, <2>1, Zenon DEF CountingLaws, CardinalityOnto
  <2>3. Cardinality(1..n) <= Cardinality(F)
    BY <1>8, <2>2, Zenon DEF CountingLaws, CardinalityInto
  <2>4. Cardinality(F) \in Nat
    BY <2>2, Zenon DEF CountingLaws, CardinalityNat
  <2> QED
    BY <2>1, <2>2, <2>3, <2>4
<1>12. \A b \in Blocks \ {h.tail} : ~(IsFree(h, b) /\ IsFree(h, EndPtr(h, b)))
  BY <1>1, <1>3 DEF Coalesced, Blocks, IsFree
<1>13. /\ {f[i] : i \in DOMAIN f} = {b \in Blocks : IsFree(h, b)}
       /\ Len(f) = Cardinality({b \in Blocks : IsFree(h, b)})
  BY <1>7, <1>9, <1>10, <1>11
<1>14. \A i \in DOMAIN f : h.hdr[f[i]].free_prev = IF i = 1 THEN Null ELSE f[i - 1]
  BY <1>1, <1>5, <1>8
<1>15. f = FreeList(h)
  BY <1>1, <1>6
<1> QED
  BY <1>12, <1>13, <1>14, <1>15

(* A stretch of free memory between used blocks is one free block. *)
LEMMA FullBeforeGrowth ==
  ASSUME CountingLaws, HInv, ~torn, NEW l \in Layouts, l.align <= 8, AllocGrow(l)
  PROVE  ~ExtentServes(l)
<1>1. FirstFit(h, l) = Null
  BY Zenon DEF AllocGrow
<1>2. PICK D, s : s = h /\ HeapOK(D, s, live)
  BY Zenon DEF HInv, Ordered
<1>3. /\ D \in SUBSET Nat /\ s \in HeapState(D) /\ Tiles(s) /\ DOMAIN s.hdr = D
      /\ Coalesced(s)
  BY <1>2, Zenon DEF HeapOK, HeapCore, HeapState
<1>4. PICK n \in Nat : n = AlignUp(l.size, 8)
  BY LayoutFacts, AlignUpEight
<1>5. \A b \in D : ~s.hdr[b].used => ~(s.hdr[b].size >= n)
  <2>1. FirstFit(s, l) = Null
    BY <1>1, <1>2
  <2>2. \A b \in FreeBlocks(s) : FitIn(s, b, l) = Null
    BY <1>2, <2>1, FirstFitFacts
  <2>3. \A b \in D : b # Null
    BY <1>3
  <2>4. \A b \in FreeBlocks(s) : b # Null => ~(s.hdr[b].size >= n)
    BY <1>4, <2>2 DEF FitIn
  <2> QED
    BY <1>3, <2>3, <2>4 DEF FreeBlocks
<1>6. SUFFICES ASSUME NEW a \in UsedEnds, NEW z \in UsedStarts,
                      z - a >= 16 + n, \A c \in UsedStarts : c < a \/ c >= z
               PROVE  FALSE
  BY <1>4 DEF ExtentServes
<1>7. /\ s.heap_end \in UsedStarts
      /\ \A c \in D : s.hdr[c].used => c \in UsedStarts
  BY <1>2, <1>3 DEF UsedStarts, Blocks, IsFree
<1>8. /\ s.tail \in D /\ HeapStart \in D /\ EndPtr(s, s.tail) = s.heap_end
      /\ \A b \in D \ {s.tail} : EndPtr(s, b) \in D
      /\ \A b \in D : /\ EndPtr(s, b) = b + 16 + s.hdr[b].size
                      /\ s.hdr[b].size \in Int /\ s.hdr[b].size >= 16
  BY <1>3, TilesFacts
<1>9. a \in D \/ a = s.heap_end
  <2>1. a = HeapStart \/ \E b \in D : a = EndPtr(s, b)
    BY <1>2, <1>3, Zenon DEF UsedEnds, Blocks
  <2> QED
    BY <1>8, <2>1, Zenon
<1>10. z \in Int /\ s.heap_end \in Int
  <2>1. z = s.heap_end \/ z \in D
    BY <1>2, <1>3 DEF UsedStarts, Blocks
  <2>2. s.heap_end \in Int
    BY <1>3, Zenon DEF HeapState
  <2>3. z \in D => z \in Int
    BY <1>3
  <2> QED
    BY <2>1, <2>2, <2>3
<1>11. a \in Int
  <2>1. a \in D => a \in Int
    BY <1>3
  <2> QED
    BY <1>9, <1>10, <2>1
<1>12. a < z
  BY <1>6, <1>10, <1>11
<1>13. a \notin UsedStarts
  BY <1>6, <1>10, <1>11, <1>12
<1>14. a \in D /\ ~s.hdr[a].used
  BY <1>7, <1>9, <1>13
<1>15. EndPtr(s, a) \in UsedStarts
  <2>1. CASE a = s.tail
    BY <1>7, <1>8, <2>1
  <2>2. CASE a # s.tail
    <3>1. EndPtr(s, a) \in D /\ s.hdr[EndPtr(s, a)].used
      BY <1>3, <1>8, <1>14, <2>2 DEF Coalesced
    <3> QED
      BY <1>7, <3>1
  <2> QED
    BY <2>1, <2>2
<1>16. PICK e \in Int, v \in Int : e = EndPtr(s, a) /\ v = s.hdr[a].size /\ e = a + 16 + v /\ v >= 16
  <2>1. EndPtr(s, a) = a + 16 + s.hdr[a].size /\ s.hdr[a].size \in Int /\ s.hdr[a].size >= 16
    BY <1>8, <1>14, Zenon
  <2>2. PICK v \in Int : v = s.hdr[a].size
    BY <2>1, Zenon
  <2>3. a + 16 + v \in Int
    BY <1>11
  <2> QED
    BY <2>1, <2>2, <2>3, Zenon
<1>17. e >= z
  <2>1. e < a \/ e >= z
    BY <1>6, <1>15, <1>16
  <2> QED
    BY <1>11, <1>16, <2>1
<1>18. v >= n
  BY <1>6, <1>10, <1>11, <1>16, <1>17
<1> QED
  BY <1>5, <1>14, <1>16, <1>18

(* In a heap in order no byte belongs to two callers: a caller's bytes lie *)
(* in its block, and no block reaches into a later one.                    *)
LEMMA OrderedApart ==
  ASSUME HInv, ~torn
  PROVE  Promise!HeldApart
<1>1. PICK D, s, lv : s = h /\ lv = live /\ HeapOK(D, s, lv)
  BY Zenon DEF HInv, Ordered
<1>2. D \in SUBSET Nat /\ s \in HeapState(D) /\ Tiles(s) /\ DOMAIN s.hdr = D /\ LiveOK(s, lv)
  BY <1>1, Zenon DEF HeapOK, HeapCore, HeapState
<1>3. ASSUME NEW p \in DOMAIN lv
      PROVE  \E b \in D : /\ b \in Nat /\ p \in Nat /\ p = b + 16 /\ lv[p].size \in Nat
                          /\ p + lv[p].size <= EndPtr(s, b)
                          /\ p % lv[p].align = 0
  <2>1. /\ p \in Nat /\ lv[p] \in Layouts
        /\ p - 16 \in D
        /\ lv[p].size <= s.hdr[p - 16].size
        /\ p % lv[p].align = 0
    BY <1>2, Zenon DEF LiveOK
  <2>2. PICK b \in D : b = p - 16
    BY <2>1, Zenon
  <2>3. lv[p].size \in Nat
    BY <2>1, LayoutFacts, Zenon
  <2>4. b \in Nat /\ p = b + 16
    BY <1>2, <2>1, <2>2
  <2>5. EndPtr(s, b) = b + 16 + s.hdr[b].size /\ s.hdr[b].size \in Int
    BY <1>2, BlockPlace, Zenon
  <2>6. p + lv[p].size <= EndPtr(s, b)
    BY <2>1, <2>2, <2>3, <2>4, <2>5
  <2> QED
    BY <2>1, <2>3, <2>4, <2>6, Zenon
<1>4. ASSUME NEW p \in DOMAIN lv
      PROVE  p >= HeapStart /\ p + lv[p].size <= s.heap_end /\ p % lv[p].align = 0
  <2>1. PICK b \in D : /\ b \in Nat /\ p \in Nat /\ p = b + 16 /\ lv[p].size \in Nat
                       /\ p + lv[p].size <= EndPtr(s, b)
                       /\ p % lv[p].align = 0
    BY <1>3, Zenon
  <2>2. PICK e \in Int : e = EndPtr(s, b)
    BY <1>2, TilesFacts, Zenon
  <2>3. PICK z \in Int, u \in Nat : z = s.heap_end /\ u = s.tail /\ z >= u + 32
    <3>1. s.tail \in D /\ EndPtr(s, s.tail) = s.heap_end
      BY <1>2, TilesFacts, Zenon
    <3>2. EndPtr(s, s.tail) \in Int /\ EndPtr(s, s.tail) >= s.tail + 32
      BY <1>2, <3>1, TilesFacts, Zenon
    <3> QED
      BY <1>2, <3>1, <3>2, Zenon
  <2>4. HeapStart <= b /\ b <= u
    BY <1>2, <2>3, TilesFacts, Zenon
  <2>5. e <= z
    <3>1. CASE b = u
      BY <1>2, <2>2, <2>3, <3>1, TilesFacts
    <3>2. CASE b # u
      <4>1. b < u
        BY <2>1, <2>3, <2>4, <3>2
      <4>2. s.tail \in D
        BY <1>2, TilesFacts, Zenon
      <4>3. e <= u
        BY <1>2, <2>2, <2>3, <4>1, <4>2, TilesFacts, ZenonT(30)
      <4> QED
        BY <2>2, <2>3, <4>3
    <3> QED
      BY <3>1, <3>2, Zenon
  <2>6. HeapStart \in Nat
    BY HeapAssumption, Zenon
  <2>7. p >= HeapStart /\ p + lv[p].size <= z
    BY <2>1, <2>2, <2>3, <2>4, <2>5, <2>6
  <2> QED
    BY <2>1, <2>3, <2>7, Zenon
<1>5. ASSUME NEW p \in DOMAIN lv, NEW q \in DOMAIN lv, p # q
      PROVE  p + lv[p].size <= q \/ q + lv[q].size <= p
  <2>1. PICK b \in D : /\ b \in Nat /\ p \in Nat /\ p = b + 16 /\ lv[p].size \in Nat
                       /\ p + lv[p].size <= EndPtr(s, b)
    BY <1>3, Zenon
  <2>2. PICK c \in D : /\ c \in Nat /\ q \in Nat /\ q = c + 16 /\ lv[q].size \in Nat
                       /\ q + lv[q].size <= EndPtr(s, c)
    BY <1>3, Zenon
  <2>3. PICK d \in Int, e \in Int : d = EndPtr(s, b) /\ e = EndPtr(s, c)
    BY <1>2, TilesFacts, Zenon
  <2>4. b < c \/ c < b
    BY <1>5, <2>1, <2>2
  <2>5. (b < c => d <= c) /\ (c < b => e <= b)
    BY <1>2, <2>3, TilesFacts, ZenonT(30)
  <2> QED
    BY <2>1, <2>2, <2>3, <2>4, <2>5
<1> QED
  BY <1>1, <1>4, <1>5, Zenon DEF Promise!HeldApart, Promise!Apart

-----------------------------------------------------------------------------
INSTANCE FiniteSetTheorems

(* The laws follow from the library's theorems. *)
LEMMA Laws == CountingLaws
<1>1. LeastElement
  <2> SUFFICES ASSUME NEW S \in SUBSET Nat, S # {} PROVE \E x \in S : \A y \in S : x <= y
    BY Zenon DEF LeastElement
  <2> DEFINE R == OpToRel(<, Nat)
  <2>1. IsWellFoundedOn(R, Nat)
    BY NatLessThanWellFounded, Zenon
  <2>2. PICK x \in S : \A y \in S : ~(<<y, x>> \in R)
    <3> HIDE DEF R
    <3> QED
      BY <2>1, WFMin, Zenon
  <2>3. \A y \in S : ~(y < x)
    BY <2>2, Zenon DEF OpToRel
  <2> QED
    BY <2>3
<1>2. CardinalityNat /\ CardinalityZero
  BY FS_CardinalityType, FS_EmptySet, Zenon DEF CardinalityNat, CardinalityZero
<1>3. CardinalityAdd /\ CardinalityRemove
  BY FS_AddElement, FS_RemoveElement, Zenon DEF CardinalityAdd, CardinalityRemove
<1>4. CardinalitySubset /\ FiniteUnion /\ CardinalityInterval
  BY FS_Subset, FS_Union, FS_Interval, Zenon DEF CardinalitySubset, FiniteUnion, CardinalityInterval
<1>5. CardinalityInto
  BY FS_Injection, Zenon DEF CardinalityInto, Injection, IsInjective
<1>6. CardinalityOnto
  <2> SUFFICES ASSUME NEW S, NEW T, NEW f \in [S -> T], IsFiniteSet(S),
                      \A y \in T : \E x \in S : f[x] = y
               PROVE  IsFiniteSet(T) /\ Cardinality(T) <= Cardinality(S)
    BY Zenon DEF CardinalityOnto
  <2>1. f \in Surjection(S, T)
    BY DEF Surjection
  <2> QED
    BY <2>1, FS_Surjection, Zenon
<1> QED
  BY <1>1, <1>2, <1>3, <1>4, <1>5, <1>6, Zenon DEF CountingLaws

(* The invariant holds throughout. *)
LEMMA HeapInvariant == Spec => []HInv
<1>1. Init => HInv
  BY InitOK
<1>2. HInv /\ [Next]_vars => HInv'
  BY Laws, NextOK
<1> QED
  BY <1>1, <1>2, PTL DEF Spec

(* Every header of the heap holds a size a block can have, at an address a *)
(* block can have, until a split tears the blocks; the counters stay in    *)
(* range throughout.                                                       *)
THEOREM HeapTypeCorrect == Spec => []HTypeOK
BY HeapInvariant, HInvTypes, PTL

(* The blocks tile the heap and the links between neighbours are right, as *)
(* long as split_block has cut no block in three inside the heap.          *)
THEOREM HeapTiled == Spec => []Tiled
BY HeapInvariant, HInvTiled, PTL

(* Walking the free list meets every free block exactly once and nothing   *)
(* else, the way back is right, and no two neighbours are both free, until *)
(* a block is cut in three inside the heap.                                *)
THEOREM HeapFreeListExact == Spec => []FreeListExact
<1>1. HInv => FreeListExact
  BY Laws, HInvFreeList
<1> QED
  BY <1>1, HeapInvariant, PTL

(* alloc takes new pages for a request of ordinary alignment only when no  *)
(* stretch of free memory between used blocks could have served it.        *)
THEOREM HeapGrowsOnlyWhenFull == Spec => GrowsOnlyWhenFull
<1>1. HInv => (~torn => \A l \in Layouts : l.align <= 8 /\ AllocGrow(l) => ~ExtentServes(l))
  BY Laws, FullBeforeGrowth
<1> QED
  BY <1>1, HeapInvariant, PTL DEF GrowsOnlyWhenFull

(* Where the pages taken always serve the request (Served), the heap       *)
(* implements the allocator its callers see until a split has torn it:     *)
(* every alloc hands out aligned memory of the heap that nobody else       *)
(* holds, the one whose split tears the blocks included, and alloc fails   *)
(* only when the pages that are left cannot hold the request.              *)
THEOREM HeapImplementsAllocator == ASSUME Served PROVE Spec => ImplementsAllocator
<1>1. Init => Promise!AInit
  <2> SUFFICES ASSUME Init PROVE Promise!AInit
    BY Zenon
  <2>1. PICK P \in Nat, k \in Nat, n \in Nat :
          P = PageSize /\ k = InitPages /\ n = SparePages /\ HeapStart \in Nat
    BY HeapAssumption
  <2>2. /\ h.heap_end = HeapStart + k * P /\ spare = n
        /\ live = [p \in {} |-> 0] /\ panicked = FALSE
    BY <2>1, Zenon DEF Init
  <2>3. HeapStart + k * P \in Nat /\ HeapStart + k * P >= HeapStart /\ n * P \in Nat
    BY <2>1
  <2> QED
    BY <2>1, <2>2, <2>3, Zenon DEF Promise!AInit
<1>2. HInv /\ [Next]_vars => [torn \/ Promise!ANext]_(Promise!avars)
  BY Laws, NextOK, Zenon
<1> QED
  BY <1>1, <1>2, HeapInvariant, PTL DEF Spec, ImplementsAllocator

(* No byte of the heap is held by two callers, and every byte a caller     *)
(* holds is the heap's and aligned as asked, until a split tears the       *)
(* blocks.                                                                 *)
THEOREM HeapAllocationsApart == Spec => [](~torn => Promise!HeldApart)
<1>1. HInv => (~torn => Promise!HeldApart)
  BY OrderedApart
<1> QED
  BY <1>1, HeapInvariant, PTL

(* With requests of ordinary alignment only, no split ever tears the       *)
(* blocks and no byte is ever held by two callers: the cut in three, which *)
(* only a larger alignment takes, is the one way to a shared byte.         *)
THEOREM OrdinaryNeverShared ==
  ASSUME \A l \in Layouts : l.align <= 8
  PROVE  Spec => []NeverShared
<1>1. Init => ~torn
  BY Zenon DEF Init
<1>2. HInv /\ ~torn /\ [Next]_vars => ~torn'
  BY Laws, NextOK, Zenon
<1>3. HInv /\ ~torn => NeverShared
  BY OrderedApart, Zenon DEF Promise!HeldApart, Promise!Apart, NeverShared, Clear
<1> QED
  BY <1>1, <1>2, <1>3, HeapInvariant, PTL DEF Spec
=============================================================================

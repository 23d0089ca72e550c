-------------------------------- MODULE Heap --------------------------------
(***************************************************************************)
(* The kernel heap: alloc and dealloc of LinkedListAllocator               *)
(* (src/kernel_allocator), with grow_kernel_heap of                        *)
(* src/kernel_memory_map.rs.  Kernel code runs with interrupts off but in  *)
(* the yield and idle windows, and no window opens inside alloc or         *)
(* dealloc; so both are single steps, also the ones interrupt handlers     *)
(* make (block/disk/dispatcher.rs:109 boxes its message).                  *)
(***************************************************************************)
EXTENDS HeapBlocks, Sequences, FiniteSets, FiniteSetsExt

CONSTANTS MaxLive,     \* bound: allocations held at once
          MaxWear      \* bound: operations on a torn heap

ASSUME BoundAssumption == MaxLive \in Nat /\ MaxWear \in Nat

\* alloc_within_page: the alignment that keeps a buffer inside one page.
AllocWithinPage(size) ==
  [size |-> size, align |-> Min({a \in {1, 2, 4, 8, 16, 32, 64, PageSize} : a >= size})]

VARIABLES h,       \* the allocator: hdr (address -> BlockHeader), tail, heap_end, free_head
          spare,   \* pages the page allocator still has
          live,    \* pointers callers hold -> the layout they asked for
          panicked,
          torn,    \* some split_block left a neighbour's links behind
          wear     \* operations since then

vars == <<h, spare, live, panicked, torn, wear>>

-----------------------------------------------------------------------------
\* The free list from free_head along free_next.
FreeList(s) ==
  LET n == Cardinality(DOMAIN s.hdr)
      node[i \in 1..n] ==
        IF i = 1 THEN s.free_head
        ELSE IF node[i - 1] = Null THEN Null ELSE s.hdr[node[i - 1]].free_next
  IN [i \in 1..Cardinality({j \in 1..n : node[j] # Null}) |-> node[i]]

\* The header of the first aligned place in b that leaves room for the header
\* of a free block before it, or needs none; Null when there is none.
CheckAlignedFit(s, b, l) ==
  LET end == EndPtr(s, b)
      first == AlignUp(AllocArea(b), l.align)
      places == {a \in {first + k * l.align : k \in 0..(s.hdr[b].size \div l.align)} :
                   /\ AlignUp(a + l.size, 8) + BLOCK_HEADER_SIZE <= end
                   /\ \/ a = AllocArea(b)
                      \/ a - AllocArea(b) >= MIN_BLOCK_SIZE}
  IN IF places = {} THEN Null ELSE Min(places) - BLOCK_HEADER_SIZE

\* Faulty variant: the block's header is counted as room.
FitInWithHeader(s, b, l) ==
  IF l.align <= 8
  THEN IF s.hdr[b].size + BLOCK_HEADER_SIZE >= AlignUp(l.size, 8) THEN b ELSE Null
  ELSE CheckAlignedFit(s, b, l)

FitIn(s, b, l) ==
  IF l.align <= 8 THEN IF s.hdr[b].size >= AlignUp(l.size, 8) THEN b ELSE Null
                  ELSE CheckAlignedFit(s, b, l)

FirstFit(s, l) ==
  LET f == FreeList(s)
      fits == {i \in DOMAIN f : FitIn(s, f[i], l) # Null}
  IN IF fits = {} THEN Null ELSE f[Min(fits)]

-----------------------------------------------------------------------------
Init ==
  /\ h = [hdr |-> [b \in {HeapStart} |->
                    NewHeader(InitPages * PageSize - BLOCK_HEADER_SIZE, FALSE)],
          tail |-> HeapStart, heap_end |-> HeapStart + InitPages * PageSize,
          free_head |-> HeapStart]
  /\ spare = SparePages
  /\ live = [p \in {} |-> 0]
  /\ panicked = FALSE
  /\ torn = FALSE
  /\ wear = 0

Blocks == DOMAIN h.hdr

\* The headers and the callers' bytes keep clear of each other.  From the
\* first state where they do not, a header holds what a caller wrote there
\* and the model ends.
Clear(p, n, q, m) == p + n <= q \/ q + m <= p
HeadersClear == \A b, c \in Blocks : b # c => Clear(b, BLOCK_HEADER_SIZE, c, BLOCK_HEADER_SIZE)
CallersClear == \A p \in DOMAIN live :
  \A b \in Blocks : Clear(p, live[p].size, b, BLOCK_HEADER_SIZE)

\* No byte belongs to two callers: the memory alloc returns satisfies its
\* layout (allocator.rs:14) also after other callers' frees and allocations.
NeverShared == \A p, q \in DOMAIN live : p # q => Clear(p, live[p].size, q, live[q].size)

Running == ~panicked /\ (torn => HeadersClear /\ CallersClear /\ NeverShared)

\* A torn heap runs on, until an operation would read a header that is no
\* longer there (Legible), walk a free list that has become a ring, or hand
\* out the very pointer a caller holds, which live cannot record.
Followed(b) == b # h.tail => EndPtr(h, b) \in Blocks
LinksLegible ==
  /\ h.tail \in Blocks
  /\ {h.free_head} \cup UNION {{h.hdr[b].free_next, h.hdr[b].free_prev} : b \in Blocks}
       \subseteq Blocks \cup {Null}
ListEnds == LET f == FreeList(h) IN f # <<>> => h.hdr[f[Len(f)]].free_next = Null

Wears == /\ torn => wear < MaxWear
         /\ wear' = IF torn THEN wear + 1 ELSE wear

MayAlloc == /\ Running
            /\ torn => LinksLegible
            /\ Cardinality(DOMAIN live) < MaxLive

\* split_block at the place found, and the pointer goes to the caller.
Commit(s, this, at, l) ==
  /\ torn => AllocArea(at) \notin DOMAIN live
  /\ h' = SplitBlock(s, this, at, l)
  /\ live' = [p \in DOMAIN live \cup {AllocArea(at)} |->
                IF p = AllocArea(at) THEN l ELSE live[p]]
  /\ torn' = (torn \/ Tears(s, this, at, l))
  /\ UNCHANGED panicked

AllocFit(l) ==
  /\ MayAlloc /\ Wears
  /\ FirstFit(h, l) # Null
  /\ torn => Followed(FirstFit(h, l))
  /\ Commit(h, FirstFit(h, l), FitIn(h, FirstFit(h, l), l), l)
  /\ UNCHANGED spare

\* find_fit's growth; grow_kernel_heap and the expect on the new pages panic.
AllocGrow(l) ==
  /\ MayAlloc /\ Wears
  /\ FirstFit(h, l) = Null
  /\ torn => ListEnds
  /\ LET bytes == GrowBytes(l)
         s == Grow(h, bytes)
         at == CheckAlignedFit(s, s.tail, l)
     IN IF bytes > spare * PageSize
        THEN panicked' = TRUE /\ UNCHANGED <<h, spare, live, torn>>
        ELSE /\ spare' = spare - bytes \div PageSize
             /\ IF at = Null
                THEN panicked' = TRUE /\ h' = s /\ UNCHANGED <<live, torn>>
                ELSE Commit(s, s.tail, at, l)

DeallocLegible(b) ==
  /\ LinksLegible
  /\ b \in Blocks
  /\ Followed(b)
  /\ b # h.tail => Followed(EndPtr(h, b))
  /\ h.hdr[b].prev \in Blocks \cup {Null}

Dealloc(p) ==
  /\ Running /\ Wears
  /\ torn => DeallocLegible(p - BLOCK_HEADER_SIZE)
  /\ h' = DeallocAndCoalesce(h, p - BLOCK_HEADER_SIZE)
  /\ live' = [q \in DOMAIN live \ {p} |-> live[q]]
  /\ UNCHANGED <<spare, panicked, torn>>

Next ==
  \/ \E l \in Layouts : AllocFit(l) \/ AllocGrow(l)
  \/ \E p \in DOMAIN live : Dealloc(p)

Spec == Init /\ [][Next]_vars

-----------------------------------------------------------------------------
(***************************************************************************)
(* Properties.                                                             *)
(***************************************************************************)
\* Every header holds a size a block can have, a multiple of 8 that is at
\* least MIN_ALLOC_SIZE, at an address that is a multiple of 8, until a split
\* tears the blocks; the rest holds always.
HTypeOK ==
  /\ ~torn =>
       /\ \A b \in Blocks :
            /\ b % 8 = 0
            /\ h.hdr[b].size >= MIN_ALLOC_SIZE /\ h.hdr[b].size % 8 = 0
            /\ {h.hdr[b].prev, h.hdr[b].free_next, h.hdr[b].free_prev} \subseteq Int
            /\ h.hdr[b].used \in BOOLEAN
       /\ {h.tail, h.heap_end} \subseteq Nat /\ h.free_head \in Int
       /\ \A p \in DOMAIN live : p \in Nat /\ live[p] \in Layouts
  /\ spare \in 0..SparePages
  /\ panicked \in BOOLEAN /\ torn \in BOOLEAN
  /\ wear \in 0..MaxWear

\* The blocks cover the heap from its first byte to heap_end with no gap and
\* no overlap, tail is the last of them, and each block's prev is the block
\* that ends where it starts (the block part of assert_heap_invariants).
Linked ==
  /\ HeapStart \in Blocks /\ h.tail \in Blocks
  /\ h.hdr[HeapStart].prev = Null
  /\ EndPtr(h, h.tail) = h.heap_end
  /\ \A b \in Blocks \ {h.tail} :
       EndPtr(h, b) \in Blocks /\ h.hdr[EndPtr(h, b)].prev = b
  /\ \A b \in Blocks \ {HeapStart} :
       h.hdr[b].prev \in Blocks /\ EndPtr(h, h.hdr[b].prev) = b

Tiled == ~torn => Linked

\* Walking free_next from free_head meets every free block once, and nothing
\* else; free_prev is the way back; no two neighbouring blocks are both free,
\* because dealloc merges on both sides.
FreeListExact == ~torn =>
  LET f == FreeList(h) IN
  /\ {f[i] : i \in DOMAIN f} = {b \in Blocks : IsFree(h, b)}
  /\ Len(f) = Cardinality({b \in Blocks : IsFree(h, b)})
  /\ \A i \in DOMAIN f : h.hdr[f[i]].free_prev = IF i = 1 THEN Null ELSE f[i - 1]
  /\ \A b \in Blocks \ {h.tail} : ~(IsFree(h, b) /\ IsFree(h, EndPtr(h, b)))

\* A run of bytes from the end of one used block to the next used block (or
\* to an end of the heap): what a perfect coalescing would offer.
UsedEnds == {HeapStart} \cup {EndPtr(h, b) : b \in {c \in Blocks : ~IsFree(h, c)}}
UsedStarts == {h.heap_end} \cup {b \in Blocks : ~IsFree(h, b)}
ExtentServes(l) == \E a \in UsedEnds, z \in UsedStarts :
  /\ z - a >= BLOCK_HEADER_SIZE + AlignUp(l.size, 8)
  /\ \A c \in UsedStarts : c < a \/ c >= z

\* A request of ordinary alignment takes new pages only when no stretch of
\* free memory could have served it: nothing is lost between the lists.
GrowsOnlyWhenFull ==
  [][~torn => \A l \in Layouts : l.align <= 8 /\ AllocGrow(l) => ~ExtentServes(l)]_vars

\* The heap implements the abstract allocator as long as no split has torn
\* it, the tearing step included: alloc hands out aligned memory of the heap
\* that no other caller holds, and it fails only when the pages that are left
\* cannot hold the request.
Promise == INSTANCE Allocator WITH
  Start <- HeapStart, Slack <- PageSize + BLOCK_HEADER_SIZE,
  held <- live, limit <- h.heap_end, left <- spare * PageSize, failed <- panicked
ImplementsAllocator == Promise!AInit /\ [][torn \/ Promise!ANext]_(Promise!avars)

\* The new pages hold the request wherever the last block ends: find_fit asks
\* for the header, the alignment and the size, and check_aligned_fit wants
\* room for one more header behind the allocation.
Served == \A l \in Layouts :
  IF l.align <= 8
  THEN 2 * BLOCK_HEADER_SIZE + AlignUp(l.size, 8) <= GrowBytes(l)
  ELSE /\ PageSize % l.align = 0
       /\ AlignUp(BLOCK_HEADER_SIZE + MIN_BLOCK_SIZE, l.align)
            + AlignUp(l.size, 8) + BLOCK_HEADER_SIZE <= GrowBytes(l)
=============================================================================

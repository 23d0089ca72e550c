---------------------------- MODULE HeapBlocks ----------------------------
(***************************************************************************)
(* The blocks of the kernel heap: BlockHeader and the lists, splits and    *)
(* merges of LinkedListAllocator (src/kernel_allocator), as functions of   *)
(* the allocator's state s: hdr (address -> BlockHeader), tail, heap_end,  *)
(* free_head.  Addresses and sizes are bytes and the constants of the code *)
(* keep their values; only the page and the heap are small.                *)
(***************************************************************************)
EXTENDS Integers

CONSTANTS Layouts,     \* layouts asked for
          HeapStart,   \* KERNEL_HEAP_START
          InitPages,   \* KERNEL_HEAP_SIZE, in pages
          SparePages,  \* physical pages left for grow_kernel_heap
          PageSize

BLOCK_HEADER_SIZE == 16
MIN_ALLOC_SIZE == 16
MIN_BLOCK_SIZE == BLOCK_HEADER_SIZE + MIN_ALLOC_SIZE
Null == -1

\* The alignment of a Layout is a power of two.  The callers that ask for more
\* than 8-byte alignment are alloc_within_page (align = the power of two above
\* size) and BlockBuf (one page, page-aligned).  A page holds whole blocks.
ASSUME HeapAssumption ==
  /\ Layouts \subseteq [size : Nat \ {0}, align : Nat \ {0}]
  /\ \A l \in Layouts : l.align \in {1, 2, 4, 8} \/ (l.align % 8 = 0 /\ l.size > 8)
  /\ PageSize \in Nat /\ PageSize % 8 = 0 /\ PageSize >= MIN_BLOCK_SIZE
  /\ HeapStart \in Nat /\ HeapStart % PageSize = 0
  /\ InitPages \in Nat \ {0} /\ SparePages \in Nat

-----------------------------------------------------------------------------
\* BlockHeader.  A header whose block was merged away leaves the domain of hdr.
NewHeader(size, used) ==
  [size |-> size, prev |-> Null, free_next |-> Null, free_prev |-> Null, used |-> used]

WriteHeader(s, b, hd) ==
  [s EXCEPT !.hdr = [c \in DOMAIN @ \cup {b} |-> IF c = b THEN hd ELSE @[c]]]
DropHeader(s, b) == [s EXCEPT !.hdr = [c \in DOMAIN @ \ {b} |-> @[c]]]

AllocArea(b) == b + BLOCK_HEADER_SIZE
EndPtr(s, b) == AllocArea(b) + s.hdr[b].size      \* also next()
IsFree(s, b) == ~s.hdr[b].used

MaxOf(a, b) == IF a >= b THEN a ELSE b           \* core::cmp::max
AlignUp(a, n) == ((a + n - 1) \div n) * n

SetSize(s, b, size) == [s EXCEPT !.hdr[b].size = size]
SetUsed(s, b, used) == [s EXCEPT !.hdr[b].used = used]
SetPrev(s, b, p) == [s EXCEPT !.hdr[b].prev = p]
SetFreeNext(s, b, n) == [s EXCEPT !.hdr[b].free_next = n]
SetFreePrev(s, b, p) == [s EXCEPT !.hdr[b].free_prev = p]
SetTail(s, b) == [s EXCEPT !.tail = b]
SetFreeHead(s, b) == [s EXCEPT !.free_head = b]

InsertFreeBlock(s, b) ==
  LET t == SetFreePrev(SetFreeNext(s, b, s.free_head), b, Null)
      u == IF s.free_head = Null THEN t ELSE SetFreePrev(t, s.free_head, b)
  IN SetFreeHead(u, b)

\* Faulty variant: the successor's free_prev is left as it was.
RemoveFreeBlockOneWay(s, b) ==
  LET n == s.hdr[b].free_next
      p == s.hdr[b].free_prev
      t == IF p # Null THEN SetFreeNext(s, p, n) ELSE SetFreeHead(s, n)
  IN SetFreePrev(SetFreeNext(t, b, Null), b, Null)

RemoveFreeBlock(s, b) ==
  LET n == s.hdr[b].free_next
      p == s.hdr[b].free_prev
      t == IF p # Null THEN SetFreeNext(s, p, n) ELSE SetFreeHead(s, n)
      u == IF n # Null THEN SetFreePrev(t, n, p) ELSE t
  IN SetFreePrev(SetFreeNext(u, b, Null), b, Null)

AppendToList(s, b) == SetTail(SetPrev(s, b, s.tail), b)

\* The neighbour is found through the size this has NOW.
InsertAfter(s, this, new) ==
  LET t == IF this # s.tail THEN SetPrev(s, EndPtr(s, this), new) ELSE SetTail(s, new)
  IN SetPrev(t, new, this)

\* Faulty variant: tail is not moved when the last block goes.
RemoveFromListKeepsTail(s, this) ==
  IF this # s.tail THEN SetPrev(s, EndPtr(s, this), s.hdr[this].prev) ELSE s

RemoveFromList(s, this) ==
  IF this # s.tail THEN SetPrev(s, EndPtr(s, this), s.hdr[this].prev)
                   ELSE SetTail(s, s.hdr[this].prev)

-----------------------------------------------------------------------------
\* grow_kernel_heap maps whole pages at the end of the heap; find_fit gives
\* them to a free last block, or to a new free block.
GrowBytes(l) == AlignUp(MaxOf(BLOCK_HEADER_SIZE + l.align + l.size, PageSize), PageSize)

Grow(s, bytes) ==
  LET t == [s EXCEPT !.heap_end = @ + bytes] IN
  IF IsFree(s, s.tail)
  THEN SetSize(t, s.tail, s.hdr[s.tail].size + bytes)
  ELSE AppendToList(InsertFreeBlock(
         WriteHeader(t, s.heap_end, NewHeader(bytes - BLOCK_HEADER_SIZE, FALSE)),
         s.heap_end), s.heap_end)

\* Faulty variant: a remainder without room for MIN_ALLOC_SIZE is split off.
SplitTwoTooSmall(s, this, l) ==
  LET total == AlignUp(MaxOf(l.size, MIN_ALLOC_SIZE), 8)
      excess == s.hdr[this].size - total
      new == AllocArea(this) + total
      t == IF excess >= BLOCK_HEADER_SIZE
           THEN SetSize(InsertAfter(InsertFreeBlock(
                   WriteHeader(s, new, NewHeader(excess - BLOCK_HEADER_SIZE, FALSE)), new),
                   this, new), this, total)
           ELSE s
  IN SetUsed(RemoveFreeBlock(t, this), this, TRUE)

\* split_block where the allocation starts at the block itself.
SplitTwo(s, this, l) ==
  LET total == AlignUp(MaxOf(l.size, MIN_ALLOC_SIZE), 8)
      excess == s.hdr[this].size - total
      new == AllocArea(this) + total
      t == IF excess >= MIN_BLOCK_SIZE
           THEN SetSize(InsertAfter(InsertFreeBlock(
                   WriteHeader(s, new, NewHeader(excess - BLOCK_HEADER_SIZE, FALSE)), new),
                   this, new), this, total)
           ELSE s
  IN SetUsed(RemoveFreeBlock(t, this), this, TRUE)

AlignedSize(l) == MaxOf(AlignUp(l.size, 8), MIN_ALLOC_SIZE)

Excess(at, end, l) == end - AllocArea(at) - AlignedSize(l) - BLOCK_HEADER_SIZE

\* split_block where a free part of this stays in front of the allocation.
SplitThree(s, this, at, l) ==
  LET excess == Excess(at, EndPtr(s, this), l)
      t == InsertAfter(
             WriteHeader(SetSize(s, this, at - AllocArea(this)),
                         at, NewHeader(AlignedSize(l), TRUE)), this, at)
      new == EndPtr(t, at)
  IN IF excess >= MIN_ALLOC_SIZE
     THEN InsertAfter(InsertFreeBlock(WriteHeader(t, new, NewHeader(excess, FALSE)), new),
                      at, new)
     ELSE t

SplitBlock(s, this, at, l) ==
  IF this = at THEN SplitTwo(s, this, l) ELSE SplitThree(s, this, at, l)

\* A three-way split shrinks this before it looks for its neighbour, so it
\* never reaches the block that follows; and what is left over below
\* MIN_ALLOC_SIZE gets no header.
Tears(s, this, at, l) ==
  /\ this # at
  /\ \/ this # s.tail
     \/ Excess(at, EndPtr(s, this), l) < MIN_ALLOC_SIZE

\* Faulty variant: a freed block is not merged with its neighbours.
DeallocOnly(s, b) == InsertFreeBlock(SetUsed(s, b, FALSE), b)

DeallocAndCoalesce(s, b) ==
  LET s1 == SetUsed(s, b, FALSE)
      next == EndPtr(s1, b)
      s2 == IF b # s1.tail /\ IsFree(s1, next)
            THEN DropHeader(RemoveFromList(RemoveFreeBlock(
                   SetSize(s1, b, s1.hdr[b].size + BLOCK_HEADER_SIZE + s1.hdr[next].size),
                   next), next), next)
            ELSE s1
      prev == s2.hdr[b].prev
  IN IF prev # Null /\ IsFree(s2, prev)
     THEN SetSize(DropHeader(RemoveFromList(s2, b), b), prev,
                  s2.hdr[prev].size + BLOCK_HEADER_SIZE + s2.hdr[b].size)
     ELSE InsertFreeBlock(s2, b)
=============================================================================

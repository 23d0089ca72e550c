---------------------------- MODULE HeapLemmas ----------------------------
(***************************************************************************)
(* What the operations of the kernel heap do to its blocks and to its free *)
(* list, for every set of layouts, every page size and every number of     *)
(* pages: placing a block, cutting it in two and cutting it in three,      *)
(* growing the heap by whole pages, and merging a freed block with its     *)
(* neighbours.                                                             *)
(***************************************************************************)
EXTENDS HeapBlocks, TLAPS

USE DEF BLOCK_HEADER_SIZE, MIN_ALLOC_SIZE, MIN_BLOCK_SIZE, Null

-----------------------------------------------------------------------------
(* align_up rounds up to the next multiple. *)
LEMMA AlignUpFacts ==
  ASSUME NEW a \in Nat, NEW n \in Nat \ {0}
  PROVE  /\ AlignUp(a, n) \in Nat
         /\ AlignUp(a, n) >= a
         /\ AlignUp(a, n) < a + n
         /\ \E k \in Nat : AlignUp(a, n) = k * n
<1>1. PICK x \in Nat : x = a + n - 1
  OBVIOUS
<1>2. PICK q \in Nat : q = x \div n
  OBVIOUS
<1>3. PICK r \in Nat : r = x % n /\ r < n
  OBVIOUS
<1>4. PICK m \in Nat : m = q * n
  OBVIOUS
<1>5. x = m + r
  BY <1>2, <1>3, <1>4
<1>6. AlignUp(a, n) = m
  BY <1>1, <1>2, <1>4, Zenon DEF AlignUp
<1>7. m >= a /\ m < a + n
  BY <1>1, <1>3, <1>5
<1> QED
  BY <1>4, <1>6, <1>7, Zenon

(* A multiple of n leaves no remainder. *)
LEMMA MultipleMod ==
  ASSUME NEW k \in Nat, NEW n \in Nat \ {0}
  PROVE  (k * n) % n = 0
OBVIOUS

(* What is a multiple of a multiple of 8 is a multiple of 8. *)
LEMMA EightDivides ==
  ASSUME NEW n \in Nat, n % 8 = 0, NEW k \in Nat
  PROVE  (k * n) % 8 = 0
<1>1. PICK m \in Nat : n = 8 * m
  OBVIOUS
<1>2. k * n = (k * m) * 8
  BY <1>1
<1> QED
  BY <1>2, MultipleMod

(* align_up to 8. *)
LEMMA AlignUpEight ==
  ASSUME NEW a \in Nat
  PROVE  /\ AlignUp(a, 8) \in Nat /\ AlignUp(a, 8) % 8 = 0
         /\ AlignUp(a, 8) >= a /\ AlignUp(a, 8) < a + 8
BY DEF AlignUp

-----------------------------------------------------------------------------
(* A heap whose headers are those of the blocks D. *)
Header == [size : Int, prev : Int, free_next : Int, free_prev : Int, used : BOOLEAN]
HeapState(D) == [hdr : [D -> Header], tail : Int, heap_end : Int, free_head : Int]

(* t differs from s at most in the links of the free list. *)
SameBlocks(D, s, t) ==
  /\ t.tail = s.tail /\ t.heap_end = s.heap_end
  /\ \A c \in D : /\ t.hdr[c].size = s.hdr[c].size
                  /\ t.hdr[c].prev = s.hdr[c].prev
                  /\ t.hdr[c].used = s.hdr[c].used

(* t differs from s at most in sizes, the block list and the used bits. *)
SameLinks(D, s, t) ==
  /\ t.free_head = s.free_head
  /\ \A c \in D : /\ t.hdr[c].free_next = s.hdr[c].free_next
                  /\ t.hdr[c].free_prev = s.hdr[c].free_prev

(* The free list, written out: f lists the blocks of F, each once, from    *)
(* free_head along free_next, and free_prev is the way back.               *)
FreeChain(s, F, n, f) ==
  /\ n \in Nat /\ f \in [1..n -> F]
  /\ \A b \in F : \E i \in 1..n : f[i] = b
  /\ \A i, j \in 1..n : f[i] = f[j] => i = j
  /\ s.free_head = IF n = 0 THEN Null ELSE f[1]
  /\ \A i \in 1..n : s.hdr[f[i]].free_next = IF i = n THEN Null ELSE f[i + 1]
  /\ \A i \in 1..n : s.hdr[f[i]].free_prev = IF i = 1 THEN Null ELSE f[i - 1]
FreeOK(s, F) == \E n \in Nat : \E f \in [1..n -> F] : FreeChain(s, F, n, f)

(* t is s with another header for b. *)
OnlyHeader(D, s, t, b) ==
  /\ t \in HeapState(D)
  /\ t.tail = s.tail /\ t.heap_end = s.heap_end /\ t.free_head = s.free_head
  /\ \A c \in D \ {b} : t.hdr[c] = s.hdr[c]

(* t is s with the size of b set to v. *)
SizeSet(D, s, b, v, t) ==
  /\ OnlyHeader(D, s, t, b)
  /\ t.hdr[b].size = v
  /\ t.hdr[b].used = s.hdr[b].used
  /\ t.hdr[b].prev = s.hdr[b].prev
  /\ t.hdr[b].free_next = s.hdr[b].free_next
  /\ t.hdr[b].free_prev = s.hdr[b].free_prev

(* set_size and add_size change one field of one header. *)
LEMMA SetSizeSets ==
  ASSUME NEW D \in SUBSET Nat, NEW s \in HeapState(D), NEW b \in D, NEW v \in Int
  PROVE  SizeSet(D, s, b, v, SetSize(s, b, v))
BY Zenon DEF SizeSet, SetSize, OnlyHeader, HeapState, Header

(* The same, field by field. *)
LEMMA SetSizeEffect ==
  ASSUME NEW D \in SUBSET Nat, NEW s \in HeapState(D), NEW b \in D, NEW v \in Int
  PROVE  LET t == SetSize(s, b, v) IN
         /\ OnlyHeader(D, s, t, b)
         /\ t.hdr[b].size = v
         /\ t.hdr[b].used = s.hdr[b].used
         /\ t.hdr[b].prev = s.hdr[b].prev
         /\ t.hdr[b].free_next = s.hdr[b].free_next
         /\ t.hdr[b].free_prev = s.hdr[b].free_prev
BY SetSizeSets, ZenonT(30) DEF SizeSet

(* set_used changes one field of one header. *)
LEMMA SetUsedEffect ==
  ASSUME NEW D \in SUBSET Nat, NEW s \in HeapState(D), NEW b \in D
  PROVE  LET t == SetUsed(s, b, TRUE) IN
         /\ OnlyHeader(D, s, t, b)
         /\ t.hdr[b].used
         /\ t.hdr[b].size = s.hdr[b].size
         /\ t.hdr[b].prev = s.hdr[b].prev
         /\ t.hdr[b].free_next = s.hdr[b].free_next
         /\ t.hdr[b].free_prev = s.hdr[b].free_prev
BY ZenonT(30) DEF SetUsed, OnlyHeader, HeapState, Header

(* set_free changes one field of one header. *)
LEMMA SetFreeEffect ==
  ASSUME NEW D \in SUBSET Nat, NEW s \in HeapState(D), NEW b \in D
  PROVE  LET t == SetUsed(s, b, FALSE) IN
         /\ OnlyHeader(D, s, t, b)
         /\ ~t.hdr[b].used
         /\ t.hdr[b].size = s.hdr[b].size
         /\ t.hdr[b].prev = s.hdr[b].prev
         /\ t.hdr[b].free_next = s.hdr[b].free_next
         /\ t.hdr[b].free_prev = s.hdr[b].free_prev
BY ZenonT(30) DEF SetUsed, OnlyHeader, HeapState, Header

(* t is s with prev of b set to v. *)
PrevSet(D, s, b, v, t) ==
  /\ OnlyHeader(D, s, t, b)
  /\ t.hdr[b].prev = v
  /\ t.hdr[b].size = s.hdr[b].size
  /\ t.hdr[b].used = s.hdr[b].used
  /\ t.hdr[b].free_next = s.hdr[b].free_next
  /\ t.hdr[b].free_prev = s.hdr[b].free_prev

(* set_prev changes one field of one header. *)
LEMMA SetPrevSets ==
  ASSUME NEW D \in SUBSET Nat, NEW s \in HeapState(D), NEW b \in D, NEW v \in Int
  PROVE  PrevSet(D, s, b, v, SetPrev(s, b, v))
BY ZenonT(30) DEF PrevSet, SetPrev, OnlyHeader, HeapState, Header

(* The same, field by field. *)
LEMMA SetPrevEffect ==
  ASSUME NEW D \in SUBSET Nat, NEW s \in HeapState(D), NEW b \in D, NEW v \in Int
  PROVE  LET t == SetPrev(s, b, v) IN
         /\ OnlyHeader(D, s, t, b)
         /\ t.hdr[b].prev = v
         /\ t.hdr[b].size = s.hdr[b].size
         /\ t.hdr[b].used = s.hdr[b].used
         /\ t.hdr[b].free_next = s.hdr[b].free_next
         /\ t.hdr[b].free_prev = s.hdr[b].free_prev
BY SetPrevSets, ZenonT(30) DEF PrevSet

(* set_free_next changes one field of one header. *)
LEMMA SetFreeNextEffect ==
  ASSUME NEW D \in SUBSET Nat, NEW s \in HeapState(D), NEW b \in D, NEW v \in Int
  PROVE  LET t == SetFreeNext(s, b, v) IN
         /\ OnlyHeader(D, s, t, b)
         /\ t.hdr[b].free_next = v
         /\ t.hdr[b].size = s.hdr[b].size
         /\ t.hdr[b].used = s.hdr[b].used
         /\ t.hdr[b].prev = s.hdr[b].prev
         /\ t.hdr[b].free_prev = s.hdr[b].free_prev
BY DEF SetFreeNext, OnlyHeader, HeapState, Header

(* t is s with free_prev of b set to v. *)
FreePrevSet(D, s, b, v, t) ==
  /\ OnlyHeader(D, s, t, b)
  /\ t.hdr[b].free_prev = v
  /\ t.hdr[b].size = s.hdr[b].size
  /\ t.hdr[b].used = s.hdr[b].used
  /\ t.hdr[b].prev = s.hdr[b].prev
  /\ t.hdr[b].free_next = s.hdr[b].free_next

(* set_free_prev changes one field of one header. *)
LEMMA SetFreePrevSets ==
  ASSUME NEW D \in SUBSET Nat, NEW s \in HeapState(D), NEW b \in D, NEW v \in Int
  PROVE  FreePrevSet(D, s, b, v, SetFreePrev(s, b, v))
BY ZenonT(30) DEF FreePrevSet, SetFreePrev, OnlyHeader, HeapState, Header

(* The same, field by field. *)
LEMMA SetFreePrevEffect ==
  ASSUME NEW D \in SUBSET Nat, NEW s \in HeapState(D), NEW b \in D, NEW v \in Int
  PROVE  LET t == SetFreePrev(s, b, v) IN
         /\ OnlyHeader(D, s, t, b)
         /\ t.hdr[b].free_prev = v
         /\ t.hdr[b].size = s.hdr[b].size
         /\ t.hdr[b].used = s.hdr[b].used
         /\ t.hdr[b].prev = s.hdr[b].prev
         /\ t.hdr[b].free_next = s.hdr[b].free_next
BY SetFreePrevSets, ZenonT(30) DEF FreePrevSet

(* t is s with tail at v. *)
TailSet(D, s, v, t) ==
  /\ t \in HeapState(D) /\ t.hdr = s.hdr /\ t.tail = v
  /\ t.heap_end = s.heap_end
  /\ t.free_head = s.free_head

(* Moving tail leaves everything else. *)
LEMMA SetTailSets ==
  ASSUME NEW D \in SUBSET Nat, NEW s \in HeapState(D), NEW v \in Int
  PROVE  TailSet(D, s, v, SetTail(s, v))
BY Zenon DEF TailSet, SetTail, HeapState, Header

(* t is s with free_head at v. *)
FreeHeadSet(D, s, v, t) ==
  /\ t \in HeapState(D) /\ t.hdr = s.hdr /\ t.free_head = v
  /\ t.tail = s.tail
  /\ t.heap_end = s.heap_end

(* Moving free_head leaves everything else. *)
LEMMA SetFreeHeadSets ==
  ASSUME NEW D \in SUBSET Nat, NEW s \in HeapState(D), NEW v \in Int
  PROVE  FreeHeadSet(D, s, v, SetFreeHead(s, v))
BY Zenon DEF FreeHeadSet, SetFreeHead, HeapState, Header

(* t is s with the header of b written. *)
HeaderWritten(E, s, b, sz, us, t) ==
  OnlyHeader(E, s, t, b) /\ t.hdr[b].size = sz /\ t.hdr[b].used = us /\ t.hdr[b].prev = Null

(* A header written at b adds b to the blocks. *)
LEMMA WriteHeaderEffect ==
  ASSUME NEW D \in SUBSET Nat, NEW s \in HeapState(D), NEW b \in Nat,
         NEW sz \in Int, NEW us \in BOOLEAN
  PROVE  HeaderWritten(D \cup {b}, s, b, sz, us, WriteHeader(s, b, NewHeader(sz, us)))
<1> DEFINE hd == NewHeader(sz, us)
           E == D \cup {b}
           g == [c \in E |-> IF c = b THEN hd ELSE s.hdr[c]]
           t == WriteHeader(s, b, hd)
<1>1. hd \in Header /\ hd.size = sz /\ hd.used = us /\ hd.prev = Null
  BY DEF NewHeader, Header
<1>2. t = [s EXCEPT !.hdr = g] /\ DOMAIN s.hdr = D
  BY Zenon DEF WriteHeader, HeapState
<1> HIDE DEF hd
<1>3. g \in [E -> Header] /\ g[b] = hd /\ \A c \in E \ {b} : g[c] = s.hdr[c]
  BY <1>1, Zenon DEF HeapState
<1> HIDE DEF g, t, E
<1>4. /\ t \in HeapState(E) /\ t.hdr = g
      /\ t.tail = s.tail /\ t.heap_end = s.heap_end /\ t.free_head = s.free_head
  BY <1>2, <1>3, Zenon DEF HeapState
<1>5. OnlyHeader(E, s, t, b)
  BY <1>3, <1>4, Zenon DEF OnlyHeader
<1> QED
  BY <1>1, <1>3, <1>4, <1>5, Zenon DEF hd, t, E, HeaderWritten

(* The header of a new block, free or used. *)
WriteFree(s, b, sz) == WriteHeader(s, b, NewHeader(sz, FALSE))
WriteUsed(s, b, sz) == WriteHeader(s, b, NewHeader(sz, TRUE))

(* The header of a new free block. *)
LEMMA WriteFreeEffect ==
  ASSUME NEW D \in SUBSET Nat, NEW s \in HeapState(D), NEW b \in Nat, NEW sz \in Int,
         NEW E, E = D \cup {b},
         NEW t, t = WriteFree(s, b, sz)
  PROVE  /\ OnlyHeader(E, s, t, b)
         /\ t.hdr[b].size = sz /\ ~t.hdr[b].used /\ t.hdr[b].prev = Null
<1>1. HeaderWritten(D \cup {b}, s, b, sz, FALSE, WriteHeader(s, b, NewHeader(sz, FALSE)))
  BY WriteHeaderEffect, Zenon
<1> QED
  BY <1>1, Zenon DEF WriteFree, HeaderWritten

(* A new header, as one fact. *)
LEMMA WritesHeader ==
  ASSUME NEW D \in SUBSET Nat, NEW s \in HeapState(D), NEW b \in Nat, NEW sz \in Int
  PROVE  /\ HeaderWritten(D \cup {b}, s, b, sz, FALSE, WriteFree(s, b, sz))
         /\ HeaderWritten(D \cup {b}, s, b, sz, TRUE, WriteUsed(s, b, sz))
<1>1. HeaderWritten(D \cup {b}, s, b, sz, FALSE, WriteHeader(s, b, NewHeader(sz, FALSE)))
  BY WriteHeaderEffect, Zenon
<1>2. HeaderWritten(D \cup {b}, s, b, sz, TRUE, WriteHeader(s, b, NewHeader(sz, TRUE)))
  BY WriteHeaderEffect, Zenon
<1> QED
  BY <1>1, <1>2, Zenon DEF WriteFree, WriteUsed

(* A header merged away leaves the blocks. *)
LEMMA DropHeaderEffect ==
  ASSUME NEW D \in SUBSET Nat, NEW s \in HeapState(D), NEW b \in D
  PROVE  LET t == DropHeader(s, b) IN
         /\ OnlyHeader(D \ {b}, s, t, b)
BY Zenon DEF DropHeader, OnlyHeader, HeapState, Header

(* insert_free_block puts b in front. *)
LEMMA InsertEffect ==
  ASSUME NEW D \in SUBSET Nat, NEW s \in HeapState(D), NEW b \in D,
         s.free_head \in (D \ {b}) \cup {Null}
  PROVE  LET t == InsertFreeBlock(s, b) IN
         /\ t \in HeapState(D)
         /\ SameBlocks(D, s, t)
         /\ t.free_head = b
         /\ t.hdr[b].free_next = s.free_head
         /\ t.hdr[b].free_prev = Null
         /\ \A c \in D \ {b} :
              /\ t.hdr[c].free_next = s.hdr[c].free_next
              /\ t.hdr[c].free_prev = IF c = s.free_head THEN b ELSE s.hdr[c].free_prev
<1>1. PICK s1 : s1 = SetFreeNext(s, b, s.free_head)
  BY Zenon
<1>2. PICK s2 : s2 = SetFreePrev(s1, b, Null)
  BY Zenon
<1>3. PICK s3 : s3 = IF s.free_head = Null THEN s2 ELSE SetFreePrev(s2, s.free_head, b)
  BY Zenon
<1>4. PICK s4 : s4 = SetFreeHead(s3, b)
  BY Zenon
<1>5. InsertFreeBlock(s, b) = s4
  BY <1>1, <1>2, <1>3, <1>4, Zenon DEF InsertFreeBlock
<1>6. s.free_head \in Int /\ b \in Int
  BY DEF HeapState
<1>7. /\ OnlyHeader(D, s, s1, b)
      /\ s1.hdr[b].free_next = s.free_head
      /\ s1.hdr[b].size = s.hdr[b].size /\ s1.hdr[b].used = s.hdr[b].used
      /\ s1.hdr[b].prev = s.hdr[b].prev
  BY <1>1, <1>6, SetFreeNextEffect
<1>8. /\ OnlyHeader(D, s1, s2, b)
      /\ s2.hdr[b].free_next = s.free_head /\ s2.hdr[b].free_prev = Null
      /\ s2.hdr[b].size = s.hdr[b].size /\ s2.hdr[b].used = s.hdr[b].used
      /\ s2.hdr[b].prev = s.hdr[b].prev
  <2>1. s1 \in HeapState(D)
    BY <1>7, Zenon DEF OnlyHeader
  <2> QED
    BY <1>2, <1>7, <2>1, SetFreePrevEffect
<1>9. /\ s2 \in HeapState(D)
      /\ s2.tail = s.tail /\ s2.heap_end = s.heap_end
      /\ \A c \in D \ {b} : s2.hdr[c] = s.hdr[c]
  BY <1>7, <1>8, Zenon DEF OnlyHeader
<1>10. CASE s.free_head = Null
  <2>1. s3 = s2
    BY <1>3, <1>10, Zenon
  <2>2. s4 \in HeapState(D) /\ s4.hdr = s2.hdr /\ s4.free_head = b
        /\ s4.tail = s.tail /\ s4.heap_end = s.heap_end
    <3>1. FreeHeadSet(D, s2, b, SetFreeHead(s2, b))
      BY <1>6, <1>9, SetFreeHeadSets, Zenon
    <3>2. FreeHeadSet(D, s2, b, s4)
      BY <1>4, <2>1, <3>1, Zenon
    <3> QED
      BY <1>9, <3>2, Zenon DEF FreeHeadSet
  <2>3. s4.hdr[b] = s2.hdr[b] /\ \A c \in D \ {b} : s4.hdr[c] = s.hdr[c] /\ c # Null
    BY <1>9, <2>2
  <2>4. s4.hdr[b].free_next = s.free_head /\ s4.hdr[b].free_prev = Null
    BY <1>8, <2>3, Zenon
  <2>5. SameBlocks(D, s, s4)
    BY <1>8, <2>2, <2>3, Zenon DEF SameBlocks
  <2> QED
    BY <1>5, <1>10, <2>2, <2>3, <2>4, <2>5, Zenon
<1>11. CASE s.free_head # Null
  <2>1. PICK a \in D : a = s.free_head /\ a # b
    BY <1>11, Zenon
  <2>2. s3 = SetFreePrev(s2, a, b)
    BY <1>3, <1>11, <2>1, Zenon
  <2>3. /\ OnlyHeader(D, s2, s3, a)
        /\ s3.hdr[a].free_prev = b /\ s3.hdr[a].free_next = s2.hdr[a].free_next
        /\ s3.hdr[a].size = s2.hdr[a].size /\ s3.hdr[a].used = s2.hdr[a].used
        /\ s3.hdr[a].prev = s2.hdr[a].prev
    <3>1. FreePrevSet(D, s2, a, b, SetFreePrev(s2, a, b))
      BY <1>6, <1>9, SetFreePrevSets, Zenon
    <3> QED
      BY <2>2, <3>1, Zenon DEF FreePrevSet
  <2>4. s3 \in HeapState(D) /\ s3.tail = s.tail /\ s3.heap_end = s.heap_end
    <3>1. s3 \in HeapState(D) /\ s3.tail = s2.tail /\ s3.heap_end = s2.heap_end
      BY <2>3, Zenon DEF OnlyHeader
    <3> QED
      BY <1>9, <3>1, Zenon
  <2>5. s4 \in HeapState(D) /\ s4.hdr = s3.hdr /\ s4.free_head = b
        /\ s4.tail = s.tail /\ s4.heap_end = s.heap_end
    <3>1. FreeHeadSet(D, s3, b, SetFreeHead(s3, b))
      BY <1>6, <2>4, SetFreeHeadSets, Zenon
    <3>2. FreeHeadSet(D, s3, b, s4)
      BY <1>4, <3>1, Zenon
    <3> QED
      BY <2>4, <3>2, Zenon DEF FreeHeadSet
  <2>6. s4.hdr[b] = s2.hdr[b] /\ \A c \in D \ {a, b} : s4.hdr[c] = s.hdr[c]
    BY <1>9, <2>1, <2>3, <2>5 DEF OnlyHeader
  <2>7. /\ s4.hdr[a].free_prev = b /\ s4.hdr[a].free_next = s.hdr[a].free_next
        /\ s4.hdr[a].size = s.hdr[a].size /\ s4.hdr[a].used = s.hdr[a].used
        /\ s4.hdr[a].prev = s.hdr[a].prev
    BY <1>9, <2>1, <2>3, <2>5, Zenon
  <2>8. s4.hdr[b].free_next = s.free_head /\ s4.hdr[b].free_prev = Null
    BY <1>8, <2>6, Zenon
  <2>9. SameBlocks(D, s, s4)
    BY <1>8, <2>5, <2>6, <2>7, Zenon DEF SameBlocks
  <2> QED
    BY <1>5, <2>1, <2>5, <2>6, <2>7, <2>8, <2>9, Zenon
<1> QED
  BY <1>10, <1>11, Zenon

(* remove_free_block unlinks b on both sides. *)
LEMMA RemoveEffect ==
  ASSUME NEW D \in SUBSET Nat, NEW s \in HeapState(D), NEW b \in D,
         s.hdr[b].free_next \in (D \ {b}) \cup {Null},
         s.hdr[b].free_prev \in (D \ {b}) \cup {Null}
  PROVE  LET t == RemoveFreeBlock(s, b)
             n == s.hdr[b].free_next
             p == s.hdr[b].free_prev IN
         /\ t \in HeapState(D)
         /\ SameBlocks(D, s, t)
         /\ t.free_head = IF p = Null THEN n ELSE s.free_head
         /\ \A c \in D \ {b} :
              /\ t.hdr[c].free_next = IF c = p THEN n ELSE s.hdr[c].free_next
              /\ t.hdr[c].free_prev = IF c = n THEN p ELSE s.hdr[c].free_prev
<1>1. PICK n \in Int, p \in Int : n = s.hdr[b].free_next /\ p = s.hdr[b].free_prev
  BY Zenon DEF HeapState, Header
<1>2. PICK s1 : s1 = IF p # Null THEN SetFreeNext(s, p, n) ELSE SetFreeHead(s, n)
  BY Zenon
<1>3. PICK s2 : s2 = IF n # Null THEN SetFreePrev(s1, n, p) ELSE s1
  BY Zenon
<1>4. PICK s3 : s3 = SetFreeNext(s2, b, Null)
  BY Zenon
<1>5. PICK s4 : s4 = SetFreePrev(s3, b, Null)
  BY Zenon
<1>6. RemoveFreeBlock(s, b) = s4
  BY <1>1, <1>2, <1>3, <1>4, <1>5, Zenon DEF RemoveFreeBlock
<1>7. /\ s1 \in HeapState(D) /\ SameBlocks(D, s, s1)
      /\ s1.free_head = IF p = Null THEN n ELSE s.free_head
      /\ \A c \in D : /\ s1.hdr[c].free_next = IF c = p THEN n ELSE s.hdr[c].free_next
                      /\ s1.hdr[c].free_prev = s.hdr[c].free_prev
  <2>1. CASE p = Null
    <3>1. s1 \in HeapState(D) /\ s1.hdr = s.hdr /\ s1.free_head = n
          /\ s1.tail = s.tail /\ s1.heap_end = s.heap_end
      <4>1. FreeHeadSet(D, s, n, SetFreeHead(s, n))
        BY SetFreeHeadSets, Zenon
      <4>2. FreeHeadSet(D, s, n, s1)
        BY <1>2, <2>1, <4>1, Zenon
      <4> QED
        BY <4>2, Zenon DEF FreeHeadSet
    <3>2. \A c \in D : c # p
      BY <2>1
    <3> QED
      BY <2>1, <3>1, <3>2, Zenon DEF SameBlocks
  <2>2. CASE p # Null
    <3>1. p \in D
      BY <1>1, <2>2, Zenon
    <3>2. s1 = SetFreeNext(s, p, n)
      BY <1>2, <2>2, Zenon
    <3>3. /\ OnlyHeader(D, s, s1, p) /\ s1.hdr[p].free_next = n
          /\ s1.hdr[p].size = s.hdr[p].size /\ s1.hdr[p].used = s.hdr[p].used
          /\ s1.hdr[p].prev = s.hdr[p].prev /\ s1.hdr[p].free_prev = s.hdr[p].free_prev
      BY <3>1, <3>2, SetFreeNextEffect
    <3>4. \A c \in D \ {p} : s1.hdr[c] = s.hdr[c]
      BY <3>3, Zenon DEF OnlyHeader
    <3>5. SameBlocks(D, s, s1)
      BY <3>3, <3>4, Zenon DEF SameBlocks, OnlyHeader
    <3> QED
      BY <2>2, <3>3, <3>4, <3>5, Zenon DEF OnlyHeader
  <2> QED
    BY <2>1, <2>2, Zenon
<1>8. /\ s2 \in HeapState(D) /\ SameBlocks(D, s1, s2)
      /\ s2.free_head = s1.free_head
      /\ \A c \in D : /\ s2.hdr[c].free_next = s1.hdr[c].free_next
                      /\ s2.hdr[c].free_prev = IF c = n THEN p ELSE s1.hdr[c].free_prev
  <2>1. CASE n = Null
    <3>1. s2 = s1 /\ \A c \in D : c # n
      BY <1>3, <2>1
    <3> QED
      BY <1>7, <3>1, Zenon DEF SameBlocks
  <2>2. CASE n # Null
    <3>1. n \in D
      BY <1>1, <2>2, Zenon
    <3>2. s2 = SetFreePrev(s1, n, p)
      BY <1>3, <2>2, Zenon
    <3>3. /\ OnlyHeader(D, s1, s2, n) /\ s2.hdr[n].free_prev = p
          /\ s2.hdr[n].size = s1.hdr[n].size /\ s2.hdr[n].used = s1.hdr[n].used
          /\ s2.hdr[n].prev = s1.hdr[n].prev /\ s2.hdr[n].free_next = s1.hdr[n].free_next
      BY <1>7, <3>1, <3>2, SetFreePrevEffect
    <3>4. \A c \in D \ {n} : s2.hdr[c] = s1.hdr[c]
      BY <3>3, Zenon DEF OnlyHeader
    <3>5. SameBlocks(D, s1, s2)
      BY <3>3, <3>4, Zenon DEF SameBlocks, OnlyHeader
    <3> QED
      BY <3>3, <3>4, <3>5, Zenon DEF OnlyHeader
  <2> QED
    BY <2>1, <2>2, Zenon
<1>9. /\ OnlyHeader(D, s2, s3, b)
      /\ s3.hdr[b].size = s2.hdr[b].size /\ s3.hdr[b].used = s2.hdr[b].used
      /\ s3.hdr[b].prev = s2.hdr[b].prev
  BY <1>4, <1>8, SetFreeNextEffect
<1>10. s3 \in HeapState(D)
  BY <1>9, Zenon DEF OnlyHeader
<1>11. /\ OnlyHeader(D, s3, s4, b)
       /\ s4.hdr[b].size = s3.hdr[b].size /\ s4.hdr[b].used = s3.hdr[b].used
       /\ s4.hdr[b].prev = s3.hdr[b].prev
  BY <1>5, <1>10, SetFreePrevEffect
<1>12. /\ s4 \in HeapState(D) /\ s4.free_head = s2.free_head
       /\ s4.tail = s2.tail /\ s4.heap_end = s2.heap_end
       /\ \A c \in D \ {b} : s4.hdr[c] = s2.hdr[c]
  BY <1>9, <1>11, Zenon DEF OnlyHeader
<1>13. SameBlocks(D, s, s4)
  BY <1>7, <1>8, <1>9, <1>11, <1>12 DEF SameBlocks
<1>14. \A c \in D \ {b} : /\ s4.hdr[c].free_next = IF c = p THEN n ELSE s.hdr[c].free_next
                          /\ s4.hdr[c].free_prev = IF c = n THEN p ELSE s.hdr[c].free_prev
  BY <1>7, <1>8, <1>12
<1> QED
  BY <1>1, <1>6, <1>7, <1>8, <1>12, <1>13, <1>14

(* t is s with b unlinked from the free list. *)
Unlinked(D, s, b, t) ==
  /\ t \in HeapState(D) /\ SameBlocks(D, s, t)
  /\ t.free_head = IF s.hdr[b].free_prev = Null THEN s.hdr[b].free_next ELSE s.free_head
  /\ \A c \in D \ {b} :
       /\ t.hdr[c].free_next = IF c = s.hdr[b].free_prev THEN s.hdr[b].free_next
                               ELSE s.hdr[c].free_next
       /\ t.hdr[c].free_prev = IF c = s.hdr[b].free_next THEN s.hdr[b].free_prev
                               ELSE s.hdr[c].free_prev

(* remove_free_block, as one fact. *)
LEMMA RemoveUnlinks ==
  ASSUME NEW D \in SUBSET Nat, NEW s \in HeapState(D), NEW b \in D,
         s.hdr[b].free_next \in (D \ {b}) \cup {Null},
         s.hdr[b].free_prev \in (D \ {b}) \cup {Null}
  PROVE  Unlinked(D, s, b, RemoveFreeBlock(s, b))
BY RemoveEffect DEF Unlinked

(* insert_after links new behind this; the block that ends this, if any,   *)
(* gets new as its prev.                                                   *)
LEMMA InsertAfterEffect ==
  ASSUME NEW D \in SUBSET Nat, NEW s \in HeapState(D), NEW this \in D, NEW new \in D,
         this # s.tail => EndPtr(s, this) \in D
  PROVE  LET t == InsertAfter(s, this, new) IN
         /\ t \in HeapState(D) /\ SameLinks(D, s, t)
         /\ t.heap_end = s.heap_end
         /\ t.tail = IF this = s.tail THEN new ELSE s.tail
         /\ \A c \in D : /\ t.hdr[c].size = s.hdr[c].size
                         /\ t.hdr[c].used = s.hdr[c].used
         /\ t.hdr[new].prev = this
         /\ \A c \in D \ {new} :
              t.hdr[c].prev = IF this # s.tail /\ c = EndPtr(s, this) THEN new
                              ELSE s.hdr[c].prev
<1>1. PICK s1 : s1 = IF this # s.tail THEN SetPrev(s, EndPtr(s, this), new)
                     ELSE SetTail(s, new)
  BY Zenon
<1>2. PICK s2 : s2 = SetPrev(s1, new, this)
  BY Zenon
<1>3. InsertAfter(s, this, new) = s2
  BY <1>1, <1>2, Zenon DEF InsertAfter
<1>4. this \in Int /\ new \in Int
  OBVIOUS
<1>5. /\ s1 \in HeapState(D) /\ s1.free_head = s.free_head /\ s1.heap_end = s.heap_end
      /\ s1.tail = IF this = s.tail THEN new ELSE s.tail
      /\ \A c \in D :
           /\ s1.hdr[c].size = s.hdr[c].size /\ s1.hdr[c].used = s.hdr[c].used
           /\ s1.hdr[c].free_next = s.hdr[c].free_next
           /\ s1.hdr[c].free_prev = s.hdr[c].free_prev
           /\ s1.hdr[c].prev = IF this # s.tail /\ c = EndPtr(s, this) THEN new
                               ELSE s.hdr[c].prev
  <2>1. CASE this = s.tail
    <3>1. /\ s1 \in HeapState(D) /\ s1.hdr = s.hdr /\ s1.tail = new
          /\ s1.heap_end = s.heap_end /\ s1.free_head = s.free_head
      <4>1. TailSet(D, s, new, SetTail(s, new))
        BY <1>4, SetTailSets, Zenon
      <4>2. TailSet(D, s, new, s1)
        BY <1>1, <2>1, <4>1, Zenon
      <4> QED
        BY <4>2, Zenon DEF TailSet
    <3> QED
      BY <2>1, <3>1, Zenon
  <2>2. CASE this # s.tail
    <3>1. PICK e \in D : e = EndPtr(s, this)
      BY <2>2, Zenon
    <3>2. s1 = SetPrev(s, e, new)
      BY <1>1, <2>2, <3>1, Zenon
    <3>3. /\ OnlyHeader(D, s, s1, e) /\ s1.hdr[e].prev = new
          /\ s1.hdr[e].size = s.hdr[e].size /\ s1.hdr[e].used = s.hdr[e].used
          /\ s1.hdr[e].free_next = s.hdr[e].free_next
          /\ s1.hdr[e].free_prev = s.hdr[e].free_prev
      <4>1. new \in Int
        BY <1>4, Zenon
      <4> QED
        <5>1. PrevSet(D, s, e, new, SetPrev(s, e, new))
          BY <4>1, SetPrevSets, Zenon
        <5> QED
          BY <3>2, <5>1, Zenon DEF PrevSet
    <3>4. /\ s1 \in HeapState(D) /\ s1.tail = s.tail /\ s1.heap_end = s.heap_end
          /\ s1.free_head = s.free_head /\ \A c \in D \ {e} : s1.hdr[c] = s.hdr[c]
      BY <3>3, Zenon DEF OnlyHeader
    <3> QED
      BY <2>2, <3>1, <3>3, <3>4, Zenon
  <2> QED
    BY <2>1, <2>2, Zenon
<1>6. /\ OnlyHeader(D, s1, s2, new) /\ s2.hdr[new].prev = this
      /\ s2.hdr[new].size = s1.hdr[new].size /\ s2.hdr[new].used = s1.hdr[new].used
      /\ s2.hdr[new].free_next = s1.hdr[new].free_next
      /\ s2.hdr[new].free_prev = s1.hdr[new].free_prev
  <2>1. PrevSet(D, s1, new, this, SetPrev(s1, new, this))
    BY <1>4, <1>5, SetPrevSets, Zenon
  <2> QED
    BY <1>2, <2>1, Zenon DEF PrevSet
<1>7. /\ s2 \in HeapState(D) /\ s2.tail = s1.tail /\ s2.heap_end = s1.heap_end
      /\ s2.free_head = s1.free_head /\ \A c \in D \ {new} : s2.hdr[c] = s1.hdr[c]
  BY <1>6, Zenon DEF OnlyHeader
<1>8. \A c \in D : /\ s2.hdr[c].size = s.hdr[c].size /\ s2.hdr[c].used = s.hdr[c].used
                   /\ s2.hdr[c].free_next = s.hdr[c].free_next
                   /\ s2.hdr[c].free_prev = s.hdr[c].free_prev
  BY <1>5, <1>6, <1>7
<1>9. SameLinks(D, s, s2)
  BY <1>5, <1>7, <1>8, Zenon DEF SameLinks
<1>10. \A c \in D \ {new} :
         s2.hdr[c].prev = IF this # s.tail /\ c = EndPtr(s, this) THEN new
                          ELSE s.hdr[c].prev
  BY <1>5, <1>7, ZenonT(30)
<1> QED
  BY <1>3, <1>5, <1>6, <1>7, <1>8, <1>9, <1>10, Zenon

(* t is s with new linked behind this. *)
LinkedAfter(D, s, this, new, t) ==
  /\ t \in HeapState(D) /\ SameLinks(D, s, t)
  /\ t.heap_end = s.heap_end
  /\ t.tail = IF this = s.tail THEN new ELSE s.tail
  /\ \A c \in D : t.hdr[c].size = s.hdr[c].size /\ t.hdr[c].used = s.hdr[c].used
  /\ t.hdr[new].prev = this
  /\ \A c \in D \ {new} :
       t.hdr[c].prev = IF this # s.tail /\ c = EndPtr(s, this) THEN new
                       ELSE s.hdr[c].prev

(* insert_after, as one fact. *)
LEMMA InsertAfterLinks ==
  ASSUME NEW D \in SUBSET Nat, NEW s \in HeapState(D), NEW this \in D, NEW new \in D,
         this # s.tail => EndPtr(s, this) \in D
  PROVE  LinkedAfter(D, s, this, new, InsertAfter(s, this, new))
BY InsertAfterEffect DEF LinkedAfter

(* remove_from_list hands the prev of this to the block that ends it. *)
LEMMA RemoveFromListEffect ==
  ASSUME NEW D \in SUBSET Nat, NEW s \in HeapState(D), NEW this \in D,
         this # s.tail => EndPtr(s, this) \in D
  PROVE  LET t == RemoveFromList(s, this) IN
         /\ t \in HeapState(D) /\ SameLinks(D, s, t)
         /\ t.heap_end = s.heap_end
         /\ t.tail = IF this = s.tail THEN s.hdr[this].prev ELSE s.tail
         /\ \A c \in D : /\ t.hdr[c].size = s.hdr[c].size
                         /\ t.hdr[c].used = s.hdr[c].used
                         /\ t.hdr[c].prev = IF this # s.tail /\ c = EndPtr(s, this)
                                            THEN s.hdr[this].prev ELSE s.hdr[c].prev
<1>1. PICK t : t = RemoveFromList(s, this)
  BY Zenon
<1>2. s.hdr[this].prev \in Int
  BY Zenon DEF HeapState, Header
<1>3. CASE this = s.tail
  <2>1. t = SetTail(s, s.hdr[this].prev)
    BY <1>1, <1>3, Zenon DEF RemoveFromList
  <2>2. /\ t \in HeapState(D) /\ t.hdr = s.hdr /\ t.tail = s.hdr[this].prev
        /\ t.heap_end = s.heap_end /\ t.free_head = s.free_head
    <3>1. TailSet(D, s, s.hdr[this].prev, SetTail(s, s.hdr[this].prev))
      BY <1>2, SetTailSets, Zenon
    <3> QED
      BY <2>1, <3>1, Zenon DEF TailSet
  <2> QED
    BY <1>1, <1>3, <2>2, Zenon DEF SameLinks
<1>4. CASE this # s.tail
  <2>1. PICK e \in D : e = EndPtr(s, this)
    BY <1>4, Zenon
  <2>2. t = SetPrev(s, e, s.hdr[this].prev)
    BY <1>1, <1>4, <2>1, Zenon DEF RemoveFromList
  <2>3. /\ OnlyHeader(D, s, t, e) /\ t.hdr[e].prev = s.hdr[this].prev
        /\ t.hdr[e].size = s.hdr[e].size /\ t.hdr[e].used = s.hdr[e].used
        /\ t.hdr[e].free_next = s.hdr[e].free_next
        /\ t.hdr[e].free_prev = s.hdr[e].free_prev
    BY <1>2, <2>2, SetPrevEffect
  <2>4. /\ t \in HeapState(D) /\ t.tail = s.tail /\ t.heap_end = s.heap_end
        /\ t.free_head = s.free_head /\ \A c \in D \ {e} : t.hdr[c] = s.hdr[c]
    BY <2>3, Zenon DEF OnlyHeader
  <2>5. SameLinks(D, s, t)
    BY <2>3, <2>4, Zenon DEF SameLinks
  <2> QED
    BY <1>1, <1>4, <2>1, <2>3, <2>4, <2>5, Zenon
<1> QED
  BY <1>3, <1>4, Zenon

(* this is out of the list of blocks. *)
OutOfBlocks(D, s, this, t) ==
  /\ t \in HeapState(D) /\ SameLinks(D, s, t)
  /\ t.heap_end = s.heap_end
  /\ t.tail = IF this = s.tail THEN s.hdr[this].prev ELSE s.tail
  /\ \A c \in D : /\ t.hdr[c].size = s.hdr[c].size
                  /\ t.hdr[c].used = s.hdr[c].used
                  /\ t.hdr[c].prev = IF this # s.tail /\ c = EndPtr(s, this)
                                     THEN s.hdr[this].prev ELSE s.hdr[c].prev

(* remove_from_list takes this out of the list of blocks. *)
LEMMA RemoveTakesOut ==
  ASSUME NEW D \in SUBSET Nat, NEW s \in HeapState(D), NEW this \in D,
         this # s.tail => EndPtr(s, this) \in D
  PROVE  OutOfBlocks(D, s, this, RemoveFromList(s, this))
BY RemoveFromListEffect, ZenonT(30) DEF OutOfBlocks

-----------------------------------------------------------------------------
(* The free list depends on nothing but the links of its own blocks. *)
LEMMA ChainFrame ==
  ASSUME NEW F, NEW s, NEW t, FreeOK(s, F), SameLinks(F, s, t)
  PROVE  FreeOK(t, F)
<1>0. PICK n \in Nat : \E f \in [1..n -> F] : FreeChain(s, F, n, f)
  BY Zenon DEF FreeOK
<1>1. PICK f \in [1..n -> F] : FreeChain(s, F, n, f)
  BY <1>0, Zenon
<1>2. FreeChain(t, F, n, f)
  BY <1>1, ZenonT(30) DEF FreeChain, SameLinks
<1> QED
  BY <1>2, Zenon DEF FreeOK

(* The ends of the free list are free blocks or Null. *)
LEMMA ChainEnds ==
  ASSUME NEW F \in SUBSET Nat, NEW s, FreeOK(s, F)
  PROVE  /\ s.free_head \in F \cup {Null}
         /\ \A b \in F : /\ s.hdr[b].free_next \in (F \ {b}) \cup {Null}
                         /\ s.hdr[b].free_prev \in (F \ {b}) \cup {Null}
<1>0. PICK n \in Nat : \E f \in [1..n -> F] : FreeChain(s, F, n, f)
  BY Zenon DEF FreeOK
<1>1. PICK f \in [1..n -> F] : FreeChain(s, F, n, f)
  BY <1>0, Zenon
<1>2. s.free_head \in F \cup {Null}
  BY <1>1 DEF FreeChain
<1>3. ASSUME NEW b \in F
      PROVE  /\ s.hdr[b].free_next \in (F \ {b}) \cup {Null}
             /\ s.hdr[b].free_prev \in (F \ {b}) \cup {Null}
  <2>1. PICK i \in 1..n : f[i] = b
    BY <1>1, Zenon DEF FreeChain
  <2>2. s.hdr[b].free_next = IF i = n THEN Null ELSE f[i + 1]
    BY <1>1, <2>1, Zenon DEF FreeChain
  <2>3. s.hdr[b].free_prev = IF i = 1 THEN Null ELSE f[i - 1]
    BY <1>1, <2>1, Zenon DEF FreeChain
  <2>4. i # n => i + 1 \in 1..n /\ f[i + 1] \in F /\ f[i + 1] # b
    BY <1>1, <2>1 DEF FreeChain
  <2>5. i # 1 => i - 1 \in 1..n /\ f[i - 1] \in F /\ f[i - 1] # b
    BY <1>1, <2>1 DEF FreeChain
  <2> QED
    BY <2>2, <2>3, <2>4, <2>5, Zenon
<1> QED
  BY <1>2, <1>3, Zenon

(* insert_free_block makes b the first of the list. *)
LEMMA ChainInsert ==
  ASSUME NEW D \in SUBSET Nat, NEW s \in HeapState(D), NEW F \in SUBSET D,
         FreeOK(s, F), NEW b \in D \ F
  PROVE  FreeOK(InsertFreeBlock(s, b), F \cup {b})
<1>0. PICK n \in Nat : \E f \in [1..n -> F] : FreeChain(s, F, n, f)
  BY Zenon DEF FreeOK
<1>1. PICK f \in [1..n -> F] : FreeChain(s, F, n, f)
  BY <1>0, Zenon
<1>2. PICK t : t = InsertFreeBlock(s, b)
  BY Zenon
<1>3. /\ t.free_head = b
      /\ t.hdr[b].free_next = s.free_head
      /\ t.hdr[b].free_prev = Null
      /\ \A c \in F : /\ t.hdr[c].free_next = s.hdr[c].free_next
                      /\ t.hdr[c].free_prev = IF c = s.free_head THEN b
                                              ELSE s.hdr[c].free_prev
  <2>1. s.free_head \in (D \ {b}) \cup {Null}
    BY ChainEnds, Zenon
  <2> QED
    BY <1>2, <2>1, InsertEffect
<1>4. PICK g : g = [i \in 1..(n + 1) |-> IF i = 1 THEN b ELSE f[i - 1]]
  BY Zenon
<1>5. g \in [1..(n + 1) -> F \cup {b}] /\ g[1] = b
  BY <1>4
<1>6. \A i \in 1..n : g[i + 1] = f[i] /\ f[i] \in F
  BY <1>4
<1>7. \A i \in 1..(n + 1) : i # 1 => i - 1 \in 1..n /\ g[i] = f[i - 1]
  BY <1>4
<1>8. \A c \in F \cup {b} : \E i \in 1..(n + 1) : g[i] = c
  <2> TAKE c \in F \cup {b}
  <2>1. CASE c = b
    BY <1>5, <2>1
  <2>2. CASE c \in F
    <3>1. PICK i \in 1..n : f[i] = c
      BY <1>1, <2>2, Zenon DEF FreeChain
    <3>2. i + 1 \in 1..(n + 1)
      OBVIOUS
    <3> QED
      BY <1>6, <3>1, <3>2, Zenon
  <2> QED
    BY <2>1, <2>2, Zenon
<1>9. \A i, j \in 1..(n + 1) : g[i] = g[j] => i = j
  <2> SUFFICES ASSUME NEW i \in 1..(n + 1), NEW j \in 1..(n + 1), g[i] = g[j], i # j
               PROVE  FALSE
    BY Zenon
  <2>1. CASE i = 1
    BY <1>5, <1>6, <1>7, <2>1
  <2>2. CASE j = 1
    BY <1>5, <1>6, <1>7, <2>2
  <2>3. CASE i # 1 /\ j # 1
    <3>1. i - 1 \in 1..n /\ j - 1 \in 1..n /\ f[i - 1] = f[j - 1]
      BY <1>7, <2>3, Zenon
    <3>2. i - 1 = j - 1
      BY <1>1, <3>1, Zenon DEF FreeChain
    <3> QED
      BY <3>2
  <2> QED
    BY <2>1, <2>2, <2>3, Zenon
<1>10. ASSUME NEW i \in 1..(n + 1)
       PROVE  t.hdr[g[i]].free_next = IF i = n + 1 THEN Null ELSE g[i + 1]
  <2>1. CASE i = 1
    <3>1. s.free_head = IF n = 0 THEN Null ELSE f[1]
      BY <1>1, Zenon DEF FreeChain
    <3>2. n # 0 => g[2] = f[1]
      BY <1>4
    <3> QED
      BY <1>3, <1>5, <2>1, <3>1, <3>2
  <2>2. CASE i # 1
    <3>1. i - 1 \in 1..n /\ g[i] = f[i - 1] /\ f[i - 1] \in F
      BY <1>7, <2>2, Zenon
    <3>2. s.hdr[f[i - 1]].free_next = IF i - 1 = n THEN Null ELSE f[(i - 1) + 1]
      BY <1>1, <3>1, Zenon DEF FreeChain
    <3>3. i # n + 1 => g[i + 1] = f[i]
      BY <1>4, <3>1
    <3>4. s.hdr[f[i - 1]].free_next = IF i = n + 1 THEN Null ELSE f[i]
      <4>1. (i - 1) + 1 = i /\ (i - 1 = n <=> i = n + 1)
        OBVIOUS
      <4> QED
        BY <3>2, <4>1, Zenon
    <3> QED
      BY <1>3, <3>1, <3>3, <3>4, ZenonT(30)
  <2> QED
    BY <2>1, <2>2, Zenon
<1>11. ASSUME NEW i \in 1..(n + 1)
       PROVE  t.hdr[g[i]].free_prev = IF i = 1 THEN Null ELSE g[i - 1]
  <2>1. CASE i = 1
    BY <1>3, <1>5, <2>1, Zenon
  <2>2. CASE i # 1
    <3>1. i - 1 \in 1..n /\ g[i] = f[i - 1] /\ f[i - 1] \in F
      BY <1>7, <2>2, Zenon
    <3>2. s.hdr[f[i - 1]].free_prev = IF i - 1 = 1 THEN Null ELSE f[(i - 1) - 1]
      BY <1>1, <3>1, Zenon DEF FreeChain
    <3>3. CASE i = 2
      <4>1. s.free_head = f[1]
        BY <1>1, <3>1 DEF FreeChain
      <4>2. g[2] = f[1] /\ f[1] \in F
        BY <3>1, <3>3
      <4>3. t.hdr[f[1]].free_prev = b
        BY <1>3, <4>1, <4>2, Zenon
      <4> QED
        BY <1>5, <3>3, <4>2, <4>3
    <3>4. CASE i # 2
      <4>1. s.free_head = f[1] /\ f[i - 1] # f[1] /\ 1 \in 1..n
        BY <1>1, <3>1, <3>4 DEF FreeChain
      <4>2. g[i - 1] = f[(i - 1) - 1]
        BY <1>4, <3>1, <3>4
      <4> QED
        BY <1>3, <2>2, <3>1, <3>2, <3>4, <4>1, <4>2, ZenonT(30)
    <3> QED
      BY <3>3, <3>4, Zenon
  <2> QED
    BY <2>1, <2>2, Zenon
<1>12. FreeChain(t, F \cup {b}, n + 1, g)
  BY <1>3, <1>5, <1>8, <1>9, <1>10, <1>11 DEF FreeChain
<1> QED
  BY <1>2, <1>5, <1>12 DEF FreeOK

(* remove_free_block takes b out and leaves the order of the others. *)
LEMMA ChainRemove ==
  ASSUME NEW D \in SUBSET Nat, NEW s \in HeapState(D), NEW F \in SUBSET D,
         FreeOK(s, F), NEW b \in F
  PROVE  FreeOK(RemoveFreeBlock(s, b), F \ {b})
<1>0. PICK n \in Nat : \E f \in [1..n -> F] : FreeChain(s, F, n, f)
  BY Zenon DEF FreeOK
<1>1. PICK f \in [1..n -> F] : FreeChain(s, F, n, f)
  BY <1>0, Zenon
<1>2. PICK t : t = RemoveFreeBlock(s, b)
  BY Zenon
<1>3. PICK k \in 1..n : f[k] = b
  BY <1>1, Zenon DEF FreeChain
<1>4. \A i, j \in 1..n : f[i] = f[j] => i = j
  BY <1>1, Zenon DEF FreeChain
<1>5. /\ \A i \in 1..n : s.hdr[f[i]].free_next = IF i = n THEN Null ELSE f[i + 1]
      /\ \A i \in 1..n : s.hdr[f[i]].free_prev = IF i = 1 THEN Null ELSE f[i - 1]
      /\ s.free_head = f[1]
  <2>1. n # 0
    BY <1>3
  <2> QED
    BY <1>1, <2>1, Zenon DEF FreeChain
<1>6. PICK x, p : /\ x = IF k = n THEN Null ELSE f[k + 1]
                  /\ p = IF k = 1 THEN Null ELSE f[k - 1]
  BY Zenon
<1>7. s.hdr[b].free_next = x /\ s.hdr[b].free_prev = p
  BY <1>3, <1>5, <1>6, Zenon
<1>8. /\ t.free_head = IF p = Null THEN x ELSE s.free_head
      /\ \A c \in D \ {b} :
              /\ t.hdr[c].free_next = IF c = p THEN x ELSE s.hdr[c].free_next
              /\ t.hdr[c].free_prev = IF c = x THEN p ELSE s.hdr[c].free_prev
  <2>1. /\ s.hdr[b].free_next \in (D \ {b}) \cup {Null}
        /\ s.hdr[b].free_prev \in (D \ {b}) \cup {Null}
    BY ChainEnds, Zenon
  <2>2. b \in D
    BY Zenon
  <2>3. /\ t.free_head = IF s.hdr[b].free_prev = Null THEN s.hdr[b].free_next ELSE s.free_head
        /\ \A c \in D \ {b} :
              /\ t.hdr[c].free_next = IF c = s.hdr[b].free_prev THEN s.hdr[b].free_next
                                      ELSE s.hdr[c].free_next
              /\ t.hdr[c].free_prev = IF c = s.hdr[b].free_next THEN s.hdr[b].free_prev
                                      ELSE s.hdr[c].free_prev
    <3>1. Unlinked(D, s, b, RemoveFreeBlock(s, b))
      BY <2>1, <2>2, RemoveUnlinks, Zenon
    <3> QED
      BY <1>2, <3>1, Zenon DEF Unlinked
  <2> QED
    BY <1>7, <2>3, Zenon
<1>9. PICK g : g = [i \in 1..(n - 1) |-> IF i < k THEN f[i] ELSE f[i + 1]]
  BY Zenon
<1>10. \A i \in 1..(n - 1) :
         /\ g[i] = IF i < k THEN f[i] ELSE f[i + 1]
         /\ i \in 1..n /\ i + 1 \in 1..n
  BY <1>9
<1>11. ASSUME NEW i \in 1..(n - 1) PROVE g[i] \in F \ {b} /\ g[i] \in D \ {b}
  <2>1. PICK j \in 1..n : g[i] = f[j] /\ j # k
    <3>1. CASE i < k
      BY <1>10, <3>1
    <3>2. CASE ~(i < k)
      <4>1. i + 1 \in 1..n /\ i + 1 # k /\ g[i] = f[i + 1]
        BY <1>10, <3>2
      <4> QED
        BY <4>1, Zenon
    <3> QED
      BY <3>1, <3>2, Zenon
  <2>2. f[j] \in F /\ f[j] # b
    BY <1>3, <1>4, <2>1, Zenon
  <2> QED
    BY <2>1, <2>2, Zenon
<1>12. g \in [1..(n - 1) -> F \ {b}] /\ n - 1 \in Nat
  BY <1>9, <1>11
<1>13. \A c \in F \ {b} : \E i \in 1..(n - 1) : g[i] = c
  <2> TAKE c \in F \ {b}
  <2>1. PICK i \in 1..n : f[i] = c
    BY <1>1, Zenon DEF FreeChain
  <2>2. i # k
    BY <1>3, <2>1, Zenon
  <2>3. CASE i < k
    <3>1. i \in 1..(n - 1)
      BY <2>3
    <3> QED
      BY <1>10, <2>1, <2>3, <3>1, Zenon
  <2>4. CASE i > k
    <3>1. i - 1 \in 1..(n - 1) /\ ~(i - 1 < k) /\ (i - 1) + 1 = i
      BY <2>4
    <3>2. g[i - 1] = f[i]
      BY <1>10, <3>1, Zenon
    <3> QED
      BY <2>1, <3>1, <3>2, Zenon
  <2> QED
    BY <2>2, <2>3, <2>4
<1>14. \A i, j \in 1..(n - 1) : g[i] = g[j] => i = j
  <2> SUFFICES ASSUME NEW i \in 1..(n - 1), NEW j \in 1..(n - 1), g[i] = g[j]
               PROVE  i = j
    BY Zenon
  <2>1. CASE i < k /\ j < k
    BY <1>4, <1>10, <2>1, Zenon
  <2>2. CASE i < k /\ ~(j < k)
    <3>1. f[i] = f[j + 1]
      BY <1>10, <2>2, Zenon
    <3> QED
      BY <1>4, <1>10, <2>2, <3>1
  <2>3. CASE ~(i < k) /\ j < k
    <3>1. f[i + 1] = f[j]
      BY <1>10, <2>3, Zenon
    <3> QED
      BY <1>4, <1>10, <2>3, <3>1
  <2>4. CASE ~(i < k) /\ ~(j < k)
    <3>1. f[i + 1] = f[j + 1]
      BY <1>10, <2>4, Zenon
    <3> QED
      BY <1>4, <1>10, <3>1
  <2> QED
    BY <2>1, <2>2, <2>3, <2>4, Zenon
<1>15. p = Null <=> k = 1
  BY <1>3, <1>6
<1>16. t.free_head = IF n - 1 = 0 THEN Null ELSE g[1]
  <2>1. CASE k = 1
    <3>1. n - 1 # 0 => g[1] = f[2]
      BY <1>10, <2>1
    <3> QED
      BY <1>6, <1>8, <1>15, <2>1, <3>1
  <2>2. CASE k # 1
    <3>1. g[1] = f[1] /\ n - 1 # 0
      BY <1>10, <2>2
    <3> QED
      BY <1>5, <1>8, <1>15, <2>2, <3>1, Zenon
  <2> QED
    BY <2>1, <2>2, Zenon
<1>17. ASSUME NEW i \in 1..(n - 1)
       PROVE  t.hdr[g[i]].free_next = IF i = n - 1 THEN Null ELSE g[i + 1]
  <2>1. i # n - 1 => i + 1 \in 1..(n - 1)
    OBVIOUS
  <2>2. CASE i + 1 < k
    <3>1. g[i] = f[i] /\ g[i + 1] = f[i + 1] /\ i # n - 1
      BY <1>10, <2>1, <2>2
    <3>2. f[i] # p
      BY <1>4, <1>6, <1>10, <2>2
    <3>3. s.hdr[f[i]].free_next = f[i + 1]
      <4>1. i \in 1..n /\ i # n
        OBVIOUS
      <4> QED
        BY <1>5, <4>1, Zenon
    <3>4. t.hdr[f[i]].free_next = s.hdr[f[i]].free_next
      BY <1>8, <1>11, <3>1, <3>2, Zenon
    <3> QED
      BY <3>1, <3>3, <3>4, Zenon
  <2>3. CASE i + 1 = k
    <3>1. g[i] = f[i] /\ p = f[i]
      BY <1>6, <1>10, <2>3
    <3>2. t.hdr[g[i]].free_next = x
      BY <1>8, <1>11, <3>1, Zenon
    <3>3. i # n - 1 => g[i + 1] = f[k + 1]
      BY <1>10, <2>1, <2>3
    <3> QED
      BY <1>6, <2>3, <3>2, <3>3
  <2>4. CASE i + 1 > k
    <3>1. g[i] = f[i + 1]
      BY <1>10, <2>4
    <3>2. f[i + 1] # p
      BY <1>4, <1>6, <1>10, <2>4
    <3>3. s.hdr[f[i + 1]].free_next = IF i + 1 = n THEN Null ELSE f[(i + 1) + 1]
      BY <1>5, <1>10, Zenon
    <3>4. i # n - 1 => g[i + 1] = f[(i + 1) + 1]
      BY <1>10, <2>1, <2>4
    <3>5. i + 1 = n <=> i = n - 1
      OBVIOUS
    <3> QED
      BY <1>8, <1>11, <3>1, <3>2, <3>3, <3>4, <3>5, ZenonT(30)
  <2> QED
    BY <2>2, <2>3, <2>4
<1>18. ASSUME NEW i \in 1..(n - 1)
       PROVE  t.hdr[g[i]].free_prev = IF i = 1 THEN Null ELSE g[i - 1]
  <2>1. i # 1 => i - 1 \in 1..(n - 1)
    OBVIOUS
  <2>2. CASE i < k
    <3>1. g[i] = f[i] /\ (i # 1 => g[i - 1] = f[i - 1])
      BY <1>10, <2>1, <2>2
    <3>2. f[i] # x
      BY <1>4, <1>6, <1>10, <2>2
    <3>3. s.hdr[f[i]].free_prev = IF i = 1 THEN Null ELSE f[i - 1]
      <4>1. i \in 1..n
        OBVIOUS
      <4> QED
        BY <1>5, <4>1, Zenon
    <3>4. t.hdr[f[i]].free_prev = s.hdr[f[i]].free_prev
      BY <1>8, <1>11, <3>1, <3>2, Zenon
    <3> QED
      BY <3>1, <3>3, <3>4, Zenon
  <2>3. CASE i = k
    <3>1. g[i] = f[k + 1] /\ x = f[k + 1]
      BY <1>6, <1>10, <2>3
    <3>2. t.hdr[g[i]].free_prev = p
      BY <1>8, <1>11, <3>1, Zenon
    <3>3. i # 1 => g[i - 1] = f[k - 1]
      BY <1>10, <2>1, <2>3
    <3> QED
      BY <1>6, <2>3, <3>2, <3>3, Zenon
  <2>4. CASE i > k
    <3>1. g[i] = f[i + 1] /\ g[i - 1] = f[i]
      <4>1. i - 1 \in 1..(n - 1) /\ ~(i - 1 < k) /\ (i - 1) + 1 = i
        BY <2>1, <2>4
      <4> QED
        BY <1>10, <2>4, <4>1
    <3>2. f[i + 1] # x
      BY <1>4, <1>6, <1>10, <2>4
    <3>3. s.hdr[f[i + 1]].free_prev = f[i]
      <4>1. i + 1 # 1 /\ (i + 1) - 1 = i
        OBVIOUS
      <4> QED
        BY <1>5, <1>10, <4>1
    <3>4. t.hdr[f[i + 1]].free_prev = s.hdr[f[i + 1]].free_prev
      BY <1>8, <1>11, <3>1, <3>2, Zenon
    <3>5. i # 1
      BY <2>4
    <3> QED
      BY <3>1, <3>3, <3>4, <3>5, Zenon
  <2> QED
    BY <2>2, <2>3, <2>4
<1>19. FreeChain(t, F \ {b}, n - 1, g)
  BY <1>12, <1>13, <1>14, <1>16, <1>17, <1>18, Zenon DEF FreeChain
<1> QED
  BY <1>2, <1>12, <1>19, Zenon DEF FreeOK

-----------------------------------------------------------------------------
(* The blocks tile the heap: Linked, with what its steps rely on.  The     *)
(* blocks lie between HeapStart and tail, no block reaches into a later    *)
(* one, and addresses and sizes are multiples of 8.                        *)
Tiles(s) ==
  LET D == DOMAIN s.hdr IN
  /\ HeapStart \in D /\ s.tail \in D
  /\ s.hdr[HeapStart].prev = Null
  /\ EndPtr(s, s.tail) = s.heap_end
  /\ \A b \in D : /\ HeapStart <= b /\ b <= s.tail /\ b % 8 = 0
                  /\ s.hdr[b].size >= MIN_ALLOC_SIZE /\ s.hdr[b].size % 8 = 0
  /\ \A b \in D \ {s.tail} : EndPtr(s, b) \in D /\ s.hdr[EndPtr(s, b)].prev = b
  /\ \A b \in D \ {HeapStart} : s.hdr[b].prev \in D /\ EndPtr(s, s.hdr[b].prev) = b
  /\ \A b, c \in D : b < c => EndPtr(s, b) <= c

(* Tiles depends on sizes, prev, tail and heap_end only. *)
LEMMA TilesFrame ==
  ASSUME NEW D \in SUBSET Nat, NEW s \in HeapState(D), NEW t \in HeapState(D),
         Tiles(s), t.tail = s.tail, t.heap_end = s.heap_end,
         \A c \in D : t.hdr[c].size = s.hdr[c].size /\ t.hdr[c].prev = s.hdr[c].prev
  PROVE  Tiles(t)
<1>1. DOMAIN s.hdr = D /\ DOMAIN t.hdr = D
  BY Zenon DEF HeapState
<1>2. \A c \in D : EndPtr(t, c) = EndPtr(s, c)
  BY Zenon DEF EndPtr
<1> QED
  BY <1>1, <1>2 DEF Tiles

(* What Tiles says of the blocks D, with the addresses worked out. *)
TileFacts(D, s) ==
  /\ HeapStart \in D /\ s.tail \in D
  /\ s.hdr[HeapStart].prev = Null
  /\ EndPtr(s, s.tail) = s.heap_end
  /\ \A b \in D : /\ HeapStart <= b /\ b <= s.tail /\ b % 8 = 0
                  /\ s.hdr[b].size >= MIN_ALLOC_SIZE /\ s.hdr[b].size % 8 = 0
  /\ \A b \in D \ {s.tail} : EndPtr(s, b) \in D /\ s.hdr[EndPtr(s, b)].prev = b
  /\ \A b \in D \ {HeapStart} : s.hdr[b].prev \in D /\ EndPtr(s, s.hdr[b].prev) = b
  /\ \A b, c \in D : b < c => EndPtr(s, b) <= c
  /\ \A c \in D : /\ c \in Int /\ s.hdr[c].size \in Int /\ EndPtr(s, c) \in Int
                  /\ EndPtr(s, c) = c + 16 + s.hdr[c].size
                  /\ EndPtr(s, c) >= c + 32

(* A heap tiled by its blocks. *)
LEMMA TilesHold ==
  ASSUME NEW D \in SUBSET Nat, NEW s \in HeapState(D), Tiles(s)
  PROVE  TileFacts(D, s)
<1>1. DOMAIN s.hdr = D
  BY Zenon DEF HeapState
<1>2. /\ HeapStart \in D /\ s.tail \in D
      /\ s.hdr[HeapStart].prev = Null
      /\ EndPtr(s, s.tail) = s.heap_end
      /\ \A b \in D : /\ HeapStart <= b /\ b <= s.tail /\ b % 8 = 0
                      /\ s.hdr[b].size >= MIN_ALLOC_SIZE /\ s.hdr[b].size % 8 = 0
      /\ \A b \in D \ {s.tail} : EndPtr(s, b) \in D /\ s.hdr[EndPtr(s, b)].prev = b
      /\ \A b \in D \ {HeapStart} : s.hdr[b].prev \in D /\ EndPtr(s, s.hdr[b].prev) = b
      /\ \A b, c \in D : b < c => EndPtr(s, b) <= c
  BY <1>1, Zenon DEF Tiles
<1>3. \A c \in D : s.hdr[c].size \in Int /\ c \in Int /\ EndPtr(s, c) = c + 16 + s.hdr[c].size
  BY DEF EndPtr, AllocArea, HeapState, Header
<1>4. ASSUME NEW c \in D PROVE EndPtr(s, c) \in Int /\ EndPtr(s, c) >= c + 32
  <2>1. s.hdr[c].size >= 16
    BY <1>2, Zenon
  <2> QED
    BY <1>3, <2>1
<1> QED
  BY <1>2, <1>3, <1>4, Zenon DEF TileFacts

(* The same, fact by fact. *)
LEMMA TilesFacts ==
  ASSUME NEW D \in SUBSET Nat, NEW s \in HeapState(D), Tiles(s)
  PROVE  /\ HeapStart \in D /\ s.tail \in D
         /\ s.hdr[HeapStart].prev = Null
         /\ EndPtr(s, s.tail) = s.heap_end
         /\ \A b \in D : /\ HeapStart <= b /\ b <= s.tail /\ b % 8 = 0
                         /\ s.hdr[b].size >= MIN_ALLOC_SIZE /\ s.hdr[b].size % 8 = 0
         /\ \A b \in D \ {s.tail} : EndPtr(s, b) \in D /\ s.hdr[EndPtr(s, b)].prev = b
         /\ \A b \in D \ {HeapStart} : s.hdr[b].prev \in D /\ EndPtr(s, s.hdr[b].prev) = b
         /\ \A b, c \in D : b < c => EndPtr(s, b) <= c
         /\ \A c \in D : /\ c \in Int /\ s.hdr[c].size \in Int /\ EndPtr(s, c) \in Int
                         /\ EndPtr(s, c) = c + 16 + s.hdr[c].size
                         /\ EndPtr(s, c) >= c + 32
BY TilesHold, Zenon DEF TileFacts

(* Where one block lies. *)
LEMMA BlockPlace ==
  ASSUME NEW D \in SUBSET Nat, NEW s \in HeapState(D), Tiles(s), NEW b \in D
  PROVE  /\ b \in Nat /\ b % 8 = 0 /\ HeapStart <= b /\ b <= s.tail
         /\ s.hdr[b].size \in Int /\ EndPtr(s, b) \in Int
         /\ EndPtr(s, b) = b + 16 + s.hdr[b].size
         /\ EndPtr(s, b) >= b + 32
<1>1. TileFacts(D, s)
  BY TilesHold, Zenon
<1>2. b \in Nat /\ b % 8 = 0 /\ HeapStart <= b /\ b <= s.tail
  BY <1>1, Zenon DEF TileFacts
<1>3. /\ s.hdr[b].size \in Int /\ EndPtr(s, b) \in Int
      /\ EndPtr(s, b) = b + 16 + s.hdr[b].size
      /\ EndPtr(s, b) >= b + 32
  BY <1>1, Zenon DEF TileFacts
<1> QED
  BY <1>2, <1>3, Zenon

(* The last block ends the heap. *)
LEMMA LastBlock ==
  ASSUME NEW D \in SUBSET Nat, NEW s \in HeapState(D), Tiles(s)
  PROVE  s.tail \in D /\ EndPtr(s, s.tail) = s.heap_end
BY TilesHold, Zenon DEF TileFacts

(* Where a block ends, in whole words. *)
LEMMA EightsAdd ==
  ASSUME NEW a \in Int, NEW c \in Int, a % 8 = 0, c % 8 = 0
  PROVE  (a + 16 + c) % 8 = 0
OBVIOUS

(* t has the block this of s cut at new. *)
SplitOff(D, s, this, new, t) ==
  /\ D \in SUBSET Nat /\ s \in HeapState(D) /\ Tiles(s) /\ this \in D
  /\ new \in Nat /\ new % 8 = 0 /\ new >= this + 32 /\ new + 32 <= EndPtr(s, this)
  /\ t \in HeapState(D \cup {new})
  /\ t.hdr[this].size = new - this - 16
  /\ t.hdr[new].size = EndPtr(s, this) - new - 16
  /\ \A c \in D \ {this} : t.hdr[c].size = s.hdr[c].size
  /\ t.hdr[new].prev = this
  /\ \A c \in D : t.hdr[c].prev = IF this # s.tail /\ c = EndPtr(s, this) THEN new
                                  ELSE s.hdr[c].prev
  /\ t.tail = IF this = s.tail THEN new ELSE s.tail
  /\ t.heap_end = s.heap_end

(* Cutting one block in two keeps the tiling. *)
LEMMA TilesSplit ==
  ASSUME NEW D, NEW s, NEW this, NEW new, NEW t, SplitOff(D, s, this, new, t)
  PROVE  Tiles(t) /\ new \notin D
<1> SUFFICES ASSUME D \in SUBSET Nat, s \in HeapState(D), Tiles(s), this \in D,
                    new \in Nat, new % 8 = 0,
                    new >= this + 32, new + 32 <= EndPtr(s, this),
                    t \in HeapState(D \cup {new}),
                    t.hdr[this].size = new - this - 16,
                    t.hdr[new].size = EndPtr(s, this) - new - 16,
                    \A c \in D \ {this} : t.hdr[c].size = s.hdr[c].size,
                    t.hdr[new].prev = this,
                    \A c \in D : t.hdr[c].prev = IF this # s.tail /\ c = EndPtr(s, this)
                                                 THEN new ELSE s.hdr[c].prev,
                    t.tail = IF this = s.tail THEN new ELSE s.tail,
                    t.heap_end = s.heap_end
             PROVE  Tiles(t) /\ new \notin D
  BY Zenon DEF SplitOff
<1>1. DOMAIN s.hdr = D /\ DOMAIN t.hdr = D \cup {new}
  BY Zenon DEF HeapState
<1>2. /\ HeapStart \in D /\ s.tail \in D
      /\ s.hdr[HeapStart].prev = Null
      /\ EndPtr(s, s.tail) = s.heap_end
      /\ \A b \in D : /\ HeapStart <= b /\ b <= s.tail /\ b % 8 = 0
                      /\ s.hdr[b].size >= MIN_ALLOC_SIZE /\ s.hdr[b].size % 8 = 0
      /\ \A b \in D \ {s.tail} : EndPtr(s, b) \in D /\ s.hdr[EndPtr(s, b)].prev = b
      /\ \A b \in D \ {HeapStart} : s.hdr[b].prev \in D /\ EndPtr(s, s.hdr[b].prev) = b
      /\ \A b, c \in D : b < c => EndPtr(s, b) <= c
  <2>1. TileFacts(D, s)
    BY TilesHold, Zenon
  <2> QED
    BY <2>1, Zenon DEF TileFacts
<1>3. \A c \in D : s.hdr[c].size \in Int /\ c \in Int /\ EndPtr(s, c) = c + 16 + s.hdr[c].size
  <2>1. TileFacts(D, s)
    BY TilesHold, Zenon
  <2> QED
    BY <2>1, Zenon DEF TileFacts
<1>4. \A c \in D : EndPtr(s, c) \in Int /\ EndPtr(s, c) >= c + 32
  <2>1. TileFacts(D, s)
    BY TilesHold, Zenon
  <2> QED
    BY <2>1, Zenon DEF TileFacts
<1>5. new \notin D
  <2> SUFFICES ASSUME new \in D PROVE FALSE
    BY Zenon
  <2>1. this \in Int /\ EndPtr(s, this) \in Int /\ this < new
    BY <1>3, <1>4
  <2>2. EndPtr(s, this) <= new
    BY <1>2, <2>1, Zenon
  <2> QED
    BY <2>1, <2>2
<1>6. PICK z \in Int : z = EndPtr(s, this)
  BY <1>4, Zenon
<1>7. /\ EndPtr(t, this) = new
      /\ EndPtr(t, new) = z
      /\ \A c \in D \ {this} : EndPtr(t, c) = EndPtr(s, c)
  BY <1>3, <1>6 DEF EndPtr, AllocArea
<1>8. \A c \in D : c > this => c >= z
  BY <1>2, <1>6, Zenon
<1>9. HeapStart \in D \cup {new} /\ t.tail \in D \cup {new}
  BY <1>2, Zenon
<1>10. t.hdr[HeapStart].prev = Null
  <2>1. HeapStart <= this /\ z >= this + 32 /\ HeapStart \in Int
    BY <1>2, <1>3, <1>4, <1>6, Zenon
  <2>2. HeapStart # z
    BY <2>1
  <2> QED
    BY <1>2, <1>6, <2>2, Zenon
<1>11. EndPtr(t, t.tail) = t.heap_end
  <2>1. CASE this = s.tail
    BY <1>2, <1>6, <1>7, <2>1, Zenon
  <2>2. CASE this # s.tail
    BY <1>2, <1>7, <2>2, ZenonT(30)
  <2> QED
    BY <2>1, <2>2, Zenon
<1>12. ASSUME NEW b \in D \cup {new}
       PROVE  /\ HeapStart <= b /\ b <= t.tail /\ b % 8 = 0
              /\ t.hdr[b].size >= MIN_ALLOC_SIZE /\ t.hdr[b].size % 8 = 0
  <2>1. CASE b = new
    <3>1. z % 8 = 0
      <4>1. /\ this \in Int /\ this % 8 = 0 /\ s.hdr[this].size \in Int
            /\ s.hdr[this].size % 8 = 0 /\ z = this + 16 + s.hdr[this].size
        BY <1>2, <1>3, <1>6, Zenon
      <4> QED
        BY <4>1, EightsAdd, Zenon
    <3>2. HeapStart <= b
      <4>1. HeapStart \in Int /\ this \in Int /\ HeapStart <= this
        BY <1>2, <1>3, Zenon
      <4> QED
        BY <2>1, <4>1
    <3>3. b <= t.tail
      <4>1. CASE this = s.tail
        BY <2>1, <4>1
      <4>2. CASE this # s.tail
        <5>1. z \in D
          BY <1>2, <1>6, <4>2, Zenon
        <5>2. z <= s.tail /\ new <= z /\ s.tail \in Int
          <6>1. z <= s.tail /\ s.tail \in Int
            BY <1>2, <1>3, <5>1, Zenon
          <6>2. new <= z
            BY <1>6
          <6> QED
            BY <6>1, <6>2, Zenon
        <5> QED
          BY <2>1, <4>2, <5>2
      <4> QED
        BY <4>1, <4>2, Zenon
    <3>4. t.hdr[b].size >= MIN_ALLOC_SIZE /\ t.hdr[b].size % 8 = 0
      BY <1>6, <2>1, <3>1
    <3> QED
      BY <2>1, <3>2, <3>3, <3>4, Zenon
  <2>2. CASE b = this
    <3>0. this \in Int /\ this % 8 = 0 /\ this <= s.tail /\ s.tail \in Int
      BY <1>2, <1>3, Zenon
    <3>1. b <= t.tail
      BY <2>2, <3>0
    <3>2. t.hdr[b].size >= MIN_ALLOC_SIZE /\ t.hdr[b].size % 8 = 0
      BY <2>2, <3>0
    <3> QED
      BY <1>2, <2>2, <3>1, <3>2, Zenon
  <2>3. CASE b \in D \ {this}
    <3>1. b <= t.tail
      <4>1. b <= s.tail /\ b \in Nat /\ s.tail \in Nat
        BY <1>2, <2>3, Zenon
      <4>2. CASE this = s.tail
        <5>1. t.tail = new /\ s.tail + 32 <= new
          BY <4>2, Zenon
        <5> QED
          BY <4>1, <5>1
      <4>3. CASE this # s.tail
        <5>1. t.tail = s.tail
          BY <4>3, Zenon
        <5> QED
          BY <4>1, <5>1, Zenon
      <4> QED
        BY <4>2, <4>3, Zenon
    <3> QED
      BY <1>2, <2>3, <3>1, Zenon
  <2> QED
    BY <2>1, <2>2, <2>3, Zenon
<1>13. ASSUME NEW b \in (D \cup {new}) \ {t.tail}
       PROVE  EndPtr(t, b) \in D \cup {new} /\ t.hdr[EndPtr(t, b)].prev = b
  <2>1. CASE b = new
    <3>1. this # s.tail
      BY <2>1, Zenon
    <3>2. z \in D
      BY <1>2, <1>6, <3>1, Zenon
    <3> QED
      BY <1>6, <1>7, <2>1, <3>1, <3>2, Zenon
  <2>2. CASE b = this
    BY <1>7, <2>2, Zenon
  <2>3. CASE b \in D \ {this}
    <3>1. b # s.tail
      BY <1>5, <2>3, Zenon
    <3>2. EndPtr(s, b) \in D /\ s.hdr[EndPtr(s, b)].prev = b /\ EndPtr(t, b) = EndPtr(s, b)
      BY <1>2, <1>7, <2>3, <3>1, Zenon
    <3>3. this # s.tail => EndPtr(s, b) # z
      BY <1>2, <1>6, <2>3, <3>2
    <3> QED
      BY <1>6, <3>2, <3>3, Zenon
  <2> QED
    BY <2>1, <2>2, <2>3, Zenon
<1>14. ASSUME NEW b \in (D \cup {new}) \ {HeapStart}
       PROVE  t.hdr[b].prev \in D \cup {new} /\ EndPtr(t, t.hdr[b].prev) = b
  <2>1. CASE b = new
    BY <1>7, <2>1, Zenon
  <2>2. CASE b \in D /\ this # s.tail /\ b = z
    BY <1>6, <1>7, <2>2, Zenon
  <2>3. CASE b \in D /\ ~(this # s.tail /\ b = z)
    <3>1. t.hdr[b].prev = s.hdr[b].prev /\ s.hdr[b].prev \in D /\ EndPtr(s, s.hdr[b].prev) = b
      BY <1>2, <1>6, <2>3, Zenon
    <3>2. s.hdr[b].prev # this
      <4>1. CASE this = s.tail
        <5>1. b <= s.tail /\ z >= s.tail + 32 /\ b \in Int /\ s.tail \in Int
          BY <1>2, <1>3, <1>4, <1>6, <2>3, <4>1, Zenon
        <5> QED
          BY <1>6, <3>1, <5>1
      <4>2. CASE this # s.tail
        BY <1>6, <2>3, <3>1, <4>2, Zenon
      <4> QED
        BY <4>1, <4>2, Zenon
    <3> QED
      BY <1>7, <3>1, <3>2, Zenon
  <2> QED
    BY <2>1, <2>2, <2>3, Zenon
<1>15. ASSUME NEW b \in D \cup {new}, NEW c \in D \cup {new}, b < c
       PROVE  EndPtr(t, b) <= c
  <2>1. CASE b = new
    <3>1. c \in D /\ c > this
      BY <1>3, <1>15, <2>1
    <3> QED
      BY <1>7, <1>8, <2>1, <3>1, Zenon
  <2>2. CASE b = this
    <3>1. c = new \/ (c \in D /\ c >= z)
      BY <1>8, <1>15, <2>2, Zenon
    <3> QED
      BY <1>3, <1>6, <1>7, <2>2, <3>1
  <2>3. CASE b \in D \ {this} /\ c = new
    <3>1. b < this
      BY <1>3, <1>6, <1>8, <1>15, <2>3
    <3>2. EndPtr(s, b) <= this
      BY <1>2, <2>3, <3>1, Zenon
    <3> QED
      BY <1>3, <1>4, <1>7, <2>3, <3>2
  <2>4. CASE b \in D \ {this} /\ c \in D
    BY <1>2, <1>7, <1>15, <2>4, Zenon
  <2> QED
    BY <2>1, <2>2, <2>3, <2>4, Zenon
<1>16. Tiles(t)
  BY <1>1, <1>9, <1>10, <1>11, <1>12, <1>13, <1>14, <1>15, Zenon DEF Tiles
<1> QED
  BY <1>5, <1>16, Zenon

(* Merging a block with the one that follows it keeps the tiling. *)
LEMMA TilesMerge ==
  ASSUME NEW D \in SUBSET Nat, NEW s \in HeapState(D), Tiles(s),
         NEW b \in D, b # s.tail, NEW next, next = EndPtr(s, b),
         NEW t \in HeapState(D \ {next}),
         t.hdr[b].size = s.hdr[b].size + 16 + s.hdr[next].size,
         \A c \in D \ {b, next} : t.hdr[c].size = s.hdr[c].size,
         \A c \in D \ {next} : t.hdr[c].prev = IF next # s.tail /\ c = EndPtr(s, next) THEN b
                                               ELSE s.hdr[c].prev,
         t.tail = IF next = s.tail THEN b ELSE s.tail,
         t.heap_end = s.heap_end
  PROVE  Tiles(t) /\ next \in D
<1>1. DOMAIN t.hdr = D \ {next}
  BY Zenon DEF HeapState
<1>2. /\ HeapStart \in D /\ s.tail \in D
      /\ s.hdr[HeapStart].prev = Null
      /\ EndPtr(s, s.tail) = s.heap_end
      /\ \A a \in D : /\ HeapStart <= a /\ a <= s.tail /\ a % 8 = 0
                      /\ s.hdr[a].size >= MIN_ALLOC_SIZE /\ s.hdr[a].size % 8 = 0
      /\ \A a \in D \ {s.tail} : EndPtr(s, a) \in D /\ s.hdr[EndPtr(s, a)].prev = a
      /\ \A a \in D \ {HeapStart} : s.hdr[a].prev \in D /\ EndPtr(s, s.hdr[a].prev) = a
      /\ \A a, c \in D : a < c => EndPtr(s, a) <= c
  <2>1. TileFacts(D, s)
    BY TilesHold, Zenon
  <2> QED
    BY <2>1, Zenon DEF TileFacts
<1>3. \A c \in D : /\ c \in Int /\ s.hdr[c].size \in Int /\ EndPtr(s, c) \in Int
                   /\ EndPtr(s, c) = c + 16 + s.hdr[c].size
                   /\ EndPtr(s, c) >= c + 32
  <2>1. TileFacts(D, s)
    BY TilesHold, Zenon
  <2> QED
    BY <2>1, Zenon DEF TileFacts
<1>4. next \in D /\ next >= b + 32 /\ s.hdr[next].prev = b
  BY <1>2, <1>3, Zenon
<1>5. PICK z \in Int : z = EndPtr(s, next) /\ z >= next + 32 /\ next \in Int
  BY <1>3, <1>4, Zenon
<1>6. EndPtr(t, b) = z /\ \A c \in D \ {b, next} : EndPtr(t, c) = EndPtr(s, c)
  <2>1. EndPtr(t, b) = b + 16 + (s.hdr[b].size + 16 + s.hdr[next].size)
    BY Zenon DEF EndPtr, AllocArea
  <2>2. z = next + 16 + s.hdr[next].size /\ next = b + 16 + s.hdr[b].size
    BY <1>3, <1>4, <1>5, Zenon
  <2>3. s.hdr[b].size \in Int /\ s.hdr[next].size \in Int /\ b \in Int
    BY <1>3, <1>4, Zenon
  <2>4. \A c \in D \ {b, next} : EndPtr(t, c) = EndPtr(s, c)
    BY Zenon DEF EndPtr, AllocArea
  <2>5. PICK i \in Int, j \in Int : i = s.hdr[b].size /\ j = s.hdr[next].size
    BY <2>3, Zenon
  <2>6. b + 16 + (i + 16 + j) = (b + 16 + i) + 16 + j
    BY <2>3
  <2>7. EndPtr(t, b) = z
    BY <2>1, <2>2, <2>5, <2>6, Zenon
  <2> QED
    BY <2>4, <2>7, Zenon
<1>7. ASSUME NEW c \in D, c > b PROVE c >= next /\ (c # next => c >= z)
  <2>1. c \in Int /\ c >= next
    BY <1>2, <1>3, <1>7, Zenon
  <2>2. c # next => EndPtr(s, next) <= c
    BY <1>2, <1>4, <1>5, <2>1
  <2> QED
    BY <1>5, <2>1, <2>2, Zenon
<1>8. ASSUME NEW c \in D, c # next PROVE EndPtr(s, c) = next <=> c = b
  <2>1. EndPtr(s, c) = next => s.hdr[next].prev = c
    <3>1. c # s.tail \/ EndPtr(s, c) # next
      <4>1. next <= s.tail /\ s.tail \in Int
        BY <1>2, <1>3, <1>4, Zenon
      <4>2. EndPtr(s, s.tail) >= s.tail + 32 /\ EndPtr(s, s.tail) \in Int
        BY <1>2, <1>3, Zenon
      <4> QED
        BY <1>5, <4>1, <4>2
    <3> QED
      BY <1>2, <3>1, Zenon
  <2> QED
    BY <1>4, <2>1, Zenon
<1>9. HeapStart \in D \ {next} /\ t.tail \in D \ {next}
  <2>1. HeapStart <= b /\ HeapStart \in Int /\ b \in Int
    BY <1>2, <1>3, Zenon
  <2>2. HeapStart # next
    BY <1>4, <1>5, <2>1
  <2>3. b # next
    BY <1>3, <1>4
  <2> QED
    BY <1>2, <2>2, <2>3
<1>10. t.hdr[HeapStart].prev = Null
  <2>1. HeapStart <= b /\ HeapStart \in Int /\ b \in Int
    BY <1>2, <1>3, Zenon
  <2>2. HeapStart # z
    BY <1>4, <1>5, <2>1
  <2> QED
    BY <1>2, <1>5, <1>9, <2>2, Zenon
<1>11. EndPtr(t, t.tail) = t.heap_end
  <2>1. CASE next = s.tail
    BY <1>2, <1>5, <1>6, <2>1, Zenon
  <2>2. CASE next # s.tail
    BY <1>2, <1>6, <2>2, Zenon
  <2> QED
    BY <2>1, <2>2, Zenon
<1>12. ASSUME NEW c \in D \ {next}
       PROVE  /\ HeapStart <= c /\ c <= t.tail /\ c % 8 = 0
              /\ t.hdr[c].size >= MIN_ALLOC_SIZE /\ t.hdr[c].size % 8 = 0
  <2>1. HeapStart <= c /\ c % 8 = 0
    BY <1>2, Zenon
  <2>2. c <= t.tail
    <3>1. CASE next = s.tail
      <4>1. c <= s.tail /\ ~(c > b)
        BY <1>2, <1>3, <1>5, <1>7, <3>1
      <4> QED
        BY <1>3, <3>1, <4>1
    <3>2. CASE next # s.tail
      BY <1>2, <3>2, Zenon
    <3> QED
      BY <3>1, <3>2, Zenon
  <2>3. t.hdr[c].size >= MIN_ALLOC_SIZE /\ t.hdr[c].size % 8 = 0
    <3>1. CASE c = b
      <4>1. /\ s.hdr[b].size >= MIN_ALLOC_SIZE /\ s.hdr[b].size % 8 = 0 /\ s.hdr[b].size \in Int
            /\ s.hdr[next].size >= MIN_ALLOC_SIZE /\ s.hdr[next].size % 8 = 0
            /\ s.hdr[next].size \in Int
        BY <1>2, <1>3, <1>4, Zenon
      <4> QED
        BY <3>1, <4>1
    <3>2. CASE c # b
      BY <1>2, <3>2
    <3> QED
      BY <3>1, <3>2, Zenon
  <2> QED
    BY <2>1, <2>2, <2>3, Zenon
<1>13. ASSUME NEW c \in (D \ {next}) \ {t.tail}
       PROVE  EndPtr(t, c) \in D \ {next} /\ t.hdr[EndPtr(t, c)].prev = c
  <2>1. CASE c = b
    <3>1. next # s.tail
      BY <2>1, Zenon
    <3>2. z \in D /\ z # next
      BY <1>2, <1>4, <1>5, <3>1
    <3> QED
      BY <1>5, <1>6, <2>1, <3>1, <3>2, Zenon
  <2>2. CASE c # b
    <3>1. c # s.tail
      BY <1>4, <1>7, <2>2, Zenon
    <3>2. EndPtr(t, c) = EndPtr(s, c) /\ EndPtr(s, c) \in D /\ s.hdr[EndPtr(s, c)].prev = c
      BY <1>2, <1>6, <2>2, <3>1, Zenon
    <3>3. EndPtr(s, c) # next
      BY <1>8, <2>2, Zenon
    <3>4. EndPtr(s, c) = z => next = s.tail
      BY <1>2, <1>4, <1>5, <3>2, Zenon
    <3> QED
      BY <1>5, <3>2, <3>3, <3>4, Zenon
  <2> QED
    BY <2>1, <2>2, Zenon
<1>14. ASSUME NEW c \in (D \ {next}) \ {HeapStart}
       PROVE  t.hdr[c].prev \in D \ {next} /\ EndPtr(t, t.hdr[c].prev) = c
  <2>1. CASE next # s.tail /\ c = z
    BY <1>3, <1>4, <1>5, <1>6, <2>1, Zenon
  <2>2. CASE ~(next # s.tail /\ c = z)
    <3>1. t.hdr[c].prev = s.hdr[c].prev /\ s.hdr[c].prev \in D /\ EndPtr(s, s.hdr[c].prev) = c
      BY <1>2, <1>5, <2>2, Zenon
    <3>2. s.hdr[c].prev # b
      BY <3>1, Zenon
    <3>3. s.hdr[c].prev # next
      <4>1. CASE next = s.tail
        <5>1. c <= s.tail /\ c \in Int
          BY <1>2, <1>3, Zenon
        <5> QED
          BY <1>5, <3>1, <4>1, <5>1
      <4>2. CASE next # s.tail
        BY <1>5, <2>2, <3>1, <4>2, Zenon
      <4> QED
        BY <4>1, <4>2, Zenon
    <3> QED
      BY <1>6, <3>1, <3>2, <3>3, Zenon
  <2> QED
    BY <2>1, <2>2, Zenon
<1>15. ASSUME NEW c \in D \ {next}, NEW d \in D \ {next}, c < d
       PROVE  EndPtr(t, c) <= d
  <2>1. CASE c = b
    BY <1>6, <1>7, <1>15, <2>1, Zenon
  <2>2. CASE c # b
    BY <1>2, <1>6, <1>15, <2>2, Zenon
  <2> QED
    BY <2>1, <2>2, Zenon
<1>16. Tiles(t)
  BY <1>1, <1>9, <1>10, <1>11, <1>12, <1>13, <1>14, <1>15, Zenon DEF Tiles
<1> QED
  BY <1>4, <1>16, Zenon

(* A last block that takes the new pages keeps the tiling. *)
LEMMA TilesGrowTail ==
  ASSUME NEW D \in SUBSET Nat, NEW s \in HeapState(D), Tiles(s),
         NEW n \in Nat, n % 8 = 0, NEW t \in HeapState(D),
         t.hdr[s.tail].size = s.hdr[s.tail].size + n,
         \A c \in D \ {s.tail} : t.hdr[c].size = s.hdr[c].size,
         \A c \in D : t.hdr[c].prev = s.hdr[c].prev,
         t.tail = s.tail, t.heap_end = s.heap_end + n
  PROVE  Tiles(t)
<1>1. DOMAIN t.hdr = D
  BY Zenon DEF HeapState
<1>2. /\ HeapStart \in D /\ s.tail \in D
      /\ s.hdr[HeapStart].prev = Null
      /\ EndPtr(s, s.tail) = s.heap_end
      /\ \A b \in D : /\ HeapStart <= b /\ b <= s.tail /\ b % 8 = 0
                      /\ s.hdr[b].size >= MIN_ALLOC_SIZE /\ s.hdr[b].size % 8 = 0
      /\ \A b \in D \ {s.tail} : EndPtr(s, b) \in D /\ s.hdr[EndPtr(s, b)].prev = b
      /\ \A b \in D \ {HeapStart} : s.hdr[b].prev \in D /\ EndPtr(s, s.hdr[b].prev) = b
      /\ \A b, c \in D : b < c => EndPtr(s, b) <= c
  <2>1. TileFacts(D, s)
    BY TilesHold, Zenon
  <2> QED
    BY <2>1, Zenon DEF TileFacts
<1>3. \A c \in D : /\ c \in Int /\ s.hdr[c].size \in Int /\ EndPtr(s, c) \in Int
                   /\ EndPtr(s, c) = c + 16 + s.hdr[c].size
                   /\ EndPtr(s, c) >= c + 32
  <2>1. TileFacts(D, s)
    BY TilesHold, Zenon
  <2> QED
    BY <2>1, Zenon DEF TileFacts
<1>4. \A c \in D \ {s.tail} : EndPtr(t, c) = EndPtr(s, c)
  BY Zenon DEF EndPtr, AllocArea
<1>5. EndPtr(t, s.tail) = s.heap_end + n
  <2>1. EndPtr(t, s.tail) = s.tail + 16 + (s.hdr[s.tail].size + n)
    BY Zenon DEF EndPtr, AllocArea
  <2>2. s.tail \in Int /\ s.hdr[s.tail].size \in Int
        /\ s.heap_end = s.tail + 16 + s.hdr[s.tail].size
    BY <1>2, <1>3, Zenon
  <2> QED
    BY <2>1, <2>2
<1>6. ASSUME NEW b \in D
      PROVE  t.hdr[b].size >= MIN_ALLOC_SIZE /\ t.hdr[b].size % 8 = 0
  <2>1. CASE b = s.tail
    <3>1. s.hdr[b].size \in Int /\ s.hdr[b].size >= 16 /\ s.hdr[b].size % 8 = 0
      BY <1>2, <1>3, Zenon
    <3> QED
      BY <2>1, <3>1
  <2>2. CASE b # s.tail
    BY <1>2, <2>2, Zenon
  <2> QED
    BY <2>1, <2>2, Zenon
<1>7. ASSUME NEW b \in D \ {HeapStart}
      PROVE  t.hdr[b].prev \in D /\ EndPtr(t, t.hdr[b].prev) = b
  <2>1. t.hdr[b].prev \in D /\ EndPtr(s, t.hdr[b].prev) = b
    BY <1>2, Zenon
  <2>2. t.hdr[b].prev # s.tail
    <3>1. b <= s.tail /\ b \in Int /\ s.tail \in Int /\ EndPtr(s, s.tail) >= s.tail + 32
          /\ EndPtr(s, s.tail) \in Int
      BY <1>2, <1>3, Zenon
    <3> QED
      BY <2>1, <3>1
  <2> QED
    BY <1>4, <2>1, <2>2, Zenon
<1>8. ASSUME NEW b \in D, NEW c \in D, b < c PROVE EndPtr(t, b) <= c
  <2>1. b # s.tail
    <3>1. c <= s.tail /\ b \in Int /\ c \in Int /\ s.tail \in Int
      BY <1>2, <1>3, Zenon
    <3> QED
      BY <1>8, <3>1
  <2> QED
    BY <1>2, <1>4, <1>8, <2>1, Zenon
<1>9. ASSUME NEW b \in D \ {s.tail}
      PROVE  EndPtr(t, b) \in D /\ t.hdr[EndPtr(t, b)].prev = b
  BY <1>2, <1>4, ZenonT(30)
<1> QED
  BY <1>1, <1>2, <1>5, <1>6, <1>7, <1>8, <1>9, Zenon DEF Tiles

(* New pages that become a block of their own keep the tiling. *)
LEMMA TilesAppend ==
  ASSUME NEW D \in SUBSET Nat, NEW s \in HeapState(D), Tiles(s),
         NEW n \in Nat, n % 8 = 0, n >= 32, NEW new, new = s.heap_end,
         NEW t \in HeapState(D \cup {new}),
         t.hdr[new].size = n - 16, t.hdr[new].prev = s.tail,
         \A c \in D : t.hdr[c].size = s.hdr[c].size /\ t.hdr[c].prev = s.hdr[c].prev,
         t.tail = new, t.heap_end = s.heap_end + n
  PROVE  Tiles(t) /\ new \notin D
<1>1. DOMAIN t.hdr = D \cup {new}
  BY Zenon DEF HeapState
<1>2. /\ HeapStart \in D /\ s.tail \in D
      /\ s.hdr[HeapStart].prev = Null
      /\ EndPtr(s, s.tail) = s.heap_end
      /\ \A b \in D : /\ HeapStart <= b /\ b <= s.tail /\ b % 8 = 0
                      /\ s.hdr[b].size >= MIN_ALLOC_SIZE /\ s.hdr[b].size % 8 = 0
      /\ \A b \in D \ {s.tail} : EndPtr(s, b) \in D /\ s.hdr[EndPtr(s, b)].prev = b
      /\ \A b \in D \ {HeapStart} : s.hdr[b].prev \in D /\ EndPtr(s, s.hdr[b].prev) = b
      /\ \A b, c \in D : b < c => EndPtr(s, b) <= c
  <2>1. TileFacts(D, s)
    BY TilesHold, Zenon
  <2> QED
    BY <2>1, Zenon DEF TileFacts
<1>3. \A c \in D : /\ c \in Int /\ s.hdr[c].size \in Int /\ EndPtr(s, c) \in Int
                   /\ EndPtr(s, c) = c + 16 + s.hdr[c].size
                   /\ EndPtr(s, c) >= c + 32
  <2>1. TileFacts(D, s)
    BY TilesHold, Zenon
  <2> QED
    BY <2>1, Zenon DEF TileFacts
<1>4. /\ s.tail \in Int /\ s.tail % 8 = 0 /\ s.hdr[s.tail].size \in Int
      /\ s.hdr[s.tail].size % 8 = 0 /\ s.hdr[s.tail].size >= 16
      /\ new = s.tail + 16 + s.hdr[s.tail].size
  BY <1>2, <1>3, Zenon
<1>5. new \in Int /\ new % 8 = 0 /\ new >= s.tail + 32
  BY <1>4
<1>6. ASSUME NEW c \in D PROVE c < new /\ EndPtr(s, c) <= new
  <2>1. c \in Int /\ c <= s.tail
    BY <1>2, <1>3, Zenon
  <2>2. c # s.tail => EndPtr(s, c) <= s.tail /\ EndPtr(s, c) \in Int
    BY <1>2, <1>3, <1>4, <2>1, Zenon
  <2>3. CASE c = s.tail
    BY <1>2, <1>5, <2>1, <2>3
  <2>4. CASE c # s.tail
    <3>1. EndPtr(s, c) <= s.tail /\ EndPtr(s, c) \in Int
      BY <2>2, <2>4, Zenon
    <3>2. s.tail \in Int /\ new \in Int /\ new >= s.tail + 32
      BY <1>4, <1>5, Zenon
    <3> QED
      BY <2>1, <3>1, <3>2
  <2> QED
    BY <2>3, <2>4, Zenon
<1>7. new \notin D
  BY <1>5, <1>6
<1>8. \A c \in D : EndPtr(t, c) = EndPtr(s, c)
  BY Zenon DEF EndPtr, AllocArea
<1>9. EndPtr(t, new) = s.heap_end + n
  BY <1>5 DEF EndPtr, AllocArea
<1>10. ASSUME NEW b \in D \cup {new}
       PROVE  /\ HeapStart <= b /\ b <= t.tail /\ b % 8 = 0
              /\ t.hdr[b].size >= MIN_ALLOC_SIZE /\ t.hdr[b].size % 8 = 0
  <2>1. CASE b = new
    <3>1. HeapStart \in Int /\ HeapStart < new
      BY <1>2, <1>3, <1>6, Zenon
    <3>2. t.hdr[new].size >= 16 /\ t.hdr[new].size % 8 = 0
      OBVIOUS
    <3> QED
      BY <1>5, <2>1, <3>1, <3>2
  <2>2. CASE b \in D
    <3>1. b \in Int /\ b < new
      BY <1>3, <1>6, <2>2, Zenon
    <3> QED
      BY <1>2, <1>5, <2>2, <3>1
  <2> QED
    BY <2>1, <2>2, Zenon
<1>11. ASSUME NEW b \in (D \cup {new}) \ {t.tail}
       PROVE  EndPtr(t, b) \in D \cup {new} /\ t.hdr[EndPtr(t, b)].prev = b
  <2>1. CASE b = s.tail
    BY <1>2, <1>8, <2>1, Zenon
  <2>2. CASE b # s.tail
    <3>1. b \in D \ {s.tail}
      BY <2>2, Zenon
    <3>2. EndPtr(s, b) \in D /\ s.hdr[EndPtr(s, b)].prev = b
      BY <1>2, <3>1, Zenon
    <3> QED
      BY <1>8, <3>1, <3>2, Zenon
  <2> QED
    BY <2>1, <2>2, Zenon
<1>12. ASSUME NEW b \in (D \cup {new}) \ {HeapStart}
       PROVE  t.hdr[b].prev \in D \cup {new} /\ EndPtr(t, t.hdr[b].prev) = b
  <2>1. CASE b = new
    BY <1>2, <1>8, <2>1, Zenon
  <2>2. CASE b # new
    BY <1>2, <1>8, <2>2, Zenon
  <2> QED
    BY <2>1, <2>2, Zenon
<1>13. ASSUME NEW b \in D \cup {new}, NEW c \in D \cup {new}, b < c
       PROVE  EndPtr(t, b) <= c
  <2>1. CASE b = new
    BY <1>3, <1>5, <1>6, <1>13, <2>1
  <2>2. CASE b # new /\ c = new
    BY <1>6, <1>8, <2>2, Zenon
  <2>3. CASE b # new /\ c # new
    BY <1>2, <1>8, <1>13, <2>3, Zenon
  <2> QED
    BY <2>1, <2>2, <2>3, Zenon
<1>14. HeapStart \in D \cup {new} /\ t.tail \in D \cup {new} /\ t.hdr[HeapStart].prev = Null
       /\ EndPtr(t, t.tail) = t.heap_end
  BY <1>2, <1>9, Zenon
<1>15. Tiles(t)
  BY <1>1, <1>10, <1>11, <1>12, <1>13, <1>14, Zenon DEF Tiles
<1> QED
  BY <1>7, <1>15, Zenon

-----------------------------------------------------------------------------
FreeBlocks(s) == {b \in DOMAIN s.hdr : ~s.hdr[b].used}

(* No two neighbouring blocks are free. *)
Coalesced(s) ==
  \A b \in DOMAIN s.hdr \ {s.tail} : s.hdr[b].used \/ s.hdr[EndPtr(s, b)].used

(* The pointers callers hold are the allocation areas of the used blocks,  *)
(* and each block is large enough and aligned for what was asked.          *)
LiveOK(s, lv) ==
  /\ \A p \in DOMAIN lv :
       /\ p \in Nat /\ lv[p] \in Layouts
       /\ p - 16 \in DOMAIN s.hdr /\ s.hdr[p - 16].used
       /\ lv[p].size <= s.hdr[p - 16].size
       /\ p % lv[p].align = 0
  /\ \A b \in DOMAIN s.hdr : s.hdr[b].used => b + 16 \in DOMAIN lv

(* D is listed by a finite sequence of addresses. *)
Listed(D) == \E n \in Nat : \E e \in [1..n -> Nat] : \A b \in D : \E i \in 1..n : e[i] = b

(* A heap in order, with the allocations lv outstanding; within split and  *)
(* dealloc this may hold while two neighbours are free.                    *)
HeapCore(D, s, lv) ==
  /\ D \in SUBSET Nat /\ Listed(D) /\ s \in HeapState(D)
  /\ Tiles(s) /\ FreeOK(s, FreeBlocks(s)) /\ LiveOK(s, lv)
HeapOK(D, s, lv) == HeapCore(D, s, lv) /\ Coalesced(s)

(* The allocations after one more. *)
Holding(lv, p, l) == [q \in DOMAIN lv \cup {p} |-> IF q = p THEN l ELSE lv[q]]

(* One more address keeps a set of addresses listed. *)
LEMMA ListedAdd ==
  ASSUME NEW D, Listed(D), NEW b \in Nat, NEW E, \A c \in E : c \in D \/ c = b
  PROVE  Listed(E)
<1>0. PICK n \in Nat : \E e \in [1..n -> Nat] : \A c \in D : \E i \in 1..n : e[i] = c
  BY Zenon DEF Listed
<1>1. PICK e \in [1..n -> Nat] : \A c \in D : \E i \in 1..n : e[i] = c
  BY <1>0, Zenon
<1>2. PICK g : g = [i \in 1..(n + 1) |-> IF i = n + 1 THEN b ELSE e[i]]
  BY Zenon
<1>3. g \in [1..(n + 1) -> Nat]
  BY <1>2
<1>4. \A c \in E : \E i \in 1..(n + 1) : g[i] = c
  BY <1>1, <1>2
<1>5. n + 1 \in Nat
  OBVIOUS
<1> QED
  BY <1>3, <1>4, <1>5, Zenon DEF Listed

(* The layouts, as numbers. *)
LEMMA LayoutFacts ==
  ASSUME NEW l \in Layouts
  PROVE  /\ l.size \in Nat \ {0} /\ l.align \in Nat \ {0}
         /\ l.align \in {1, 2, 4, 8} \/ (l.align % 8 = 0 /\ l.size > 8)
BY HeapAssumption, Zenon

(* No block starts inside another. *)
LEMMA NoBlockInside ==
  ASSUME NEW D \in SUBSET Nat, NEW s \in HeapState(D), Tiles(s), NEW b \in D,
         NEW x \in Int, b < x, x < EndPtr(s, b)
  PROVE  x \notin D
<1> SUFFICES ASSUME x \in D PROVE FALSE
  BY Zenon
<1>1. EndPtr(s, b) <= x /\ EndPtr(s, b) \in Int
  <2>1. TileFacts(D, s)
    BY TilesHold, Zenon
  <2> QED
    BY <2>1, Zenon DEF TileFacts
<1> QED
  BY <1>1

(* A used block that callers hold, and a free one that becomes theirs. *)
LEMMA LiveAdd ==
  ASSUME NEW D \in SUBSET Nat, NEW s \in HeapState(D), NEW E \in SUBSET Nat,
         NEW t \in HeapState(E), NEW lv, LiveOK(s, lv), NEW l \in Layouts,
         NEW at \in E, at \notin D \/ ~s.hdr[at].used,
         \A c \in D : s.hdr[c].used =>
           c \in E /\ t.hdr[c].used /\ t.hdr[c].size = s.hdr[c].size,
         \A c \in E : t.hdr[c].used => c = at \/ (c \in D /\ s.hdr[c].used),
         t.hdr[at].used, l.size <= t.hdr[at].size, (at + 16) % l.align = 0
  PROVE  LiveOK(t, Holding(lv, at + 16, l)) /\ at + 16 \notin DOMAIN lv
<1>1. DOMAIN s.hdr = D /\ DOMAIN t.hdr = E
  BY Zenon DEF HeapState
<1>2. PICK p \in Nat : p = at + 16 /\ p - 16 = at
  <2>1. at \in Nat
    BY Zenon
  <2>2. at + 16 \in Nat /\ (at + 16) - 16 = at
    BY <2>1
  <2> QED
    BY <2>2, Zenon
<1>3. PICK lw : lw = Holding(lv, p, l)
  BY Zenon
<1>4. /\ DOMAIN lw = DOMAIN lv \cup {p} /\ lw[p] = l
      /\ \A q \in DOMAIN lv : q # p => lw[q] = lv[q]
  BY <1>3, Zenon DEF Holding
<1>5. p \notin DOMAIN lv
  <2> SUFFICES ASSUME p \in DOMAIN lv PROVE FALSE
    BY Zenon
  <2>1. p - 16 \in D /\ s.hdr[p - 16].used /\ p - 16 = at
    BY <1>1, <1>2, Zenon DEF LiveOK
  <2> QED
    BY <2>1, Zenon
<1>6. ASSUME NEW q \in DOMAIN lw
      PROVE  /\ q \in Nat /\ lw[q] \in Layouts
             /\ q - 16 \in E /\ t.hdr[q - 16].used
             /\ lw[q].size <= t.hdr[q - 16].size
             /\ q % lw[q].align = 0
  <2>1. CASE q = p
    <3>1. q - 16 = at
      <4>1. q - 16 = p - 16
        BY <2>1, Zenon
      <4> QED
        BY <1>2, <4>1, Zenon
    <3> QED
      BY <1>2, <1>4, <2>1, <3>1, Zenon
  <2>2. CASE q # p
    <3>1. q \in DOMAIN lv /\ lw[q] = lv[q]
      BY <1>4, <2>2, Zenon
    <3>2. /\ q \in Nat /\ lv[q] \in Layouts
          /\ q - 16 \in D /\ s.hdr[q - 16].used
          /\ lv[q].size <= s.hdr[q - 16].size
          /\ q % lv[q].align = 0
      BY <1>1, <3>1, Zenon DEF LiveOK
    <3>3. q - 16 \in E /\ t.hdr[q - 16].used /\ t.hdr[q - 16].size = s.hdr[q - 16].size
      BY <3>2, Zenon
    <3> QED
      BY <3>1, <3>2, <3>3, Zenon
  <2> QED
    BY <2>1, <2>2, Zenon
<1>7. ASSUME NEW b \in E, t.hdr[b].used PROVE b + 16 \in DOMAIN lw
  <2>1. CASE b = at
    BY <1>2, <1>4, <2>1, Zenon
  <2>2. CASE b # at
    <3>1. b \in D /\ s.hdr[b].used
      BY <1>7, <2>2, Zenon
    <3> QED
      BY <1>1, <1>4, <3>1, Zenon DEF LiveOK
  <2> QED
    BY <2>1, <2>2, Zenon
<1>8. LiveOK(t, lw)
  BY <1>1, <1>6, <1>7, Zenon DEF LiveOK
<1> QED
  BY <1>2, <1>3, <1>5, <1>8, Zenon

(* The size split_block gives an allocation that starts at the block. *)
LEMMA TotalFacts ==
  ASSUME NEW l \in Layouts, NEW room \in Nat, room >= MIN_ALLOC_SIZE, room >= AlignUp(l.size, 8)
  PROVE  LET total == AlignUp(MaxOf(l.size, MIN_ALLOC_SIZE), 8) IN
         /\ total \in Nat /\ total % 8 = 0 /\ total >= MIN_ALLOC_SIZE
         /\ total >= l.size /\ total <= room
<1>1. l.size \in Nat
  BY LayoutFacts, Zenon
<1>2. MaxOf(l.size, 16) = IF l.size >= 16 THEN l.size ELSE 16
  BY <1>1, Zenon DEF MaxOf
<1>3. AlignUp(16, 8) = 16
  BY DEF AlignUp
<1>4. CASE l.size >= 16
  <2>1. /\ AlignUp(l.size, 8) \in Nat /\ AlignUp(l.size, 8) % 8 = 0
        /\ AlignUp(l.size, 8) >= l.size
    BY <1>1, AlignUpEight, Zenon
  <2> QED
    BY <1>1, <1>2, <1>4, <2>1
<1>5. CASE ~(l.size >= 16)
  BY <1>1, <1>2, <1>3, <1>5
<1> QED
  BY <1>4, <1>5, Zenon

(* Of two neighbours, the second of which is not after this, one is used. *)
CoalescedBut(D, s, this) ==
  \A b \in D \ {s.tail, this} : s.hdr[b].used \/ s.hdr[EndPtr(s, b)].used

(* The last steps of split_block: this is taken off the free list. *)
TakesWhole(D, s, lv, this, l, t) ==
  /\ HeapCore(D, s, lv) /\ this \in FreeBlocks(s)
  /\ l \in Layouts /\ l.size <= s.hdr[this].size /\ (this + 16) % l.align = 0
  /\ CoalescedBut(D, s, this)
  /\ t = SetUsed(RemoveFreeBlock(s, this), this, TRUE)

(* A free block is handed out whole: it leaves the free list. *)
LEMMA TakeWhole ==
  ASSUME NEW D, NEW s, NEW lv, NEW this, NEW l, NEW t, TakesWhole(D, s, lv, this, l, t)
  PROVE  HeapOK(D, t, Holding(lv, this + 16, l)) /\ t.heap_end = s.heap_end
<1> DEFINE F == FreeBlocks(s)
<1>a. HeapCore(D, s, lv) /\ this \in FreeBlocks(s)
  BY Zenon DEF TakesWhole
<1>b. l \in Layouts /\ l.size <= s.hdr[this].size /\ (this + 16) % l.align = 0
  BY Zenon DEF TakesWhole
<1>c. \A b \in D \ {s.tail, this} : s.hdr[b].used \/ s.hdr[EndPtr(s, b)].used
  BY Zenon DEF TakesWhole, CoalescedBut
<1>1. /\ D \in SUBSET Nat /\ Listed(D) /\ s \in HeapState(D)
      /\ Tiles(s) /\ FreeOK(s, F) /\ LiveOK(s, lv)
  BY <1>a, Zenon DEF HeapCore
<1>2. DOMAIN s.hdr = D /\ F \in SUBSET D /\ this \in D /\ this \in F /\ ~s.hdr[this].used
  BY <1>a, <1>1, Zenon DEF HeapState, FreeBlocks
<1> HIDE DEF F
<1>3. PICK u : u = RemoveFreeBlock(s, this)
  BY Zenon
<1>4. u \in HeapState(D) /\ SameBlocks(D, s, u)
  <2>1. /\ s.hdr[this].free_next \in (D \ {this}) \cup {Null}
        /\ s.hdr[this].free_prev \in (D \ {this}) \cup {Null}
    BY <1>1, <1>2, ChainEnds, Zenon
  <2> QED
    BY <1>1, <1>2, <1>3, <2>1, RemoveEffect, Zenon
<1>5. FreeOK(u, F \ {this})
  BY <1>1, <1>2, <1>3, ChainRemove, Zenon
<1>6. t = SetUsed(u, this, TRUE)
  BY <1>3, Zenon DEF TakesWhole
<1>7. /\ OnlyHeader(D, u, t, this) /\ t.hdr[this].used
      /\ t.hdr[this].size = u.hdr[this].size /\ t.hdr[this].prev = u.hdr[this].prev
      /\ t.hdr[this].free_next = u.hdr[this].free_next
      /\ t.hdr[this].free_prev = u.hdr[this].free_prev
  BY <1>1, <1>2, <1>4, <1>6, SetUsedEffect, ZenonT(30)
<1>8. /\ t \in HeapState(D) /\ t.tail = s.tail /\ t.heap_end = s.heap_end
      /\ t.free_head = u.free_head
      /\ \A c \in D \ {this} : t.hdr[c] = u.hdr[c]
  BY <1>4, <1>7, Zenon DEF OnlyHeader, SameBlocks
<1>9. /\ \A c \in D : t.hdr[c].size = s.hdr[c].size /\ t.hdr[c].prev = s.hdr[c].prev
      /\ \A c \in D \ {this} : t.hdr[c].used = s.hdr[c].used
  BY <1>4, <1>7, <1>8 DEF SameBlocks
<1>10. DOMAIN t.hdr = D /\ \A c \in D : EndPtr(t, c) = EndPtr(s, c)
  BY <1>8, <1>9, Zenon DEF EndPtr, HeapState
<1>11. Tiles(t)
  BY <1>1, <1>8, <1>9, TilesFrame, Zenon
<1>12. FreeBlocks(t) = F \ {this}
  BY <1>2, <1>7, <1>9, <1>10, Zenon DEF FreeBlocks, F
<1>13. FreeOK(t, FreeBlocks(t))
  <2>1. SameLinks(F \ {this}, u, t)
    BY <1>2, <1>7, <1>8, Zenon DEF SameLinks
  <2> QED
    BY <1>5, <1>12, <2>1, ChainFrame, Zenon
<1>14. Coalesced(t)
  <2> SUFFICES ASSUME NEW b \in D \ {t.tail} PROVE t.hdr[b].used \/ t.hdr[EndPtr(t, b)].used
    BY <1>10, Zenon DEF Coalesced
  <2>1. b # this => s.hdr[b].used \/ s.hdr[EndPtr(s, b)].used
    BY <1>c, <1>8, Zenon
  <2>2. EndPtr(s, b) \in D
    BY <1>1, <1>8, TilesFacts, Zenon
  <2> QED
    BY <1>7, <1>9, <1>10, <2>1, <2>2, Zenon
<1>15. LiveOK(t, Holding(lv, this + 16, l))
  <2>1. ~s.hdr[this].used
    BY <1>2, Zenon
  <2>2. \A c \in D : s.hdr[c].used =>
          c \in D /\ t.hdr[c].used /\ t.hdr[c].size = s.hdr[c].size
    BY <1>9, <2>1, Zenon
  <2>3. \A c \in D : t.hdr[c].used => c = this \/ (c \in D /\ s.hdr[c].used)
    BY <1>9, Zenon
  <2>4. t.hdr[this].used /\ l.size <= t.hdr[this].size
    BY <1>b, <1>2, <1>7, <1>9, Zenon
  <2> QED
    BY <1>b, <1>1, <1>2, <1>8, <2>1, <2>2, <2>3, <2>4, LiveAdd
<1> QED
  BY <1>1, <1>8, <1>11, <1>13, <1>14, <1>15, Zenon DEF HeapOK, HeapCore

(* split_block's cut, before this is taken. *)
CutsOff(D, s, lv, this, total, new, rest, t) ==
  /\ HeapOK(D, s, lv) /\ this \in FreeBlocks(s)
  /\ total \in Nat /\ total % 8 = 0 /\ total >= MIN_ALLOC_SIZE
  /\ s.hdr[this].size - total >= MIN_BLOCK_SIZE
  /\ new = AllocArea(this) + total
  /\ rest = s.hdr[this].size - total - BLOCK_HEADER_SIZE
  /\ t = SetSize(InsertAfter(InsertFreeBlock(
           WriteHeader(s, new, NewHeader(rest, FALSE)), new), this, new), this, total)

(* The end of a free block becomes a free block. *)
LEMMA CutFree ==
  ASSUME NEW D, NEW s, NEW lv, NEW this, NEW total, NEW new, NEW rest, NEW t,
         CutsOff(D, s, lv, this, total, new, rest, t)
  PROVE  /\ HeapCore(D \cup {new}, t, lv)
         /\ this \in FreeBlocks(t)
         /\ t.hdr[this].size = total
         /\ t.heap_end = s.heap_end
         /\ CoalescedBut(D \cup {new}, t, this)
<1> DEFINE F == FreeBlocks(s)
<1>a. HeapOK(D, s, lv) /\ this \in FreeBlocks(s)
  BY Zenon DEF CutsOff
<1>b. /\ total \in Nat /\ total % 8 = 0 /\ total >= 16
      /\ s.hdr[this].size - total >= 32
  BY DEF CutsOff
<1>c. new = this + 16 + total /\ rest = s.hdr[this].size - total - 16
  BY Zenon DEF CutsOff, AllocArea
<1>1. /\ D \in SUBSET Nat /\ Listed(D) /\ s \in HeapState(D)
      /\ Tiles(s) /\ FreeOK(s, F) /\ Coalesced(s) /\ LiveOK(s, lv)
  BY <1>a, Zenon DEF HeapOK, HeapCore
<1>2. DOMAIN s.hdr = D /\ F \in SUBSET D /\ this \in D /\ this \in F /\ ~s.hdr[this].used
  BY <1>a, <1>1, Zenon DEF HeapState, FreeBlocks
<1>3. /\ this \in Nat /\ this % 8 = 0 /\ s.hdr[this].size \in Int
      /\ EndPtr(s, this) = this + 16 + s.hdr[this].size /\ s.hdr[this].size % 8 = 0
  BY <1>1, <1>2, TilesFacts
<1>4. new \in Nat
  BY <1>b, <1>c, <1>3
<1>5. /\ new = this + 16 + total /\ new % 8 = 0 /\ new >= this + 32
      /\ new + 32 <= EndPtr(s, this) /\ EndPtr(s, this) \in Int
  BY <1>b, <1>c, <1>3, <1>4
<1>6. new \notin D /\ new # this
  <2>1. this < new /\ new < EndPtr(s, this) /\ new \in Int
    BY <1>3, <1>4, <1>5
  <2>2. D \in SUBSET Nat /\ s \in HeapState(D) /\ Tiles(s) /\ this \in D
    BY <1>1, <1>2, Zenon
  <2>3. new \notin D
    BY <2>1, <2>2, NoBlockInside, Zenon
  <2> QED
    BY <2>2, <2>3, Zenon
<1>7. rest \in Int /\ rest = s.hdr[this].size - total - 16
  BY <1>b, <1>c, <1>3
<1>8. PICK E \in SUBSET Nat : E = D \cup {new}
  BY <1>1, <1>4, Zenon
<1> HIDE DEF F
<1>9. PICK s1 : s1 = WriteFree(s, new, rest)
  BY Zenon
<1>10. /\ s1 \in HeapState(E)
       /\ s1.tail = s.tail /\ s1.heap_end = s.heap_end /\ s1.free_head = s.free_head
       /\ \A c \in D : s1.hdr[c] = s.hdr[c]
       /\ s1.hdr[new].size = rest /\ ~s1.hdr[new].used
  <2>1. /\ OnlyHeader(E, s, s1, new)
        /\ s1.hdr[new].size = rest /\ ~s1.hdr[new].used
    <3>1. D \in SUBSET Nat /\ s \in HeapState(D) /\ new \in Nat /\ rest \in Int
      BY <1>1, <1>4, <1>7, Zenon
    <3> QED
      BY <1>8, <1>9, <3>1, WriteFreeEffect
  <2> QED
    BY <1>6, <1>8, <2>1, Zenon DEF OnlyHeader
<1>11. FreeOK(s1, F)
  <2>1. SameLinks(F, s, s1)
    BY <1>2, <1>10, Zenon DEF SameLinks
  <2> QED
    BY <1>1, <2>1, ChainFrame, Zenon
<1>12. PICK s2 : s2 = InsertFreeBlock(s1, new)
  BY Zenon
<1>13. s2 \in HeapState(E) /\ SameBlocks(E, s1, s2) /\ FreeOK(s2, F \cup {new})
  <2>1. F \in SUBSET E /\ new \in E \ F
    BY <1>2, <1>6, <1>8, Zenon
  <2>2. s1.free_head \in (E \ {new}) \cup {Null}
    <3>1. F \in SUBSET Nat /\ s1.free_head \in F \cup {Null}
      BY <1>8, <1>11, <2>1, ChainEnds, Zenon
    <3> QED
      BY <2>1, <3>1, Zenon
  <2> QED
    BY <1>10, <1>11, <1>12, <2>1, <2>2, InsertEffect, ChainInsert, Zenon
<1>14. PICK s3 : s3 = InsertAfter(s2, this, new)
  BY Zenon
<1>15. /\ s2.tail = s.tail /\ s2.heap_end = s.heap_end
       /\ \A c \in D : /\ s2.hdr[c].size = s.hdr[c].size /\ s2.hdr[c].used = s.hdr[c].used
                       /\ s2.hdr[c].prev = s.hdr[c].prev
       /\ s2.hdr[new].size = rest /\ ~s2.hdr[new].used
  BY <1>8, <1>10, <1>13 DEF SameBlocks
<1>16. EndPtr(s2, this) = EndPtr(s, this) /\ (this # s.tail => EndPtr(s, this) \in D)
  BY <1>1, <1>2, <1>15, TilesFacts, Zenon DEF EndPtr
<1>17. /\ s3 \in HeapState(E) /\ SameLinks(E, s2, s3)
       /\ s3.heap_end = s.heap_end
       /\ s3.tail = IF this = s.tail THEN new ELSE s.tail
       /\ \A c \in E : s3.hdr[c].size = s2.hdr[c].size /\ s3.hdr[c].used = s2.hdr[c].used
       /\ s3.hdr[new].prev = this
       /\ \A c \in E \ {new} :
            s3.hdr[c].prev = IF this # s2.tail /\ c = EndPtr(s2, this) THEN new
                             ELSE s2.hdr[c].prev
  <2>1. this \in E /\ new \in E /\ (this # s2.tail => EndPtr(s2, this) \in E)
    BY <1>2, <1>8, <1>15, <1>16, Zenon
  <2>2. /\ s3 \in HeapState(E) /\ SameLinks(E, s2, s3)
        /\ s3.heap_end = s2.heap_end
        /\ s3.tail = IF this = s2.tail THEN new ELSE s2.tail
        /\ \A c \in E : s3.hdr[c].size = s2.hdr[c].size /\ s3.hdr[c].used = s2.hdr[c].used
        /\ s3.hdr[new].prev = this
        /\ \A c \in E \ {new} :
             s3.hdr[c].prev = IF this # s2.tail /\ c = EndPtr(s2, this) THEN new
                              ELSE s2.hdr[c].prev
    <3>1. s2 \in HeapState(E)
      BY <1>13, Zenon
    <3> QED
      <4>0. E \in SUBSET Nat
        BY <1>8, Zenon
      <4>1. LinkedAfter(E, s2, this, new, InsertAfter(s2, this, new))
        BY <2>1, <3>1, <4>0, InsertAfterLinks, Zenon
      <4> QED
        BY <1>14, <4>1, Zenon DEF LinkedAfter
  <2> QED
    BY <1>15, <2>2, Zenon
<1>18. t = SetSize(s3, this, total)
  BY <1>9, <1>12, <1>14, Zenon DEF CutsOff, WriteFree
<1>19. /\ OnlyHeader(E, s3, t, this) /\ t.hdr[this].size = total
       /\ t.hdr[this].used = s3.hdr[this].used /\ t.hdr[this].prev = s3.hdr[this].prev
       /\ t.hdr[this].free_next = s3.hdr[this].free_next
       /\ t.hdr[this].free_prev = s3.hdr[this].free_prev
  <2>1. this \in E /\ total \in Int /\ s3 \in HeapState(E)
    BY <1>b, <1>2, <1>8, <1>17
  <2> QED
    BY <1>18, <2>1, SetSizeEffect
<1>20. /\ t \in HeapState(E) /\ t.tail = s3.tail /\ t.heap_end = s.heap_end
       /\ t.free_head = s3.free_head
       /\ \A c \in E \ {this} : t.hdr[c] = s3.hdr[c]
  BY <1>17, <1>19, Zenon DEF OnlyHeader
<1>21. \A c \in D \ {this} : t.hdr[c].size = s.hdr[c].size
  BY <1>8, <1>15, <1>17, <1>20
<1>22. t.hdr[new].size = EndPtr(s, this) - new - 16 /\ t.hdr[new].prev = this
  <2>1. new \in E /\ new # this
    BY <1>6, <1>8, Zenon
  <2>2. t.hdr[new].size = rest /\ t.hdr[new].prev = this
    BY <1>15, <1>17, <1>20, <2>1, Zenon
  <2> QED
    BY <1>b, <1>c, <1>3, <2>2
<1>23. \A c \in D : t.hdr[c].prev = IF this # s.tail /\ c = EndPtr(s, this) THEN new
                                    ELSE s.hdr[c].prev
  BY <1>6, <1>8, <1>15, <1>16, <1>17, <1>19, <1>20
<1>24. /\ \A c \in D : t.hdr[c].used = s.hdr[c].used
       /\ ~t.hdr[new].used
  BY <1>2, <1>6, <1>8, <1>15, <1>17, <1>19, <1>20
<1>25. t.tail = IF this = s.tail THEN new ELSE s.tail
  BY <1>17, <1>20, Zenon
<1>26. t.hdr[this].size = new - this - 16
  BY <1>b, <1>3, <1>5, <1>19
<1>27. Tiles(t)
  <2>1. D \in SUBSET Nat /\ s \in HeapState(D) /\ Tiles(s) /\ this \in D
    BY <1>1, <1>2, Zenon
  <2>2. t \in HeapState(D \cup {new}) /\ t.heap_end = s.heap_end
    BY <1>8, <1>20, Zenon
  <2> QED
    <3>1. SplitOff(D, s, this, new, t)
      BY <1>4, <1>5, <1>21, <1>22, <1>23, <1>25, <1>26, <2>1, <2>2, Zenon DEF SplitOff
    <3> QED
      BY <3>1, TilesSplit, Zenon
<1>28. DOMAIN t.hdr = E
  BY <1>20, Zenon DEF HeapState
<1>29. FreeBlocks(t) = F \cup {new}
  BY <1>2, <1>8, <1>24, <1>28, Zenon DEF FreeBlocks, F
<1>30. FreeOK(t, FreeBlocks(t))
  <2>1. \A c \in E : /\ t.hdr[c].free_next = s2.hdr[c].free_next
                     /\ t.hdr[c].free_prev = s2.hdr[c].free_prev
    <3>1. \A c \in E : /\ s3.hdr[c].free_next = s2.hdr[c].free_next
                       /\ s3.hdr[c].free_prev = s2.hdr[c].free_prev
      BY <1>17, Zenon DEF SameLinks
    <3>2. \A c \in E : /\ t.hdr[c].free_next = s3.hdr[c].free_next
                       /\ t.hdr[c].free_prev = s3.hdr[c].free_prev
      BY <1>19, <1>20, Zenon
    <3> QED
      BY <3>1, <3>2, Zenon
  <2>2. SameLinks(F \cup {new}, s2, t)
    BY <1>2, <1>8, <1>17, <1>20, <2>1, Zenon DEF SameLinks
  <2> QED
    BY <1>13, <1>29, <2>2, ChainFrame, Zenon
<1>31. LiveOK(t, lv)
  <2>1. ASSUME NEW p \in DOMAIN lv
        PROVE  /\ p \in Nat /\ lv[p] \in Layouts
               /\ p - 16 \in E /\ t.hdr[p - 16].used
               /\ lv[p].size <= t.hdr[p - 16].size
               /\ p % lv[p].align = 0
    <3>1. /\ p \in Nat /\ lv[p] \in Layouts
          /\ p - 16 \in D /\ s.hdr[p - 16].used
          /\ lv[p].size <= s.hdr[p - 16].size
          /\ p % lv[p].align = 0
      BY <1>1, <1>2, Zenon DEF LiveOK
    <3> QED
      BY <1>2, <1>8, <1>21, <1>24, <3>1, Zenon
  <2>2. ASSUME NEW b \in E, t.hdr[b].used PROVE b + 16 \in DOMAIN lv
    BY <1>1, <1>2, <1>8, <1>24, <2>2, Zenon DEF LiveOK
  <2> QED
    BY <1>28, <2>1, <2>2, Zenon DEF LiveOK
<1>32. ASSUME NEW b \in E \ {t.tail, this}
       PROVE  t.hdr[b].used \/ t.hdr[EndPtr(t, b)].used
  <2>1. CASE b = new
    <3>1. this # s.tail
      BY <1>25, <2>1, Zenon
    <3>2. EndPtr(s, this) \in D /\ s.hdr[EndPtr(s, this)].used
      BY <1>1, <1>2, <1>16, <3>1, Zenon DEF Coalesced
    <3>3. EndPtr(t, new) = EndPtr(s, this)
      <4>1. EndPtr(t, new) = new + 16 + t.hdr[new].size
        BY Zenon DEF EndPtr, AllocArea
      <4> QED
        BY <1>4, <1>5, <1>22, <4>1
    <3> QED
      BY <1>24, <2>1, <3>2, <3>3, Zenon
  <2>2. CASE b # new
    <3>1. b \in D /\ b # s.tail
      BY <1>8, <1>25, <2>2, Zenon
    <3>2. EndPtr(t, b) = EndPtr(s, b) /\ EndPtr(s, b) \in D
      BY <1>1, <1>21, <3>1, TilesFacts, Zenon DEF EndPtr
    <3>3. s.hdr[b].used \/ s.hdr[EndPtr(s, b)].used
      BY <1>1, <1>2, <3>1, Zenon DEF Coalesced
    <3> QED
      BY <1>24, <3>1, <3>2, <3>3, Zenon
  <2> QED
    BY <2>1, <2>2, Zenon
<1>33. Listed(E)
  BY <1>1, <1>8, ListedAdd, Zenon
<1>34. HeapCore(E, t, lv)
  BY <1>20, <1>27, <1>30, <1>31, <1>33, Zenon DEF HeapCore
<1>35. this \in FreeBlocks(t)
  BY <1>2, <1>29, Zenon
<1> QED
  BY <1>8, <1>19, <1>20, <1>32, <1>34, <1>35, Zenon DEF CoalescedBut

(* split_block where the allocation starts at the block itself keeps the   *)
(* heap in order.                                                          *)
LEMMA SplitTwoOK ==
  ASSUME NEW D, NEW s, NEW lv, HeapOK(D, s, lv), NEW this \in FreeBlocks(s),
         NEW l \in Layouts, s.hdr[this].size >= AlignUp(l.size, 8),
         (this + 16) % l.align = 0
  PROVE  LET t == SplitTwo(s, this, l) IN
         /\ \E E : HeapOK(E, t, Holding(lv, this + 16, l))
         /\ t.heap_end = s.heap_end
<1>1. /\ D \in SUBSET Nat /\ s \in HeapState(D) /\ Tiles(s) /\ Coalesced(s)
      /\ DOMAIN s.hdr = D /\ this \in D
  BY Zenon DEF HeapOK, HeapCore, HeapState, FreeBlocks
<1>2. s.hdr[this].size \in Nat /\ s.hdr[this].size >= 16
  <2>1. TileFacts(D, s)
    BY <1>1, TilesHold, Zenon
  <2>2. s.hdr[this].size \in Int /\ s.hdr[this].size >= 16
    BY <1>1, <2>1, Zenon DEF TileFacts
  <2> QED
    BY <2>2
<1>3. PICK total \in Nat : total = AlignUp(MaxOf(l.size, MIN_ALLOC_SIZE), 8)
  BY <1>2, TotalFacts, Zenon
<1>4. /\ total % 8 = 0 /\ total >= MIN_ALLOC_SIZE
      /\ total >= l.size /\ total <= s.hdr[this].size
  BY <1>2, <1>3, TotalFacts, Zenon
<1>5. l.size \in Nat
  BY LayoutFacts, Zenon
<1>6. CASE s.hdr[this].size - total >= MIN_BLOCK_SIZE
  <2>1. PICK new, rest : /\ new = AllocArea(this) + total
                         /\ rest = s.hdr[this].size - total - BLOCK_HEADER_SIZE
    BY Zenon
  <2>2. PICK u : u = SetSize(InsertAfter(InsertFreeBlock(
                    WriteHeader(s, new, NewHeader(rest, FALSE)), new), this, new), this, total)
    BY Zenon
  <2>3. SplitTwo(s, this, l) = SetUsed(RemoveFreeBlock(u, this), this, TRUE)
    BY <1>3, <1>6, <2>1, <2>2, Zenon DEF SplitTwo
  <2>4. /\ HeapCore(D \cup {new}, u, lv) /\ this \in FreeBlocks(u)
        /\ u.hdr[this].size = total /\ u.heap_end = s.heap_end
        /\ CoalescedBut(D \cup {new}, u, this)
    <3>1. CutsOff(D, s, lv, this, total, new, rest, u)
      BY <1>4, <1>6, <2>1, <2>2, Zenon DEF CutsOff
    <3> QED
      BY <3>1, CutFree
  <2> QED
    <3>1. l.size <= u.hdr[this].size
      BY <1>4, <1>5, <2>4, Zenon
    <3>2. TakesWhole(D \cup {new}, u, lv, this, l, SplitTwo(s, this, l))
      BY <2>3, <2>4, <3>1, Zenon DEF TakesWhole
    <3> QED
      BY <2>4, <3>2, TakeWhole
<1>7. CASE ~(s.hdr[this].size - total >= MIN_BLOCK_SIZE)
  <2>1. SplitTwo(s, this, l) = SetUsed(RemoveFreeBlock(s, this), this, TRUE)
    BY <1>3, <1>7, Zenon DEF SplitTwo
  <2>2. l.size <= s.hdr[this].size
    BY <1>2, <1>4, <1>5
  <2>3. CoalescedBut(D, s, this)
    BY <1>1, Zenon DEF Coalesced, CoalescedBut
  <2> QED
    <3>1. TakesWhole(D, s, lv, this, l, SplitTwo(s, this, l))
      BY <2>1, <2>2, <2>3, Zenon DEF TakesWhole, HeapOK
    <3> QED
      BY <3>1, TakeWhole
<1> QED
  BY <1>6, <1>7, Zenon

-----------------------------------------------------------------------------
(* The size of the used block of a three-way split. *)
LEMMA AlignedSizeFacts ==
  ASSUME NEW l \in Layouts
  PROVE  /\ AlignedSize(l) \in Nat /\ AlignedSize(l) % 8 = 0
         /\ AlignedSize(l) >= MIN_ALLOC_SIZE /\ AlignedSize(l) >= l.size
<1>1. l.size \in Nat
  BY LayoutFacts, Zenon
<1>2. PICK a \in Nat : a = AlignUp(l.size, 8) /\ a % 8 = 0 /\ a >= l.size
  BY <1>1, AlignUpEight, Zenon
<1>3. AlignedSize(l) = IF a >= 16 THEN a ELSE 16
  BY <1>2, Zenon DEF MaxOf, AlignedSize
<1> QED
  BY <1>1, <1>2, <1>3

(* A place inside the free block this for an allocation of layout l, with  *)
(* room for the header of a free block in front and of one behind.         *)
PlaceInside(D, s, lv, this, at, l) ==
  /\ HeapOK(D, s, lv) /\ this \in FreeBlocks(s) /\ l \in Layouts
  /\ at \in Nat /\ at % 8 = 0 /\ at >= this + 32
  /\ at + 16 + AlignedSize(l) + 16 <= EndPtr(s, this)
  /\ (at + 16) % l.align = 0

(* The part of a place that concerns numbers. *)
LEMMA PlaceFacts ==
  ASSUME NEW D, NEW s, NEW lv, NEW this, NEW at, NEW l, PlaceInside(D, s, lv, this, at, l)
  PROVE  /\ D \in SUBSET Nat /\ s \in HeapState(D) /\ Tiles(s) /\ FreeOK(s, FreeBlocks(s))
         /\ DOMAIN s.hdr = D /\ FreeBlocks(s) \in SUBSET D
         /\ this \in D /\ this \in Nat /\ ~s.hdr[this].used
         /\ at \in Nat /\ at \notin D /\ this < at /\ at < EndPtr(s, this)
         /\ at - this - 16 \in Int
         /\ AlignedSize(l) \in Nat /\ EndPtr(s, this) \in Int
<1>1. /\ D \in SUBSET Nat /\ s \in HeapState(D) /\ Tiles(s) /\ FreeOK(s, FreeBlocks(s))
      /\ this \in FreeBlocks(s)
  BY Zenon DEF PlaceInside, HeapOK, HeapCore
<1>2. DOMAIN s.hdr = D /\ FreeBlocks(s) \in SUBSET D /\ this \in D /\ ~s.hdr[this].used
  BY <1>1, Zenon DEF HeapState, FreeBlocks
<1>3. this \in Nat /\ EndPtr(s, this) \in Int
  BY <1>1, <1>2, TilesFacts, Zenon
<1>4. AlignedSize(l) \in Nat
  BY AlignedSizeFacts, Zenon DEF PlaceInside
<1>5. at \in Nat /\ this < at /\ at < EndPtr(s, this) /\ at - this - 16 \in Int
  BY <1>3, <1>4 DEF PlaceInside
<1>6. at \notin D
  <2>1. Tiles(s) /\ at \in Int
    BY <1>1, <1>5
  <2> QED
    BY <1>1, <1>2, <1>5, <2>1, NoBlockInside, Zenon
<1> QED
  BY <1>1, <1>2, <1>3, <1>4, <1>5, <1>6, Zenon

(* One block more. *)
Plus(D, b) == D \cup {b}

(* The first half of a three-way split. *)
PlacesUsed(s, this, at, l, t) ==
  t = InsertAfter(WriteUsed(SetSize(s, this, at - AllocArea(this)), at, AlignedSize(l)),
                  this, at)

(* What it leaves. *)
UsedPlaced(D, s, this, at, l, E, t) ==
  /\ E \in SUBSET Nat /\ t \in HeapState(E) /\ t.heap_end = s.heap_end
  /\ FreeOK(t, FreeBlocks(s))
  /\ t.tail = IF this = s.tail THEN at ELSE s.tail
  /\ t.hdr[this].size = at - this - 16
  /\ \A c \in D \ {this} : t.hdr[c].size = s.hdr[c].size
  /\ \A c \in D : t.hdr[c].used = s.hdr[c].used /\ t.hdr[c].prev = s.hdr[c].prev
  /\ t.hdr[at].size = AlignedSize(l) /\ t.hdr[at].used /\ t.hdr[at].prev = this

(* The used block at the place is written behind what is left of this. *)
LEMMA PlaceUsed ==
  ASSUME NEW D, NEW s, NEW lv, NEW this, NEW at, NEW l, PlaceInside(D, s, lv, this, at, l),
         NEW t, PlacesUsed(s, this, at, l, t)
  PROVE  UsedPlaced(D, s, this, at, l, Plus(D, at), t)
<1>0. PICK E : E = Plus(D, at)
  BY Zenon
<1>1. PICK F, A, v : F = FreeBlocks(s) /\ A = AlignedSize(l) /\ v = at - this - 16
  BY Zenon
<1>2. /\ D \in SUBSET Nat /\ s \in HeapState(D) /\ FreeOK(s, F) /\ F \in SUBSET D
      /\ this \in D /\ at \in Nat /\ at \notin D /\ v \in Int /\ A \in Int /\ this \in Nat
  BY <1>1, PlaceFacts
<1>3. PICK s1 : s1 = SetSize(s, this, v)
  BY Zenon
<1>4. PICK s2 : s2 = WriteUsed(s1, at, A)
  BY Zenon
<1>5. t = InsertAfter(s2, this, at)
  <2>1. v = at - AllocArea(this)
    BY <1>1, <1>2 DEF AllocArea
  <2> QED
    BY <1>1, <1>3, <1>4, <2>1, Zenon DEF PlacesUsed
<1>6. /\ OnlyHeader(D, s, s1, this) /\ s1.hdr[this].size = v
      /\ s1.hdr[this].used = s.hdr[this].used /\ s1.hdr[this].prev = s.hdr[this].prev
      /\ s1.hdr[this].free_next = s.hdr[this].free_next
      /\ s1.hdr[this].free_prev = s.hdr[this].free_prev
  BY <1>2, <1>3, SetSizeEffect
<1>7. /\ OnlyHeader(E, s1, s2, at) /\ s2.hdr[at].size = A /\ s2.hdr[at].used
  <2>1. s1 \in HeapState(D)
    BY <1>6, Zenon DEF OnlyHeader
  <2>2. E = D \cup {at}
    BY <1>0, Zenon DEF Plus
  <2>3. HeaderWritten(D \cup {at}, s1, at, A, TRUE, WriteUsed(s1, at, A))
    BY <1>2, <2>1, WritesHeader, Zenon
  <2> QED
    BY <1>4, <2>2, <2>3, Zenon DEF HeaderWritten
<1>8. /\ s2 \in HeapState(E) /\ s2.heap_end = s.heap_end /\ s2.tail = s.tail
      /\ s2.free_head = s.free_head
      /\ \A c \in D : s2.hdr[c] = s1.hdr[c]
      /\ \A c \in D \ {this} : s2.hdr[c] = s.hdr[c]
  BY <1>0, <1>2, <1>6, <1>7, ZenonT(30) DEF OnlyHeader, Plus
<1>9. E \in SUBSET Nat /\ this \in E /\ at \in E /\ \A c \in D : c \in E /\ c # at
  BY <1>0, <1>2, Zenon DEF Plus
<1>10. EndPtr(s2, this) = at
  <2>1. EndPtr(s2, this) = this + 16 + v
    BY <1>2, <1>6, <1>8, Zenon DEF EndPtr, AllocArea
  <2> QED
    BY <1>1, <1>2, <2>1
<1>11. /\ t \in HeapState(E) /\ SameLinks(E, s2, t)
       /\ t.heap_end = s2.heap_end
       /\ t.tail = IF this = s2.tail THEN at ELSE s2.tail
       /\ \A c \in E : t.hdr[c].size = s2.hdr[c].size /\ t.hdr[c].used = s2.hdr[c].used
       /\ t.hdr[at].prev = this
       /\ \A c \in E \ {at} : t.hdr[c].prev = s2.hdr[c].prev
  <2>1. s2 \in HeapState(E) /\ (this # s2.tail => EndPtr(s2, this) \in E)
    BY <1>8, <1>9, <1>10, Zenon
  <2>2. /\ t \in HeapState(E) /\ SameLinks(E, s2, t)
        /\ t.heap_end = s2.heap_end
        /\ t.tail = IF this = s2.tail THEN at ELSE s2.tail
        /\ \A c \in E : t.hdr[c].size = s2.hdr[c].size /\ t.hdr[c].used = s2.hdr[c].used
        /\ t.hdr[at].prev = this
        /\ \A c \in E \ {at} :
              t.hdr[c].prev = IF this # s2.tail /\ c = EndPtr(s2, this) THEN at
                              ELSE s2.hdr[c].prev
    BY <1>5, <1>9, <2>1, InsertAfterEffect
  <2> QED
    BY <1>10, <2>2, Zenon
<1>12. /\ \A c \in D : t.hdr[c].used = s.hdr[c].used /\ t.hdr[c].prev = s.hdr[c].prev
  <2>1. \A c \in D : t.hdr[c].used = s1.hdr[c].used /\ t.hdr[c].prev = s1.hdr[c].prev
    BY <1>8, <1>9, <1>11, Zenon
  <2>2. \A c \in D : s1.hdr[c].used = s.hdr[c].used /\ s1.hdr[c].prev = s.hdr[c].prev
    BY <1>6, Zenon DEF OnlyHeader
  <2> QED
    BY <2>1, <2>2, Zenon
<1>13. t.hdr[this].size = v /\ \A c \in D \ {this} : t.hdr[c].size = s.hdr[c].size
  BY <1>2, <1>6, <1>8, <1>9, <1>11
<1>14. FreeOK(t, F)
  <2>1. \A c \in D : /\ s2.hdr[c].free_next = s.hdr[c].free_next
                     /\ s2.hdr[c].free_prev = s.hdr[c].free_prev
    BY <1>6, <1>8, Zenon
  <2>2. SameLinks(F, s, t)
    BY <1>2, <1>8, <1>9, <1>11, <2>1, ZenonT(30) DEF SameLinks
  <2> QED
    BY <1>2, <2>2, ChainFrame, Zenon
<1> QED
  BY <1>0, <1>1, <1>7, <1>8, <1>9, <1>11, <1>12, <1>13, <1>14, Zenon DEF UsedPlaced

(* The second half of a three-way split: a free block is written behind at. *)
AppendsFree(E, s, F, at, new, rest, t) ==
  /\ E \in SUBSET Nat /\ s \in HeapState(E) /\ F \in SUBSET E /\ FreeOK(s, F)
  /\ at \in E /\ new \in Nat /\ new \notin E /\ EndPtr(s, at) = new /\ rest \in Int
  /\ t = InsertAfter(InsertFreeBlock(WriteFree(s, new, rest), new), at, new)

(* What it leaves. *)
FreeAppended(E, s, F, at, new, rest, G, t) ==
  /\ G \in SUBSET Nat /\ t \in HeapState(G) /\ t.heap_end = s.heap_end
  /\ FreeOK(t, Plus(F, new))
  /\ t.tail = IF at = s.tail THEN new ELSE s.tail
  /\ \A c \in E : /\ t.hdr[c].size = s.hdr[c].size /\ t.hdr[c].used = s.hdr[c].used
                  /\ t.hdr[c].prev = s.hdr[c].prev
  /\ t.hdr[new].size = rest /\ ~t.hdr[new].used /\ t.hdr[new].prev = at

(* The free block behind at is added to both lists. *)
LEMMA AppendFree ==
  ASSUME NEW E, NEW s, NEW F, NEW at, NEW new, NEW rest, NEW t,
         AppendsFree(E, s, F, at, new, rest, t)
  PROVE  FreeAppended(E, s, F, at, new, rest, Plus(E, new), t)
<1>0. PICK G : G = Plus(E, new)
  BY Zenon
<1>1. /\ E \in SUBSET Nat /\ s \in HeapState(E) /\ F \in SUBSET E /\ FreeOK(s, F)
      /\ at \in E /\ new \in Nat /\ new \notin E /\ rest \in Int
  BY Zenon DEF AppendsFree
<1>2. G \in SUBSET Nat /\ new \in G /\ at \in G /\ \A c \in E : c \in G /\ c # new
  BY <1>0, <1>1, Zenon DEF Plus
<1>3. PICK s1 : s1 = WriteFree(s, new, rest)
  BY Zenon
<1>4. PICK s2 : s2 = InsertFreeBlock(s1, new)
  BY Zenon
<1>5. t = InsertAfter(s2, at, new)
  BY <1>3, <1>4, Zenon DEF AppendsFree
<1>6. OnlyHeader(G, s, s1, new) /\ s1.hdr[new].size = rest /\ ~s1.hdr[new].used
  <2>1. G = E \cup {new}
    BY <1>0, Zenon DEF Plus
  <2>2. HeaderWritten(E \cup {new}, s, new, rest, FALSE, WriteFree(s, new, rest))
    BY <1>1, WritesHeader, Zenon
  <2> QED
    BY <1>3, <2>1, <2>2, Zenon DEF HeaderWritten
<1>7. /\ s1 \in HeapState(G) /\ s1.heap_end = s.heap_end /\ s1.tail = s.tail
      /\ s1.free_head = s.free_head
      /\ \A c \in E : s1.hdr[c] = s.hdr[c]
  BY <1>2, <1>6, Zenon DEF OnlyHeader
<1>8. FreeOK(s1, F)
  <2>1. SameLinks(F, s, s1)
    BY <1>1, <1>7, Zenon DEF SameLinks
  <2> QED
    BY <1>1, <2>1, ChainFrame, Zenon
<1>9. s2 \in HeapState(G) /\ SameBlocks(G, s1, s2) /\ FreeOK(s2, F \cup {new})
  <2>1. F \in SUBSET G /\ new \in G \ F /\ F \in SUBSET Nat
    BY <1>1, <1>2, Zenon
  <2>2. s1.free_head \in F \cup {Null}
    BY <1>8, <2>1, ChainEnds, Zenon
  <2>3. s1.free_head \in (G \ {new}) \cup {Null}
    BY <2>1, <2>2, Zenon
  <2>4. s2 \in HeapState(G) /\ SameBlocks(G, s1, s2)
    BY <1>2, <1>4, <1>7, <2>3, InsertEffect, Zenon
  <2>5. FreeOK(s2, F \cup {new})
    BY <1>2, <1>4, <1>7, <1>8, <2>1, ChainInsert, Zenon
  <2> QED
    BY <2>4, <2>5, Zenon
<1>10. /\ s2.tail = s.tail /\ s2.heap_end = s.heap_end
       /\ \A c \in E : /\ s2.hdr[c].size = s.hdr[c].size /\ s2.hdr[c].used = s.hdr[c].used
                       /\ s2.hdr[c].prev = s.hdr[c].prev
       /\ s2.hdr[new].size = rest /\ ~s2.hdr[new].used
  BY <1>2, <1>6, <1>7, <1>9 DEF SameBlocks
<1>11. EndPtr(s2, at) = new
  BY <1>1, <1>10, Zenon DEF EndPtr, AppendsFree
<1>12. /\ t \in HeapState(G) /\ SameLinks(G, s2, t)
       /\ t.heap_end = s2.heap_end
       /\ t.tail = IF at = s2.tail THEN new ELSE s2.tail
       /\ \A c \in G : t.hdr[c].size = s2.hdr[c].size /\ t.hdr[c].used = s2.hdr[c].used
       /\ t.hdr[new].prev = at
       /\ \A c \in G \ {new} : t.hdr[c].prev = s2.hdr[c].prev
  <2>1. s2 \in HeapState(G) /\ (at # s2.tail => EndPtr(s2, at) \in G)
    BY <1>2, <1>9, <1>11, Zenon
  <2>2. /\ t \in HeapState(G) /\ SameLinks(G, s2, t)
        /\ t.heap_end = s2.heap_end
        /\ t.tail = IF at = s2.tail THEN new ELSE s2.tail
        /\ \A c \in G : t.hdr[c].size = s2.hdr[c].size /\ t.hdr[c].used = s2.hdr[c].used
        /\ t.hdr[new].prev = at
        /\ \A c \in G \ {new} :
              t.hdr[c].prev = IF at # s2.tail /\ c = EndPtr(s2, at) THEN new
                              ELSE s2.hdr[c].prev
    BY <1>2, <1>5, <2>1, InsertAfterEffect
  <2> QED
    BY <1>11, <2>2, Zenon
<1>13. FreeOK(t, F \cup {new})
  <2>1. SameLinks(F \cup {new}, s2, t)
    BY <1>1, <1>2, <1>12, Zenon DEF SameLinks
  <2> QED
    BY <1>9, <2>1, ChainFrame, Zenon
<1>14. \A c \in E : /\ t.hdr[c].size = s.hdr[c].size /\ t.hdr[c].used = s.hdr[c].used
                    /\ t.hdr[c].prev = s.hdr[c].prev
  BY <1>2, <1>10, <1>12, Zenon
<1>15. FreeOK(t, Plus(F, new))
  BY <1>13, Zenon DEF Plus
<1> QED
  BY <1>0, <1>2, <1>10, <1>12, <1>14, <1>15, Zenon DEF FreeAppended

(* Sizes and addresses a block can have. *)
Shaped(D, s) ==
  /\ D \in SUBSET Nat /\ s \in HeapState(D) /\ s.tail \in D /\ s.heap_end \in Nat
  /\ \A b \in D : b % 8 = 0 /\ s.hdr[b].size >= 16 /\ s.hdr[b].size % 8 = 0

(* A heap in order has such blocks. *)
LEMMA OKShaped ==
  ASSUME NEW D, NEW s, NEW lv, HeapCore(D, s, lv)
  PROVE  Shaped(D, s)
<1>1. D \in SUBSET Nat /\ s \in HeapState(D) /\ Tiles(s)
  BY Zenon DEF HeapCore
<1>2. /\ s.tail \in D /\ EndPtr(s, s.tail) = s.heap_end
      /\ \A b \in D : b % 8 = 0 /\ s.hdr[b].size >= 16 /\ s.hdr[b].size % 8 = 0
  <2>1. TileFacts(D, s)
    BY <1>1, TilesHold, Zenon
  <2> QED
    BY <2>1, Zenon DEF TileFacts
<1>3. EndPtr(s, s.tail) \in Int /\ EndPtr(s, s.tail) >= s.tail + 32
  BY <1>1, <1>2, TilesFacts, Zenon
<1>4. s.heap_end \in Nat
  <2>1. s.tail \in Nat
    BY <1>1, <1>2, Zenon
  <2> QED
    BY <1>2, <1>3, <2>1
<1> QED
  BY <1>1, <1>2, <1>4, Zenon DEF Shaped

(* What a three-way split leaves when there is room for a free block behind. *)
Behind(D, s, this, at, l, new, t) ==
  LET E == Plus(D, at) G == Plus(E, new) IN
  /\ new \in Nat /\ new = at + 16 + AlignedSize(l) /\ new \notin E
  /\ new + 32 <= EndPtr(s, this)
  /\ G \in SUBSET Nat /\ t \in HeapState(G) /\ t.heap_end = s.heap_end
  /\ FreeOK(t, Plus(FreeBlocks(s), new))
  /\ t.tail = IF this = s.tail THEN new ELSE s.tail
  /\ t.hdr[this].size = at - this - 16
  /\ \A c \in D \ {this} : t.hdr[c].size = s.hdr[c].size
  /\ \A c \in D : t.hdr[c].used = s.hdr[c].used /\ t.hdr[c].prev = s.hdr[c].prev
  /\ t.hdr[at].size = AlignedSize(l) /\ t.hdr[at].used /\ t.hdr[at].prev = this
  /\ t.hdr[new].size = EndPtr(s, this) - new - 16
  /\ ~t.hdr[new].used /\ t.hdr[new].prev = at

(* A three-way split with room behind. *)
LEMMA SplitThreeBehind ==
  ASSUME NEW D, NEW s, NEW lv, NEW this, NEW at, NEW l, PlaceInside(D, s, lv, this, at, l),
         Excess(at, EndPtr(s, this), l) >= MIN_ALLOC_SIZE
  PROVE  \E new : Behind(D, s, this, at, l, new, SplitThree(s, this, at, l))
<1>1. PICK F, A, e : F = FreeBlocks(s) /\ A = AlignedSize(l) /\ e = EndPtr(s, this)
  BY Zenon
<1>2. /\ D \in SUBSET Nat /\ s \in HeapState(D) /\ Tiles(s) /\ F \in SUBSET D
      /\ this \in D /\ at \in Nat /\ at \notin D /\ A \in Nat /\ this \in Nat /\ e \in Int
      /\ this < at
  BY <1>1, PlaceFacts, Zenon
<1>3. PICK rest : rest = Excess(at, e, l)
  BY Zenon
<1>4. rest \in Int /\ rest = e - at - 16 - A - 16 /\ rest >= 16
  BY <1>1, <1>2, <1>3 DEF Excess, AllocArea
<1>5. PICK u : PlacesUsed(s, this, at, l, u)
  BY Zenon DEF PlacesUsed
<1>6. PICK E : E = Plus(D, at)
  BY Zenon
<1>7. /\ E \in SUBSET Nat /\ u \in HeapState(E) /\ u.heap_end = s.heap_end
      /\ FreeOK(u, F)
      /\ u.tail = IF this = s.tail THEN at ELSE s.tail
      /\ u.hdr[this].size = at - this - 16
      /\ \A c \in D \ {this} : u.hdr[c].size = s.hdr[c].size
      /\ \A c \in D : u.hdr[c].used = s.hdr[c].used /\ u.hdr[c].prev = s.hdr[c].prev
      /\ u.hdr[at].size = A /\ u.hdr[at].used /\ u.hdr[at].prev = this
  <2>1. UsedPlaced(D, s, this, at, l, Plus(D, at), u)
    BY <1>5, PlaceUsed, Zenon
  <2> QED
    BY <1>1, <1>6, <2>1, Zenon DEF UsedPlaced
<1>8. PICK new : new = EndPtr(u, at)
  BY Zenon
<1>9. new \in Nat /\ new = at + 16 + A /\ new + 32 <= e /\ at < new /\ new < e
  <2>1. new = at + 16 + u.hdr[at].size
    BY <1>8, Zenon DEF EndPtr, AllocArea
  <2> QED
    <3>1. new = at + 16 + A
      BY <1>7, <2>1, Zenon
    <3> QED
      BY <1>2, <1>4, <3>1
<1>10. PICK t : t = SplitThree(s, this, at, l)
  BY Zenon
<1>11. t = InsertAfter(InsertFreeBlock(WriteFree(u, new, rest), new), at, new)
  BY <1>1, <1>3, <1>4, <1>5, <1>8, <1>10, Zenon DEF SplitThree, PlacesUsed, WriteFree, WriteUsed
<1>12. new \notin E
  <2>1. this < new /\ new < EndPtr(s, this) /\ new \in Int
    BY <1>1, <1>2, <1>9
  <2>2. new \notin D
    BY <1>2, <2>1, NoBlockInside, Zenon
  <2> QED
    BY <1>2, <1>6, <1>9, <2>2 DEF Plus
<1>13. AppendsFree(E, u, F, at, new, rest, t)
  <2>1. F \in SUBSET E /\ at \in E
    BY <1>2, <1>6, Zenon DEF Plus
  <2> QED
    BY <1>4, <1>7, <1>8, <1>9, <1>11, <1>12, <2>1, Zenon DEF AppendsFree
<1>14. PICK G : G = Plus(E, new)
  BY Zenon
<1>15. /\ G \in SUBSET Nat /\ t \in HeapState(G) /\ t.heap_end = u.heap_end
       /\ FreeOK(t, Plus(F, new))
       /\ t.tail = IF at = u.tail THEN new ELSE u.tail
       /\ \A c \in E : /\ t.hdr[c].size = u.hdr[c].size /\ t.hdr[c].used = u.hdr[c].used
                       /\ t.hdr[c].prev = u.hdr[c].prev
       /\ t.hdr[new].size = rest /\ ~t.hdr[new].used /\ t.hdr[new].prev = at
  <2>1. FreeAppended(E, u, F, at, new, rest, Plus(E, new), t)
    BY <1>13, AppendFree, Zenon
  <2> QED
    BY <1>14, <2>1, Zenon DEF FreeAppended
<1>16. at \in E /\ \A c \in D : c \in E
  BY <1>6, Zenon DEF Plus
<1>17. t.tail = IF this = s.tail THEN new ELSE s.tail
  <2>1. s.tail \in D
    BY <1>2, TilesFacts, Zenon
  <2>2. s.tail # at
    BY <1>2, <2>1, Zenon
  <2> QED
    BY <1>7, <1>15, <2>2, Zenon
<1>18. /\ t.hdr[this].size = at - this - 16
       /\ \A c \in D \ {this} : t.hdr[c].size = s.hdr[c].size
       /\ \A c \in D : t.hdr[c].used = s.hdr[c].used /\ t.hdr[c].prev = s.hdr[c].prev
       /\ t.hdr[at].size = A /\ t.hdr[at].used /\ t.hdr[at].prev = this
  <2>1. t.hdr[this].size = at - this - 16 /\ t.hdr[at].size = A
    BY <1>2, <1>7, <1>15, <1>16, Zenon
  <2>2. t.hdr[at].used /\ t.hdr[at].prev = this
    BY <1>7, <1>15, <1>16, ZenonT(30)
  <2>3. \A c \in D \ {this} : t.hdr[c].size = s.hdr[c].size
    BY <1>7, <1>15, <1>16, ZenonT(30)
  <2>4. \A c \in D : t.hdr[c].used = s.hdr[c].used /\ t.hdr[c].prev = s.hdr[c].prev
    BY <1>7, <1>15, <1>16, ZenonT(30)
  <2> QED
    BY <2>1, <2>2, <2>3, <2>4, Zenon
<1>19. t.hdr[new].size = e - new - 16
  <2>1. rest = e - new - 16
    BY <1>2, <1>4, <1>9
  <2> QED
    BY <1>15, <2>1, Zenon
<1>20. Behind(D, s, this, at, l, new, t)
  BY <1>1, <1>6, <1>7, <1>9, <1>12, <1>14, <1>15, <1>17, <1>18, <1>19, Zenon DEF Behind
<1> QED
  BY <1>10, <1>20, Zenon

(* A three-way split never moves heap_end, torn or not. *)
LEMMA SplitThreeEnd ==
  ASSUME NEW D, NEW s, NEW lv, NEW this, NEW at, NEW l, PlaceInside(D, s, lv, this, at, l)
  PROVE  SplitThree(s, this, at, l).heap_end = s.heap_end
<1>1. PICK t : t = SplitThree(s, this, at, l)
  BY Zenon
<1>2. CASE Excess(at, EndPtr(s, this), l) >= 16
  <2>1. PICK new : Behind(D, s, this, at, l, new, t)
    BY <1>1, <1>2, SplitThreeBehind, Zenon
  <2> QED
    BY <1>1, <2>1, Zenon DEF Behind
<1>3. CASE ~(Excess(at, EndPtr(s, this), l) >= 16)
  <2>1. PlacesUsed(s, this, at, l, t)
    BY <1>1, <1>3, Zenon DEF SplitThree, PlacesUsed, WriteUsed
  <2>2. UsedPlaced(D, s, this, at, l, Plus(D, at), t)
    BY <2>1, PlaceUsed, Zenon
  <2> QED
    BY <1>1, <2>2, Zenon DEF UsedPlaced
<1> QED
  BY <1>2, <1>3, Zenon

(* A three-way split of the last block with room behind keeps the heap in  *)
(* order.                                                                  *)
LEMMA SplitThreeOK ==
  ASSUME NEW D, NEW s, NEW lv, NEW this, NEW at, NEW l, PlaceInside(D, s, lv, this, at, l),
         this = s.tail, Excess(at, EndPtr(s, this), l) >= MIN_ALLOC_SIZE
  PROVE  \E G : HeapOK(G, SplitThree(s, this, at, l), Holding(lv, at + 16, l))
<1>1. PICK F, A, e : F = FreeBlocks(s) /\ A = AlignedSize(l) /\ e = EndPtr(s, this)
  BY Zenon
<1>2. /\ D \in SUBSET Nat /\ s \in HeapState(D) /\ Tiles(s) /\ F \in SUBSET D
      /\ this \in D /\ at \in Nat /\ at \notin D /\ A \in Nat /\ this \in Nat /\ e \in Int
      /\ this < at /\ DOMAIN s.hdr = D /\ ~s.hdr[this].used
  BY <1>1, PlaceFacts
<1>3. /\ Listed(D) /\ Coalesced(s) /\ LiveOK(s, lv) /\ l \in Layouts
      /\ at % 8 = 0 /\ at >= this + 32 /\ (at + 16) % l.align = 0 /\ this \in F
  BY <1>1, Zenon DEF PlaceInside, HeapOK, HeapCore
<1>4. A % 8 = 0 /\ A >= 16 /\ A >= l.size
  BY <1>1, <1>3, AlignedSizeFacts, Zenon
<1>5. PICK t : t = SplitThree(s, this, at, l)
  BY Zenon
<1>6. PICK new : Behind(D, s, this, at, l, new, t)
  BY <1>5, SplitThreeBehind, Zenon
<1>7. PICK E, G : E = Plus(D, at) /\ G = Plus(E, new)
  BY Zenon
<1>8. /\ new \in Nat /\ new = at + 16 + A /\ new \notin E /\ new + 32 <= e
      /\ G \in SUBSET Nat /\ t \in HeapState(G) /\ t.heap_end = s.heap_end
      /\ FreeOK(t, Plus(F, new)) /\ t.tail = new
  BY <1>1, <1>6, <1>7, Zenon DEF Behind
<1>9. /\ t.hdr[this].size = at - this - 16
      /\ \A c \in D \ {this} : t.hdr[c].size = s.hdr[c].size
      /\ \A c \in D : t.hdr[c].used = s.hdr[c].used /\ t.hdr[c].prev = s.hdr[c].prev
      /\ t.hdr[at].size = A /\ t.hdr[at].used /\ t.hdr[at].prev = this
      /\ t.hdr[new].size = e - new - 16 /\ ~t.hdr[new].used /\ t.hdr[new].prev = at
  BY <1>1, <1>6, Zenon DEF Behind
<1>10. E \in SUBSET Nat /\ at \in E /\ this \in E /\ new # at /\ new # this /\ this # at
       /\ \A c \in D : c \in E /\ c # new /\ c # at
  BY <1>2, <1>7, <1>8, Zenon DEF Plus
<1>11. at \in G /\ new \in G /\ \A c \in E : c \in G
  BY <1>7, <1>10, Zenon DEF Plus
<1>12. PICK m1 : m1 = DropHeader(t, new)
  BY Zenon
<1>13. PICK m2 : m2 = SetSize(m1, at, e - at - 16)
  BY Zenon
<1>14. PICK m : m = SetTail(m2, at)
  BY Zenon
<1>15. /\ m1 \in HeapState(E) /\ m1.heap_end = s.heap_end
       /\ \A c \in E : m1.hdr[c] = t.hdr[c]
  <2>1. G \ {new} = E
    BY <1>7, <1>8, Zenon DEF Plus
  <2>2. OnlyHeader(G \ {new}, t, m1, new)
    BY <1>8, <1>11, <1>12, DropHeaderEffect, Zenon
  <2>3. OnlyHeader(E, t, m1, new)
    BY <2>1, <2>2, Zenon
  <2> QED
    BY <1>8, <2>3, Zenon DEF OnlyHeader
<1>16. /\ OnlyHeader(E, m1, m2, at) /\ m2.hdr[at].size = e - at - 16
       /\ m2.hdr[at].prev = m1.hdr[at].prev
  <2>1. e - at - 16 \in Int
    BY <1>2
  <2> QED
    <3>1. SizeSet(E, m1, at, e - at - 16, SetSize(m1, at, e - at - 16))
      BY <1>10, <1>15, <2>1, SetSizeSets, Zenon
    <3> QED
      BY <1>13, <3>1, Zenon DEF SizeSet
<1>17. /\ m \in HeapState(E) /\ m.heap_end = s.heap_end /\ m.tail = at
       /\ m.hdr[at].size = e - at - 16 /\ m.hdr[at].prev = this
       /\ \A c \in D : m.hdr[c] = t.hdr[c]
  <2>1. /\ m2 \in HeapState(E) /\ m2.heap_end = s.heap_end
        /\ \A c \in E \ {at} : m2.hdr[c] = t.hdr[c]
    BY <1>15, <1>16, Zenon DEF OnlyHeader
  <2>2. m \in HeapState(E) /\ m.hdr = m2.hdr /\ m.tail = at /\ m.heap_end = m2.heap_end
    <3>1. at \in Int /\ m2 \in HeapState(E)
      BY <1>2, <2>1
    <3> QED
      <4>1. TailSet(E, m2, at, SetTail(m2, at))
        BY <1>10, <3>1, SetTailSets, Zenon
      <4> QED
        BY <1>14, <4>1, Zenon DEF TailSet
  <2>3. m.hdr[at].size = e - at - 16 /\ m.hdr[at].prev = this
    BY <1>9, <1>10, <1>15, <1>16, <2>2, Zenon
  <2> QED
    BY <1>10, <2>1, <2>2, <2>3, Zenon
<1>18. Tiles(m)
  <2>1. m \in HeapState(D \cup {at})
    BY <1>7, <1>17, Zenon DEF Plus
  <2>2. at + 32 <= EndPtr(s, this)
    BY <1>1, <1>2, <1>4, <1>8
  <2>3. m.hdr[this].size = at - this - 16 /\ m.hdr[at].size = EndPtr(s, this) - at - 16
    BY <1>1, <1>2, <1>9, <1>17, Zenon
  <2>4. \A c \in D \ {this} : m.hdr[c].size = s.hdr[c].size
    BY <1>9, <1>17, Zenon
  <2>5. \A c \in D : m.hdr[c].prev = s.hdr[c].prev
    BY <1>9, <1>17, Zenon
  <2>6. \A c \in D : m.hdr[c].prev = IF this # s.tail /\ c = EndPtr(s, this) THEN at
                                     ELSE s.hdr[c].prev
    BY <2>5, Zenon
  <2>7. m.tail = IF this = s.tail THEN at ELSE s.tail
    BY <1>17, Zenon
  <2> QED
    <3>1. SplitOff(D, s, this, at, m)
      BY <1>2, <1>3, <1>17, <2>1, <2>2, <2>3, <2>4, <2>6, <2>7, Zenon DEF SplitOff
    <3> QED
      BY <3>1, TilesSplit, Zenon
<1>19. EndPtr(m, at) = e
  <2>1. EndPtr(m, at) = at + 16 + m.hdr[at].size
    BY Zenon DEF EndPtr, AllocArea
  <2> QED
    BY <1>2, <1>17, <2>1
<1>20. Tiles(t)
  <2>1. t \in HeapState(E \cup {new})
    BY <1>7, <1>8, Zenon DEF Plus
  <2>2. new % 8 = 0 /\ new >= at + 32 /\ new + 32 <= EndPtr(m, at)
    <3>1. new % 8 = 0 /\ new >= at + 32
      BY <1>2, <1>3, <1>4, <1>8
    <3> QED
      BY <1>8, <1>19, <3>1, Zenon
  <2>3. t.hdr[at].size = new - at - 16 /\ t.hdr[new].size = EndPtr(m, at) - new - 16
    <3>1. t.hdr[at].size = A /\ t.hdr[new].size = e - new - 16
      BY <1>9, Zenon
    <3>2. new - at - 16 = A
      BY <1>2, <1>8
    <3> QED
      BY <1>19, <3>1, <3>2, Zenon
  <2>4. \A c \in E \ {at} : t.hdr[c].size = m.hdr[c].size
    BY <1>7, <1>17, Zenon DEF Plus
  <2>5. \A c \in E : t.hdr[c].prev = m.hdr[c].prev
    BY <1>7, <1>9, <1>17, Zenon DEF Plus
  <2>6. \A c \in E : t.hdr[c].prev = IF at # m.tail /\ c = EndPtr(m, at) THEN new
                                     ELSE m.hdr[c].prev
    BY <1>17, <2>5, Zenon
  <2>7. t.tail = IF at = m.tail THEN new ELSE m.tail
    BY <1>8, <1>17, Zenon
  <2>8. t.heap_end = m.heap_end /\ t.hdr[new].prev = at
    BY <1>8, <1>9, <1>17, Zenon
  <2> QED
    <3>1. SplitOff(E, m, at, new, t)
      BY <1>8, <1>10, <1>17, <1>18, <2>1, <2>2, <2>3, <2>4, <2>6, <2>7, <2>8, Zenon DEF SplitOff
    <3> QED
      BY <3>1, TilesSplit, Zenon
<1>21. DOMAIN t.hdr = G
  BY <1>8, Zenon DEF HeapState
<1>22. FreeBlocks(t) = Plus(F, new)
  <2>1. \A c \in G : ~t.hdr[c].used <=> c \in Plus(F, new)
    <3> SUFFICES ASSUME NEW c \in G PROVE ~t.hdr[c].used <=> c = new \/ c \in F
      BY Zenon DEF Plus
    <3>1. c = new \/ c = at \/ c \in D
      BY <1>7, Zenon DEF Plus
    <3>2. CASE c = new
      BY <1>9, <3>2, Zenon
    <3>3. CASE c = at
      BY <1>2, <1>9, <1>10, <3>3, Zenon
    <3>4. CASE c \in D
      BY <1>1, <1>2, <1>9, <1>10, <3>4, Zenon DEF FreeBlocks
    <3> QED
      BY <3>1, <3>2, <3>3, <3>4, Zenon
  <2>2. \A c \in Plus(F, new) : c \in G
    BY <1>2, <1>10, <1>11, Zenon DEF Plus
  <2> QED
    BY <1>21, <2>1, <2>2, Zenon DEF FreeBlocks
<1>23. Coalesced(t)
  <2> SUFFICES ASSUME NEW b \in G \ {new} PROVE t.hdr[b].used \/ t.hdr[EndPtr(t, b)].used
    BY <1>8, <1>21, Zenon DEF Coalesced
  <2>1. b = at \/ b = this \/ b \in D \ {this}
    BY <1>7, Zenon DEF Plus
  <2>2. CASE b = at
    BY <1>9, <2>2, Zenon
  <2>3. CASE b = this
    <3>1. EndPtr(t, this) = this + 16 + t.hdr[this].size
      BY Zenon DEF EndPtr, AllocArea
    <3>2. EndPtr(t, this) = at
      BY <1>2, <1>9, <3>1
    <3> QED
      BY <1>9, <2>3, <3>2, Zenon
  <2>4. CASE b \in D \ {this}
    <3>1. s.hdr[b].used \/ s.hdr[EndPtr(s, b)].used
      BY <1>2, <1>3, <2>4, Zenon DEF Coalesced
    <3>2. EndPtr(s, b) \in D
      BY <1>2, <2>4, TilesFacts, ZenonT(30)
    <3>3. EndPtr(t, b) = EndPtr(s, b)
      BY <1>9, <2>4, Zenon DEF EndPtr
    <3> QED
      BY <1>9, <2>4, <3>1, <3>2, <3>3, Zenon
  <2> QED
    BY <2>1, <2>2, <2>3, <2>4, Zenon
<1>24. LiveOK(t, Holding(lv, at + 16, l))
  <2>1. \A c \in D : s.hdr[c].used =>
          c \in G /\ t.hdr[c].used /\ t.hdr[c].size = s.hdr[c].size
    BY <1>2, <1>9, <1>10, <1>11, Zenon
  <2>2. \A c \in G : t.hdr[c].used => c = at \/ (c \in D /\ s.hdr[c].used)
    <3> SUFFICES ASSUME NEW c \in G, t.hdr[c].used PROVE c = at \/ (c \in D /\ s.hdr[c].used)
      BY Zenon
    <3>1. c = new \/ c = at \/ c \in D
      BY <1>7, Zenon DEF Plus
    <3> QED
      BY <1>9, <3>1, Zenon
  <2>3. t.hdr[at].used /\ l.size <= t.hdr[at].size
    BY <1>4, <1>9, Zenon
  <2> QED
    BY <1>2, <1>3, <1>8, <1>11, <2>1, <2>2, <2>3, LiveAdd, ZenonT(30)
<1>25. Listed(G)
  <2>1. Listed(E)
    <3>1. Listed(D) /\ at \in Nat
      BY <1>2, <1>3, Zenon
    <3>2. \A c \in E : c \in D \/ c = at
      BY <1>7, Zenon DEF Plus
    <3> QED
      BY <3>1, <3>2, ListedAdd, Zenon
  <2>2. new \in Nat
    BY <1>8, Zenon
  <2>3. \A c \in G : c \in E \/ c = new
    BY <1>7, Zenon DEF Plus
  <2> QED
    BY <2>1, <2>2, <2>3, ListedAdd, Zenon
<1>26. HeapOK(G, t, Holding(lv, at + 16, l))
  BY <1>8, <1>20, <1>22, <1>23, <1>24, <1>25, Zenon DEF HeapOK, HeapCore
<1> QED
  BY <1>5, <1>26, Zenon

-----------------------------------------------------------------------------
(* The pages find_fit asks for are whole, and hold the request.            *)
LEMMA GrowBytesFacts ==
  ASSUME NEW l \in Layouts
  PROVE  /\ GrowBytes(l) \in Nat /\ GrowBytes(l) % 8 = 0 /\ GrowBytes(l) >= 32
         /\ GrowBytes(l) >= 16 + l.align + l.size
         /\ GrowBytes(l) <= l.size + l.align + (PageSize + 16)
         /\ \E k \in Nat : GrowBytes(l) = k * PageSize
<1>1. /\ l.size \in Nat /\ l.align \in Nat
      /\ PageSize \in Nat \ {0} /\ PageSize % 8 = 0 /\ PageSize >= 32
  BY LayoutFacts, HeapAssumption
<1>2. PICK m \in Nat : m = 16 + l.align + l.size
  BY <1>1
<1>3. PICK x \in Nat : /\ x = MaxOf(m, PageSize) /\ x >= m /\ x >= PageSize
                       /\ x = m \/ x = PageSize
  BY <1>1, <1>2 DEF MaxOf
<1>4. GrowBytes(l) = AlignUp(x, PageSize)
  BY <1>2, <1>3, Zenon DEF GrowBytes
<1>5. PICK k \in Nat : AlignUp(x, PageSize) = k * PageSize
  BY <1>1, <1>3, AlignUpFacts, Zenon
<1>6. AlignUp(x, PageSize) \in Nat /\ AlignUp(x, PageSize) >= x /\ AlignUp(x, PageSize) < x + PageSize
  BY <1>1, <1>3, AlignUpFacts, Zenon
<1>7. (k * PageSize) % 8 = 0
  BY <1>1, <1>5, EightDivides, Zenon
<1>8. PICK g \in Nat : g = GrowBytes(l) /\ g >= x /\ g < x + PageSize /\ g = k * PageSize
  BY <1>4, <1>5, <1>6, Zenon
<1>9. g >= 32 /\ g >= m
  BY <1>1, <1>2, <1>3, <1>8
<1>10. g % 8 = 0
  BY <1>7, <1>8, Zenon
<1>11. g <= m + PageSize
  <2>1. CASE x = m
    BY <1>1, <1>2, <1>8, <2>1
  <2>2. CASE x = PageSize
    <3>1. g = PageSize
      BY <1>1, <1>4, <1>8, <2>2 DEF AlignUp
    <3> QED
      BY <1>1, <1>2, <3>1
  <2> QED
    BY <1>3, <2>1, <2>2, Zenon
<1>12. g <= l.size + l.align + (PageSize + 16)
  BY <1>1, <1>2, <1>8, <1>11
<1> QED
  BY <1>2, <1>8, <1>9, <1>10, <1>12, Zenon

(* grow_kernel_heap moves heap_end only. *)
LEMMA MoveEnd ==
  ASSUME NEW D \in SUBSET Nat, NEW s \in HeapState(D), NEW n \in Nat,
         NEW t, t = [s EXCEPT !.heap_end = @ + n]
  PROVE  /\ t \in HeapState(D) /\ t.hdr = s.hdr /\ t.tail = s.tail
         /\ t.free_head = s.free_head /\ t.heap_end = s.heap_end + n
BY DEF HeapState

(* The heap before growing by n bytes and after. *)
Grown(D, s, lv, n, t) ==
  HeapOK(D, s, lv) /\ n \in Nat /\ n % 8 = 0 /\ n >= 32 /\ t = Grow(s, n)

(* New pages after a free last block make it larger. *)
LEMMA GrowFreeTail ==
  ASSUME NEW D, NEW s, NEW lv, NEW n, NEW t, Grown(D, s, lv, n, t), ~s.hdr[s.tail].used
  PROVE  /\ HeapOK(D, t, lv) /\ t.tail \in FreeBlocks(t)
         /\ t.heap_end = s.heap_end + n /\ t.tail = s.tail
<1>1. /\ D \in SUBSET Nat /\ Listed(D) /\ s \in HeapState(D)
      /\ Tiles(s) /\ FreeOK(s, FreeBlocks(s)) /\ Coalesced(s) /\ LiveOK(s, lv)
  BY Zenon DEF Grown, HeapOK, HeapCore
<1>2. n \in Nat /\ n % 8 = 0 /\ n >= 32
  BY Zenon DEF Grown
<1>3. s.tail \in D /\ DOMAIN s.hdr = D /\ s.hdr[s.tail].size \in Int
  BY <1>1, TilesFacts, Zenon DEF HeapState
<1>4. PICK u : u = [s EXCEPT !.heap_end = @ + n]
  BY Zenon
<1>5. /\ u \in HeapState(D) /\ u.hdr = s.hdr /\ u.tail = s.tail
      /\ u.free_head = s.free_head /\ u.heap_end = s.heap_end + n
  BY <1>1, <1>2, <1>4, MoveEnd
<1>6. PICK b, v : b = s.tail /\ v = s.hdr[s.tail].size + n
  BY Zenon
<1>7. t = SetSize(u, b, v)
  BY <1>4, <1>6, Zenon DEF Grown, Grow, IsFree
<1>8. /\ OnlyHeader(D, u, t, b) /\ t.hdr[b].size = v
      /\ t.hdr[b].used = u.hdr[b].used /\ t.hdr[b].prev = u.hdr[b].prev
      /\ t.hdr[b].free_next = u.hdr[b].free_next
      /\ t.hdr[b].free_prev = u.hdr[b].free_prev
  <2>1. b \in D /\ v \in Int /\ u \in HeapState(D)
    BY <1>2, <1>3, <1>5, <1>6
  <2> QED
    <3>1. SizeSet(D, u, b, v, SetSize(u, b, v))
      BY <1>1, <2>1, SetSizeSets, Zenon
    <3> QED
      BY <1>7, <3>1, Zenon DEF SizeSet
<1>9. /\ t \in HeapState(D) /\ t.tail = b /\ t.heap_end = s.heap_end + n
      /\ t.free_head = s.free_head
      /\ \A c \in D \ {b} : t.hdr[c] = s.hdr[c]
      /\ t.hdr[b].size = s.hdr[b].size + n
      /\ t.hdr[b].used = s.hdr[b].used /\ t.hdr[b].prev = s.hdr[b].prev
      /\ t.hdr[b].free_next = s.hdr[b].free_next
      /\ t.hdr[b].free_prev = s.hdr[b].free_prev
  BY <1>5, <1>6, <1>8, Zenon DEF OnlyHeader
<1>10. \A c \in D : /\ t.hdr[c].used = s.hdr[c].used /\ t.hdr[c].prev = s.hdr[c].prev
                    /\ t.hdr[c].free_next = s.hdr[c].free_next
                    /\ t.hdr[c].free_prev = s.hdr[c].free_prev
  BY <1>9, Zenon
<1>11. DOMAIN t.hdr = D
  BY <1>9, Zenon DEF HeapState
<1>12. Tiles(t)
  BY <1>1, <1>2, <1>6, <1>9, <1>10, TilesGrowTail, ZenonT(30)
<1>13. FreeBlocks(t) = FreeBlocks(s)
  BY <1>3, <1>10, <1>11, Zenon DEF FreeBlocks
<1>14. FreeOK(t, FreeBlocks(t))
  <2>1. FreeBlocks(s) \in SUBSET D
    BY <1>3, Zenon DEF FreeBlocks
  <2>2. SameLinks(FreeBlocks(s), s, t)
    BY <1>9, <1>10, <2>1, Zenon DEF SameLinks
  <2> QED
    BY <1>1, <1>13, <2>2, ChainFrame, Zenon
<1>15. Coalesced(t)
  <2> SUFFICES ASSUME NEW c \in D \ {b} PROVE t.hdr[c].used \/ t.hdr[EndPtr(t, c)].used
    BY <1>9, <1>11, Zenon DEF Coalesced
  <2>1. s.hdr[c].used \/ s.hdr[EndPtr(s, c)].used
    BY <1>1, <1>3, <1>6, Zenon DEF Coalesced
  <2>2. EndPtr(s, c) \in D
    BY <1>1, <1>6, TilesFacts, Zenon
  <2>3. EndPtr(t, c) = EndPtr(s, c)
    BY <1>9, Zenon DEF EndPtr
  <2> QED
    BY <1>10, <2>1, <2>2, <2>3, Zenon
<1>16. LiveOK(t, lv)
  <2>1. ASSUME NEW p \in DOMAIN lv
        PROVE  /\ p \in Nat /\ lv[p] \in Layouts
               /\ p - 16 \in D /\ t.hdr[p - 16].used
               /\ lv[p].size <= t.hdr[p - 16].size
               /\ p % lv[p].align = 0
    <3>1. /\ p \in Nat /\ lv[p] \in Layouts
          /\ p - 16 \in D /\ s.hdr[p - 16].used
          /\ lv[p].size <= s.hdr[p - 16].size
          /\ p % lv[p].align = 0
      BY <1>1, <1>3, Zenon DEF LiveOK
    <3>2. p - 16 # b
      BY <1>6, <3>1, Zenon
    <3> QED
      BY <1>9, <1>10, <3>1, <3>2
  <2>2. ASSUME NEW c \in D, t.hdr[c].used PROVE c + 16 \in DOMAIN lv
    BY <1>1, <1>3, <1>10, <2>2, Zenon DEF LiveOK
  <2> QED
    BY <1>11, <2>1, <2>2, Zenon DEF LiveOK
<1>17. t.tail \in FreeBlocks(t)
  BY <1>3, <1>6, <1>9, <1>11, Zenon DEF FreeBlocks
<1> QED
  BY <1>1, <1>6, <1>9, <1>12, <1>14, <1>15, <1>16, <1>17, Zenon DEF HeapOK, HeapCore

(* New pages after a used last block become a free block of their own. *)
LEMMA GrowUsedTail ==
  ASSUME NEW D, NEW s, NEW lv, NEW n, NEW t, Grown(D, s, lv, n, t), s.hdr[s.tail].used
  PROVE  /\ \E E : HeapOK(E, t, lv)
         /\ t.tail \in FreeBlocks(t) /\ t.heap_end = s.heap_end + n
         /\ t.tail = s.heap_end
<1>1. PICK F, new : F = FreeBlocks(s) /\ new = s.heap_end
  BY Zenon
<1>2. /\ D \in SUBSET Nat /\ Listed(D) /\ s \in HeapState(D)
      /\ Tiles(s) /\ FreeOK(s, F) /\ Coalesced(s) /\ LiveOK(s, lv)
  BY <1>1, Zenon DEF Grown, HeapOK, HeapCore
<1>3. n \in Nat /\ n % 8 = 0 /\ n >= 32 /\ n - 16 \in Int
  BY DEF Grown
<1>4. s.tail \in D /\ DOMAIN s.hdr = D /\ F \in SUBSET D /\ s.heap_end \in Nat
  <2>1. Shaped(D, s)
    BY OKShaped, Zenon DEF Grown, HeapOK
  <2>2. DOMAIN s.hdr = D
    BY <1>2, Zenon DEF HeapState
  <2> QED
    BY <1>1, <2>1, <2>2, Zenon DEF Shaped, FreeBlocks
<1>5. new \in Nat /\ new \notin D
  <2>1. \A c \in D : c <= s.tail
    BY <1>2, TilesFacts, Zenon
  <2>2. EndPtr(s, s.tail) = s.heap_end
    BY <1>2, TilesFacts, Zenon
  <2>a. EndPtr(s, s.tail) >= s.tail + 32
    BY <1>2, <1>4, TilesFacts, Zenon
  <2>b. s.tail \in Nat
    BY <1>2, <1>4, Zenon
  <2>3. s.tail \in Nat /\ s.tail < new
    BY <1>1, <1>4, <2>2, <2>a, <2>b
  <2> SUFFICES ASSUME new \in D PROVE FALSE
    BY <1>1, <1>4, Zenon
  <2>4. new <= s.tail
    BY <2>1, Zenon
  <2> QED
    BY <1>1, <1>4, <2>3, <2>4
<1>6. PICK E : E = Plus(D, new)
  BY Zenon
<1>7. E \in SUBSET Nat /\ new \in E /\ \A c \in D : c \in E /\ c # new
  BY <1>2, <1>5, <1>6, Zenon DEF Plus
<1>8. PICK s0 : s0 = [s EXCEPT !.heap_end = @ + n]
  BY Zenon
<1>9. /\ s0 \in HeapState(D) /\ s0.hdr = s.hdr /\ s0.tail = s.tail
      /\ s0.free_head = s.free_head /\ s0.heap_end = s.heap_end + n
  BY <1>2, <1>3, <1>8, MoveEnd
<1>10. PICK s1 : s1 = WriteFree(s0, new, n - 16)
  BY Zenon
<1>11. PICK s2 : s2 = InsertFreeBlock(s1, new)
  BY Zenon
<1>12. PICK s3 : s3 = SetPrev(s2, new, s2.tail)
  BY Zenon
<1>13. t = SetTail(s3, new)
  BY <1>1, <1>8, <1>10, <1>11, <1>12, Zenon DEF Grown, Grow, IsFree, AppendToList, WriteFree
<1>14. OnlyHeader(E, s0, s1, new) /\ s1.hdr[new].size = n - 16 /\ ~s1.hdr[new].used
  <2>1. new \in Nat /\ n - 16 \in Int
    BY <1>3, <1>5
  <2>2. HeaderWritten(D \cup {new}, s0, new, n - 16, FALSE, WriteFree(s0, new, n - 16))
    BY <1>2, <1>9, <2>1, WritesHeader, Zenon
  <2>3. HeaderWritten(E, s0, new, n - 16, FALSE, s1)
    BY <1>6, <1>10, <2>2, Zenon DEF Plus
  <2> QED
    BY <2>3, Zenon DEF HeaderWritten
<1>15. /\ s1 \in HeapState(E) /\ s1.heap_end = s.heap_end + n /\ s1.tail = s.tail
       /\ s1.free_head = s.free_head
       /\ \A c \in D : s1.hdr[c] = s.hdr[c]
  BY <1>7, <1>9, <1>14, Zenon DEF OnlyHeader
<1>16. FreeOK(s1, F)
  <2>1. SameLinks(F, s, s1)
    BY <1>4, <1>15, Zenon DEF SameLinks
  <2> QED
    BY <1>2, <2>1, ChainFrame, Zenon
<1>17. s2 \in HeapState(E) /\ SameBlocks(E, s1, s2) /\ FreeOK(s2, F \cup {new})
  <2>1. F \in SUBSET E /\ new \in E \ F /\ F \in SUBSET Nat
    BY <1>2, <1>4, <1>7, Zenon
  <2>2. s1.free_head \in F \cup {Null}
    BY <1>16, <2>1, ChainEnds, Zenon
  <2>3. s1.free_head \in (E \ {new}) \cup {Null}
    BY <2>1, <2>2, Zenon
  <2>4. s2 \in HeapState(E) /\ SameBlocks(E, s1, s2)
    BY <1>7, <1>11, <1>15, <2>3, InsertEffect, Zenon
  <2>5. FreeOK(s2, F \cup {new})
    BY <1>7, <1>11, <1>15, <1>16, <2>1, ChainInsert, Zenon
  <2> QED
    BY <2>4, <2>5, Zenon
<1>18. /\ OnlyHeader(E, s2, s3, new) /\ s3.hdr[new].prev = s2.tail
       /\ s3.hdr[new].size = s2.hdr[new].size /\ s3.hdr[new].used = s2.hdr[new].used
       /\ s3.hdr[new].free_next = s2.hdr[new].free_next
       /\ s3.hdr[new].free_prev = s2.hdr[new].free_prev
  <2>1. s2 \in HeapState(E) /\ s2.tail \in Int
    BY <1>17, Zenon DEF HeapState
  <2> QED
    <3>1. PrevSet(E, s2, new, s2.tail, SetPrev(s2, new, s2.tail))
      BY <1>7, <2>1, SetPrevSets, Zenon
    <3> QED
      BY <1>12, <3>1, Zenon DEF PrevSet
<1>19. /\ t \in HeapState(E) /\ t.hdr = s3.hdr /\ t.tail = new
       /\ t.heap_end = s3.heap_end /\ t.free_head = s3.free_head
  <2>1. s3 \in HeapState(E) /\ new \in Int
    BY <1>5, <1>18 DEF OnlyHeader
  <2> QED
    <3>1. TailSet(E, s3, new, SetTail(s3, new))
      BY <1>7, <2>1, SetTailSets, Zenon
    <3> QED
      BY <1>13, <3>1, Zenon DEF TailSet
<1>20. /\ t.heap_end = s.heap_end + n /\ t.free_head = s2.free_head
       /\ \A c \in D : t.hdr[c] = s2.hdr[c]
       /\ t.hdr[new].size = n - 16 /\ ~t.hdr[new].used /\ t.hdr[new].prev = s.tail
  <2>1. /\ s3.heap_end = s2.heap_end /\ s3.free_head = s2.free_head
        /\ \A c \in D : s3.hdr[c] = s2.hdr[c]
    BY <1>7, <1>18, Zenon DEF OnlyHeader
  <2>2. /\ s2.heap_end = s1.heap_end /\ s2.tail = s1.tail
        /\ s2.hdr[new].size = s1.hdr[new].size /\ s2.hdr[new].used = s1.hdr[new].used
    BY <1>7, <1>17, Zenon DEF SameBlocks
  <2>3. t.hdr[new].size = n - 16 /\ t.hdr[new].prev = s.tail
    BY <1>14, <1>15, <1>18, <1>19, <2>2, ZenonT(30)
  <2>4. ~t.hdr[new].used
    BY <1>14, <1>18, <1>19, <2>2, Zenon
  <2> QED
    BY <1>15, <1>19, <2>1, <2>2, <2>3, <2>4, Zenon
<1>21. \A c \in D : /\ t.hdr[c].size = s.hdr[c].size /\ t.hdr[c].used = s.hdr[c].used
                    /\ t.hdr[c].prev = s.hdr[c].prev
  BY <1>7, <1>15, <1>17, <1>20, ZenonT(30) DEF SameBlocks
<1>22. DOMAIN t.hdr = E
  BY <1>19, Zenon DEF HeapState
<1>23. Tiles(t)
  <2>1. t \in HeapState(D \cup {new})
    BY <1>6, <1>19, Zenon DEF Plus
  <2>2. \A c \in D : t.hdr[c].size = s.hdr[c].size /\ t.hdr[c].prev = s.hdr[c].prev
    BY <1>21, Zenon
  <2>3. t.tail = new /\ t.heap_end = s.heap_end + n
        /\ t.hdr[new].size = n - 16 /\ t.hdr[new].prev = s.tail
    BY <1>19, <1>20, Zenon
  <2> QED
    BY <1>1, <1>2, <1>3, <2>1, <2>2, <2>3, TilesAppend
<1>24. FreeBlocks(t) = F \cup {new}
  BY <1>1, <1>4, <1>6, <1>20, <1>21, <1>22, Zenon DEF FreeBlocks, Plus
<1>25. FreeOK(t, FreeBlocks(t))
  <2>1. SameLinks(F \cup {new}, s2, t)
    BY <1>4, <1>7, <1>18, <1>19, <1>20 DEF SameLinks
  <2> QED
    BY <1>17, <1>24, <2>1, ChainFrame, Zenon
<1>26. Coalesced(t)
  <2> SUFFICES ASSUME NEW c \in D PROVE t.hdr[c].used \/ t.hdr[EndPtr(t, c)].used
    BY <1>6, <1>19, <1>22, Zenon DEF Coalesced, Plus
  <2>1. CASE c = s.tail
    BY <1>21, <2>1, Zenon
  <2>2. CASE c # s.tail
    <3>1. s.hdr[c].used \/ s.hdr[EndPtr(s, c)].used
      BY <1>2, <1>4, <2>2, Zenon DEF Coalesced
    <3>2. EndPtr(s, c) \in D
      BY <1>2, <2>2, TilesFacts, Zenon
    <3>3. EndPtr(t, c) = EndPtr(s, c)
      BY <1>21, Zenon DEF EndPtr
    <3> QED
      BY <1>21, <3>1, <3>2, <3>3, Zenon
  <2> QED
    BY <2>1, <2>2, Zenon
<1>27. LiveOK(t, lv)
  <2>1. ASSUME NEW p \in DOMAIN lv
        PROVE  /\ p \in Nat /\ lv[p] \in Layouts
               /\ p - 16 \in E /\ t.hdr[p - 16].used
               /\ lv[p].size <= t.hdr[p - 16].size
               /\ p % lv[p].align = 0
    <3>1. /\ p \in Nat /\ lv[p] \in Layouts
          /\ p - 16 \in D /\ s.hdr[p - 16].used
          /\ lv[p].size <= s.hdr[p - 16].size
          /\ p % lv[p].align = 0
      BY <1>2, <1>4, Zenon DEF LiveOK
    <3> QED
      BY <1>7, <1>21, <3>1, Zenon
  <2>2. ASSUME NEW c \in E, t.hdr[c].used PROVE c + 16 \in DOMAIN lv
    <3>1. c \in D
      BY <1>6, <1>20, <2>2, Zenon DEF Plus
    <3> QED
      BY <1>2, <1>4, <1>21, <2>2, <3>1, Zenon DEF LiveOK
  <2> QED
    BY <1>22, <2>1, <2>2, Zenon DEF LiveOK
<1>28. t.tail \in FreeBlocks(t)
  BY <1>19, <1>24, Zenon
<1>29. Listed(E)
  <2>1. \A c \in E : c \in D \/ c = new
    BY <1>6, Zenon DEF Plus
  <2>2. Listed(D) /\ new \in Nat
    BY <1>2, <1>7, Zenon DEF HeapOK, HeapCore
  <2> QED
    BY <2>1, <2>2, ListedAdd, Zenon
<1>30. HeapOK(E, t, lv)
  BY <1>7, <1>19, <1>23, <1>25, <1>26, <1>27, <1>29, Zenon DEF HeapOK, HeapCore
<1> QED
  BY <1>1, <1>19, <1>20, <1>28, <1>30, Zenon

(* find_fit's growth keeps the heap in order and ends it with a free block *)
(* that holds all the new pages.                                           *)
LEMMA GrowOK ==
  ASSUME NEW D, NEW s, NEW lv, NEW n, NEW t, Grown(D, s, lv, n, t)
  PROVE  /\ \E E : HeapOK(E, t, lv)
         /\ t.tail \in FreeBlocks(t) /\ t.heap_end = s.heap_end + n
         /\ t.tail <= s.heap_end
<1>1. D \in SUBSET Nat /\ s \in HeapState(D) /\ Tiles(s)
  BY Zenon DEF Grown, HeapOK, HeapCore
<1>2. s.tail \in D /\ EndPtr(s, s.tail) = s.heap_end /\ EndPtr(s, s.tail) >= s.tail + 32
  BY <1>1, TilesFacts, Zenon
<1>3. s.tail \in Nat /\ s.heap_end \in Int /\ s.heap_end >= s.tail + 32
  BY <1>1, <1>2, Zenon DEF HeapState
<1>4. s.tail <= s.heap_end /\ s.heap_end <= s.heap_end
  BY <1>3
<1>5. /\ \E E : HeapOK(E, t, lv)
      /\ t.tail \in FreeBlocks(t) /\ t.heap_end = s.heap_end + n
      /\ t.tail = s.heap_end \/ t.tail = s.tail
  BY GrowFreeTail, GrowUsedTail
<1> QED
  BY <1>4, <1>5, Zenon

-----------------------------------------------------------------------------
(* One block less; the free blocks other than b; one allocation less. *)
Minus(D, b) == D \ {b}
Others(s, b) == FreeBlocks(s) \ {b}
Dropping(lv, p) == [q \in DOMAIN lv \ {p} |-> lv[q]]

(* Within dealloc b is marked free and on no free list yet. *)
Pending(D, s, b, lv) ==
  /\ D \in SUBSET Nat /\ Listed(D) /\ s \in HeapState(D) /\ Tiles(s)
  /\ b \in D /\ ~s.hdr[b].used
  /\ FreeOK(s, Others(s, b)) /\ LiveOK(s, lv)
  /\ \A c \in D \ {s.tail} : c # b /\ EndPtr(s, c) # b =>
       s.hdr[c].used \/ s.hdr[EndPtr(s, c)].used

(* The block behind b is used, or there is none. *)
Closed(s, b) == b = s.tail \/ s.hdr[EndPtr(s, b)].used

(* set_free, as dealloc calls it. *)
MarksFree(s, b, t) == t = SetUsed(s, b, FALSE)

(* dealloc marks the block free. *)
LEMMA MarkFree ==
  ASSUME NEW D, NEW s, NEW lv, HeapOK(D, s, lv), NEW p, p \in DOMAIN lv,
         NEW b, b = p - 16, NEW t, MarksFree(s, b, t)
  PROVE  /\ Pending(D, t, b, Dropping(lv, p)) /\ t.heap_end = s.heap_end
         /\ b \in D
<1>1. /\ D \in SUBSET Nat /\ Listed(D) /\ s \in HeapState(D)
      /\ Tiles(s) /\ FreeOK(s, FreeBlocks(s)) /\ Coalesced(s) /\ LiveOK(s, lv)
  BY Zenon DEF HeapOK, HeapCore
<1>2. DOMAIN s.hdr = D
  BY <1>1, Zenon DEF HeapState
<1>3. p \in Nat /\ b \in D /\ s.hdr[b].used /\ b \in Nat /\ p = b + 16
  <2>1. p \in Nat /\ p - 16 \in D /\ s.hdr[p - 16].used
    BY <1>1, <1>2, Zenon DEF LiveOK
  <2> QED
    BY <1>1, <2>1
<1>4. /\ OnlyHeader(D, s, t, b) /\ ~t.hdr[b].used
      /\ t.hdr[b].size = s.hdr[b].size /\ t.hdr[b].prev = s.hdr[b].prev
      /\ t.hdr[b].free_next = s.hdr[b].free_next
      /\ t.hdr[b].free_prev = s.hdr[b].free_prev
  BY <1>1, <1>3, SetFreeEffect, Zenon DEF MarksFree
<1>5. /\ t \in HeapState(D) /\ t.tail = s.tail /\ t.heap_end = s.heap_end
      /\ t.free_head = s.free_head /\ \A c \in D \ {b} : t.hdr[c] = s.hdr[c]
  BY <1>4, Zenon DEF OnlyHeader
<1>6. \A c \in D : /\ t.hdr[c].size = s.hdr[c].size /\ t.hdr[c].prev = s.hdr[c].prev
                   /\ t.hdr[c].free_next = s.hdr[c].free_next
                   /\ t.hdr[c].free_prev = s.hdr[c].free_prev
                   /\ EndPtr(t, c) = EndPtr(s, c)
  BY <1>4, <1>5 DEF EndPtr
<1>7. DOMAIN t.hdr = D
  BY <1>5, Zenon DEF HeapState
<1>8. Tiles(t)
  BY <1>1, <1>5, <1>6, TilesFrame, ZenonT(30)
<1>9. Others(t, b) = FreeBlocks(s)
  BY <1>2, <1>3, <1>5, <1>7, Zenon DEF Others, FreeBlocks
<1>10. FreeOK(t, Others(t, b))
  <2>1. FreeBlocks(s) \in SUBSET D
    BY <1>2, Zenon DEF FreeBlocks
  <2>2. SameLinks(FreeBlocks(s), s, t)
    BY <1>5, <1>6, <2>1, Zenon DEF SameLinks
  <2> QED
    BY <1>1, <1>9, <2>2, ChainFrame
<1>11. LiveOK(t, Dropping(lv, p))
  <2>1. PICK lw : lw = Dropping(lv, p)
    BY Zenon
  <2>2. DOMAIN lw = DOMAIN lv \ {p} /\ \A q \in DOMAIN lw : lw[q] = lv[q]
    BY <2>1, Zenon DEF Dropping
  <2>3. ASSUME NEW q \in DOMAIN lw
        PROVE  /\ q \in Nat /\ lw[q] \in Layouts
               /\ q - 16 \in D /\ t.hdr[q - 16].used
               /\ lw[q].size <= t.hdr[q - 16].size
               /\ q % lw[q].align = 0
    <3>1. q \in DOMAIN lv /\ q # p /\ lw[q] = lv[q]
      BY <2>2, Zenon
    <3>2. /\ q \in Nat /\ lv[q] \in Layouts
          /\ q - 16 \in D /\ s.hdr[q - 16].used
          /\ lv[q].size <= s.hdr[q - 16].size
          /\ q % lv[q].align = 0
      BY <1>1, <1>2, <3>1, Zenon DEF LiveOK
    <3>3. q - 16 # b
      BY <1>3, <3>1, <3>2
    <3> QED
      BY <1>5, <3>1, <3>2, <3>3
  <2>4. ASSUME NEW c \in D, t.hdr[c].used PROVE c + 16 \in DOMAIN lw
    <3>1. c # b /\ s.hdr[c].used /\ c \in Nat
      BY <1>1, <1>4, <1>5, <2>4, Zenon
    <3>2. c + 16 \in DOMAIN lv
      BY <1>1, <1>2, <3>1, Zenon DEF LiveOK
    <3>3. c + 16 # p
      BY <1>3, <3>1
    <3> QED
      BY <2>2, <3>2, <3>3
  <2>5. LiveOK(t, lw)
    BY <1>7, <2>3, <2>4 DEF LiveOK
  <2> QED
    BY <2>1, <2>5, Zenon
<1>12. ASSUME NEW c \in D \ {t.tail}, c # b, EndPtr(t, c) # b
       PROVE  t.hdr[c].used \/ t.hdr[EndPtr(t, c)].used
  <2>1. s.hdr[c].used \/ s.hdr[EndPtr(s, c)].used
    BY <1>1, <1>2, <1>5, Zenon DEF Coalesced
  <2>2. EndPtr(s, c) \in D /\ EndPtr(t, c) = EndPtr(s, c)
    BY <1>1, <1>5, <1>6, TilesFacts, Zenon
  <2> QED
    BY <1>5, <1>12, <2>1, <2>2
<1> QED
  BY <1>1, <1>3, <1>4, <1>5, <1>8, <1>10, <1>11, <1>12, Zenon DEF Pending

(* A freed block that is merged with neither side goes to the free list. *)
LEMMA PutBack ==
  ASSUME NEW D, NEW s, NEW b, NEW lv, Pending(D, s, b, lv), Closed(s, b),
         s.hdr[b].prev = Null \/ s.hdr[s.hdr[b].prev].used,
         NEW t, t = InsertFreeBlock(s, b)
  PROVE  HeapOK(D, t, lv) /\ t.heap_end = s.heap_end
<1>1. PICK F : F = Others(s, b)
  BY Zenon
<1>2. /\ D \in SUBSET Nat /\ Listed(D) /\ s \in HeapState(D) /\ Tiles(s)
      /\ b \in D /\ ~s.hdr[b].used /\ FreeOK(s, F) /\ LiveOK(s, lv)
  BY <1>1, Zenon DEF Pending
<1>3. DOMAIN s.hdr = D
  BY <1>2, Zenon DEF HeapState
<1>4. F \in SUBSET D /\ b \in D \ F /\ F \in SUBSET Nat
  BY <1>1, <1>2, <1>3, Zenon DEF Others, FreeBlocks
<1>5. t \in HeapState(D) /\ SameBlocks(D, s, t) /\ FreeOK(t, F \cup {b})
  <2>1. s.free_head \in F \cup {Null}
    BY <1>2, <1>4, ChainEnds
  <2>2. s.free_head \in (D \ {b}) \cup {Null}
    BY <1>4, <2>1, Zenon
  <2>3. t \in HeapState(D) /\ SameBlocks(D, s, t)
    BY <1>2, <2>2, InsertEffect, Zenon
  <2>4. FreeOK(t, F \cup {b})
    BY <1>2, <1>4, ChainInsert, Zenon
  <2> QED
    BY <2>3, <2>4, Zenon
<1>6. /\ DOMAIN t.hdr = D /\ t.tail = s.tail /\ t.heap_end = s.heap_end
      /\ \A c \in D : /\ t.hdr[c].size = s.hdr[c].size /\ t.hdr[c].used = s.hdr[c].used
                      /\ t.hdr[c].prev = s.hdr[c].prev
                      /\ EndPtr(t, c) = EndPtr(s, c)
  BY <1>5, Zenon DEF SameBlocks, HeapState, EndPtr
<1>7. Tiles(t)
  BY <1>2, <1>5, <1>6, TilesFrame
<1>8. FreeBlocks(t) = F \cup {b}
  BY <1>1, <1>2, <1>3, <1>6, Zenon DEF FreeBlocks, Others
<1>9. LiveOK(t, lv)
  BY <1>2, <1>3, <1>6, Zenon DEF LiveOK
<1>10. Coalesced(t)
  <2> SUFFICES ASSUME NEW c \in D \ {s.tail} PROVE t.hdr[c].used \/ t.hdr[EndPtr(t, c)].used
    BY <1>6, Zenon DEF Coalesced
  <2>1. EndPtr(s, c) \in D /\ s.hdr[EndPtr(s, c)].prev = c
    <3>1. TileFacts(D, s)
      BY <1>2, TilesHold, Zenon
    <3> QED
      BY <3>1, Zenon DEF TileFacts
  <2>2. s.hdr[c].used \/ s.hdr[EndPtr(s, c)].used
    <3>1. CASE c = b
      BY <3>1, Zenon DEF Closed
    <3>2. CASE EndPtr(s, c) = b
      <4>1. s.hdr[b].prev = c /\ c \in Nat
        BY <1>2, <2>1, <3>2, Zenon
      <4> QED
        BY <4>1
    <3>3. CASE c # b /\ EndPtr(s, c) # b
      BY <3>3, Zenon DEF Pending
    <3> QED
      BY <3>1, <3>2, <3>3, Zenon
  <2> QED
    BY <1>6, <2>1, <2>2
<1> QED
  BY <1>2, <1>5, <1>6, <1>7, <1>8, <1>9, <1>10, Zenon DEF HeapOK, HeapCore

(* dealloc's merge with the free block behind. *)
MergesNext(s, b, next, t) ==
  t = DropHeader(RemoveFromList(RemoveFreeBlock(
        SetSize(s, b, s.hdr[b].size + 16 + s.hdr[next].size), next), next), next)

(* A freed block takes in the free block behind it. *)
LEMMA MergeNext ==
  ASSUME NEW D, NEW s, NEW b, NEW lv, Pending(D, s, b, lv),
         b # s.tail, NEW next, next = EndPtr(s, b), ~s.hdr[next].used,
         NEW t, MergesNext(s, b, next, t), NEW E, E = Minus(D, next)
  PROVE  Pending(E, t, b, lv) /\ Closed(t, b) /\ t.heap_end = s.heap_end
<1>1. PICK F, v : F = Others(s, b) /\ v = s.hdr[b].size + 16 + s.hdr[next].size
  BY Zenon
<1>2. /\ D \in SUBSET Nat /\ Listed(D) /\ s \in HeapState(D) /\ Tiles(s)
      /\ b \in D /\ ~s.hdr[b].used /\ FreeOK(s, F) /\ LiveOK(s, lv)
  BY <1>1, Zenon DEF Pending
<1>3. /\ DOMAIN s.hdr = D /\ next \in D /\ s.hdr[next].prev = b
  BY <1>2, TilesFacts DEF HeapState
<1>4. next \in Int /\ b \in Int /\ b # next /\ v \in Int
      /\ s.hdr[b].size \in Int /\ s.hdr[next].size \in Int /\ next = b + 16 + s.hdr[b].size
  <2>1. /\ EndPtr(s, b) = b + 16 + s.hdr[b].size /\ EndPtr(s, b) >= b + 32
        /\ s.hdr[b].size \in Int /\ b \in Int /\ EndPtr(s, b) \in Int
    BY <1>2, TilesFacts
  <2>2. s.hdr[next].size \in Int
    BY <1>2, <1>3, TilesFacts, Zenon
  <2> QED
    BY <1>1, <2>1, <2>2
<1>5. /\ F \in SUBSET D /\ next \in F /\ b \notin F /\ F \in SUBSET Nat
  BY <1>1, <1>2, <1>3, <1>4, Zenon DEF Others, FreeBlocks
<1>6. PICK s1 : s1 = SetSize(s, b, v)
  BY Zenon
<1>7. PICK s2 : s2 = RemoveFreeBlock(s1, next)
  BY Zenon
<1>8. PICK s3 : s3 = RemoveFromList(s2, next)
  BY Zenon
<1>9. t = DropHeader(s3, next)
  BY <1>1, <1>6, <1>7, <1>8, Zenon DEF MergesNext
<1>10. /\ OnlyHeader(D, s, s1, b) /\ s1.hdr[b].size = v
       /\ s1.hdr[b].used = s.hdr[b].used /\ s1.hdr[b].prev = s.hdr[b].prev
       /\ s1.hdr[b].free_next = s.hdr[b].free_next
       /\ s1.hdr[b].free_prev = s.hdr[b].free_prev
  BY <1>2, <1>4, <1>6, SetSizeEffect
<1>11. /\ s1 \in HeapState(D) /\ s1.heap_end = s.heap_end /\ s1.tail = s.tail
       /\ s1.free_head = s.free_head /\ \A c \in D \ {b} : s1.hdr[c] = s.hdr[c]
  BY <1>10, Zenon DEF OnlyHeader
<1>12. FreeOK(s1, F)
  <2>1. SameLinks(F, s, s1)
    BY <1>5, <1>11, Zenon DEF SameLinks
  <2> QED
    BY <1>2, <2>1, ChainFrame, Zenon
<1>13. s2 \in HeapState(D) /\ SameBlocks(D, s1, s2)
  <2>1. /\ s1.hdr[next].free_next \in (F \ {next}) \cup {Null}
        /\ s1.hdr[next].free_prev \in (F \ {next}) \cup {Null}
    BY <1>5, <1>12, ChainEnds
  <2>2. /\ s1.hdr[next].free_next \in (D \ {next}) \cup {Null}
        /\ s1.hdr[next].free_prev \in (D \ {next}) \cup {Null}
    BY <1>5, <2>1, Zenon
  <2> QED
    BY <1>2, <1>3, <1>7, <1>11, <2>2, RemoveEffect, Zenon
<1>14. FreeOK(s2, F \ {next})
  BY <1>2, <1>5, <1>7, <1>11, <1>12, ChainRemove, Zenon
<1>15. /\ s2.tail = s.tail /\ s2.heap_end = s.heap_end
       /\ s2.hdr[b].size = v
       /\ \A c \in D \ {b} : s2.hdr[c].size = s.hdr[c].size
       /\ \A c \in D : s2.hdr[c].used = s.hdr[c].used /\ s2.hdr[c].prev = s.hdr[c].prev
  BY <1>2, <1>10, <1>11, <1>13, ZenonT(30) DEF SameBlocks
<1>16. EndPtr(s2, next) = EndPtr(s, next) /\ (next # s.tail => EndPtr(s, next) \in D)
  <2>1. EndPtr(s2, next) = EndPtr(s, next)
    BY <1>3, <1>4, <1>15 DEF EndPtr
  <2>2. next # s.tail => EndPtr(s, next) \in D
    BY <1>2, <1>3, TilesFacts, Zenon
  <2> QED
    BY <2>1, <2>2, Zenon
<1>17. /\ s3 \in HeapState(D) /\ SameLinks(D, s2, s3)
       /\ s3.heap_end = s.heap_end
       /\ s3.tail = IF next = s.tail THEN b ELSE s.tail
       /\ \A c \in D : /\ s3.hdr[c].size = s2.hdr[c].size
                       /\ s3.hdr[c].used = s2.hdr[c].used
                       /\ s3.hdr[c].prev = IF next # s.tail /\ c = EndPtr(s, next) THEN b
                                           ELSE s2.hdr[c].prev
  <2>1. s2 \in HeapState(D) /\ (next # s2.tail => EndPtr(s2, next) \in D)
    BY <1>13, <1>15, <1>16, Zenon
  <2>2. /\ s3 \in HeapState(D) /\ SameLinks(D, s2, s3)
        /\ s3.heap_end = s2.heap_end
        /\ s3.tail = IF next = s2.tail THEN s2.hdr[next].prev ELSE s2.tail
        /\ \A c \in D : /\ s3.hdr[c].size = s2.hdr[c].size
                        /\ s3.hdr[c].used = s2.hdr[c].used
                        /\ s3.hdr[c].prev = IF next # s2.tail /\ c = EndPtr(s2, next)
                                            THEN s2.hdr[next].prev ELSE s2.hdr[c].prev
    <3>1. OutOfBlocks(D, s2, next, RemoveFromList(s2, next))
      BY <1>2, <1>3, <2>1, RemoveTakesOut, Zenon
    <3> QED
      BY <1>8, <3>1, Zenon DEF OutOfBlocks
  <2>3. s2.hdr[next].prev = b
    BY <1>3, <1>15, Zenon
  <2> QED
    BY <1>15, <1>16, <2>2, <2>3, ZenonT(30)
<1>18. /\ t \in HeapState(E) /\ t.tail = s3.tail /\ t.heap_end = s.heap_end
       /\ t.free_head = s3.free_head /\ \A c \in E : t.hdr[c] = s3.hdr[c]
  <2>1. OnlyHeader(D \ {next}, s3, t, next)
    BY <1>2, <1>3, <1>9, <1>17, DropHeaderEffect, Zenon
  <2> QED
    BY <1>17, <2>1, Zenon DEF OnlyHeader, Minus
<1>19. E \in SUBSET Nat /\ b \in E /\ next \notin E /\ (\A c \in E : c \in D /\ c # next)
       /\ (\A c \in D : c # next => c \in E)
  BY <1>2, <1>4, Zenon DEF Minus
<1>20. /\ t.hdr[b].size = v
       /\ \A c \in D \ {b, next} : t.hdr[c].size = s.hdr[c].size
       /\ \A c \in E : t.hdr[c].used = s.hdr[c].used
       /\ \A c \in E : t.hdr[c].prev = IF next # s.tail /\ c = EndPtr(s, next) THEN b
                                       ELSE s.hdr[c].prev
  BY <1>15, <1>17, <1>18, <1>19
<1>21. Tiles(t)
  <2>1. t \in HeapState(D \ {next}) /\ t.tail = (IF next = s.tail THEN b ELSE s.tail)
    BY <1>17, <1>18, Zenon DEF Minus
  <2>2. t.hdr[b].size = s.hdr[b].size + 16 + s.hdr[next].size
    BY <1>1, <1>20, Zenon
  <2>3. \A c \in D \ {next} : t.hdr[c].prev = IF next # s.tail /\ c = EndPtr(s, next) THEN b
                                              ELSE s.hdr[c].prev
    BY <1>19, <1>20, Zenon
  <2> QED
    <3>1. /\ D \in SUBSET Nat /\ s \in HeapState(D) /\ Tiles(s) /\ b \in D
          /\ t.heap_end = s.heap_end
      BY <1>2, <1>18, Zenon
    <3>2. \A c \in D \ {b, next} : t.hdr[c].size = s.hdr[c].size
      BY <1>20, Zenon
    <3> QED
      BY <2>1, <2>2, <2>3, <3>1, <3>2, TilesMerge
<1>22. DOMAIN t.hdr = E
  BY <1>18, Zenon DEF HeapState
<1>23. Others(t, b) = F \ {next}
  BY <1>1, <1>3, <1>19, <1>20, <1>22, Zenon DEF Others, FreeBlocks
<1>24. FreeOK(t, Others(t, b))
  <2>1. SameLinks(F \ {next}, s2, t)
    BY <1>5, <1>17, <1>18, <1>19 DEF SameLinks
  <2> QED
    BY <1>14, <1>23, <2>1, ChainFrame
<1>25. LiveOK(t, lv)
  <2>1. ASSUME NEW q \in DOMAIN lv
        PROVE  /\ q \in Nat /\ lv[q] \in Layouts
               /\ q - 16 \in E /\ t.hdr[q - 16].used
               /\ lv[q].size <= t.hdr[q - 16].size
               /\ q % lv[q].align = 0
    <3>1. /\ q \in Nat /\ lv[q] \in Layouts
          /\ q - 16 \in D /\ s.hdr[q - 16].used
          /\ lv[q].size <= s.hdr[q - 16].size
          /\ q % lv[q].align = 0
      BY <1>2, <1>3, Zenon DEF LiveOK
    <3>2. q - 16 # b /\ q - 16 # next
      BY <1>2, <3>1
    <3> QED
      BY <1>19, <1>20, <3>1, <3>2
  <2>2. ASSUME NEW c \in E, t.hdr[c].used PROVE c + 16 \in DOMAIN lv
    <3>1. c \in D /\ s.hdr[c].used
      BY <1>19, <1>20, <2>2, Zenon
    <3> QED
      BY <1>2, <1>3, <3>1 DEF LiveOK
  <2> QED
    BY <1>22, <2>1, <2>2, Zenon DEF LiveOK
<1>26. EndPtr(t, b) = EndPtr(s, next)
  <2>1. EndPtr(t, b) = b + 16 + t.hdr[b].size /\ EndPtr(s, next) = next + 16 + s.hdr[next].size
    BY Zenon DEF EndPtr, AllocArea
  <2>2. PICK x \in Int, y \in Int : x = s.hdr[b].size /\ y = s.hdr[next].size
    BY <1>4, Zenon
  <2>3. next = b + 16 + x /\ v = x + 16 + y
    BY <1>1, <1>4, <2>2
  <2>4. EndPtr(t, b) = b + 16 + v /\ EndPtr(s, next) = next + 16 + y
    BY <1>20, <2>1, <2>2
  <2>5. b + 16 + v = next + 16 + y
    BY <1>4, <2>3
  <2> QED
    BY <2>4, <2>5
<1>27. next # s.tail => EndPtr(s, next) # b /\ EndPtr(s, next) # next
  <2>1. EndPtr(s, next) \in Int /\ EndPtr(s, next) >= next + 32
    BY <1>2, <1>3, TilesFacts, ZenonT(30)
  <2>2. next > b
    <3>1. EndPtr(s, b) >= b + 32
      BY <1>2, TilesFacts, Zenon
    <3> QED
      BY <1>4, <3>1
  <2> QED
    BY <1>4, <2>1, <2>2
<1>28. Closed(t, b)
  <2>1. CASE next = s.tail
    BY <1>17, <1>18, <2>1, Zenon DEF Closed
  <2>2. CASE next # s.tail
    <3>1. s.hdr[next].used \/ s.hdr[EndPtr(s, next)].used
      BY <1>3, <1>4, <1>27, <2>2, Zenon DEF Pending
    <3>2. EndPtr(s, next) \in E
      BY <1>16, <1>19, <1>27, <2>2
    <3> QED
      BY <1>20, <1>26, <3>1, <3>2, Zenon DEF Closed
  <2> QED
    BY <2>1, <2>2, Zenon
<1>29. ASSUME NEW c \in E \ {t.tail}, c # b, EndPtr(t, c) # b
       PROVE  t.hdr[c].used \/ t.hdr[EndPtr(t, c)].used
  <2>1. c \in D /\ c # next /\ EndPtr(t, c) = EndPtr(s, c)
    BY <1>19, <1>20, <1>29, Zenon DEF EndPtr
  <2>2. c # s.tail
    BY <1>17, <1>18, <1>29, <2>1
  <2>3. EndPtr(s, c) \in D /\ s.hdr[EndPtr(s, c)].prev = c
    BY <1>2, <2>1, <2>2, TilesFacts
  <2>4. EndPtr(s, c) # next
    BY <1>3, <1>29, <2>3, Zenon
  <2>5. s.hdr[c].used \/ s.hdr[EndPtr(s, c)].used
    BY <1>29, <2>1, <2>2, Zenon DEF Pending
  <2> QED
    BY <1>19, <1>20, <2>1, <2>3, <2>4, <2>5, Zenon
<1>30. Listed(E)
  <2>1. Listed(D) /\ b \in Nat
    BY <1>2, Zenon
  <2>2. \A c \in E : c \in D \/ c = b
    BY <1>19, Zenon
  <2> QED
    BY <2>1, <2>2, ListedAdd, Zenon
<1>31. ~t.hdr[b].used
  BY <1>2, <1>19, <1>20
<1> QED
  BY <1>18, <1>19, <1>21, <1>24, <1>25, <1>28, <1>29, <1>30, <1>31, Zenon DEF Pending

(* t is s with next merged into the block b before it. *)
Merged(D, s, b, next, t) ==
  /\ D \in SUBSET Nat /\ s \in HeapState(D) /\ Tiles(s)
  /\ b \in D /\ b # s.tail /\ next = EndPtr(s, b) /\ t \in HeapState(D \ {next})
  /\ t.hdr[b].size = s.hdr[b].size + 16 + s.hdr[next].size
  /\ \A c \in D \ {b, next} : t.hdr[c].size = s.hdr[c].size
  /\ \A c \in D \ {next} : t.hdr[c].prev = IF next # s.tail /\ c = EndPtr(s, next) THEN b
                                         ELSE s.hdr[c].prev
  /\ t.tail = (IF next = s.tail THEN b ELSE s.tail) /\ t.heap_end = s.heap_end

(* TilesMerge, for a merge stated as one fact. *)
LEMMA MergedTiles ==
  ASSUME NEW D, NEW s, NEW b, NEW next, NEW t, Merged(D, s, b, next, t)
  PROVE  Tiles(t)
<1>1. /\ D \in SUBSET Nat /\ s \in HeapState(D) /\ Tiles(s)
      /\ b \in D /\ b # s.tail /\ next = EndPtr(s, b) /\ t \in HeapState(D \ {next})
      /\ t.hdr[b].size = s.hdr[b].size + 16 + s.hdr[next].size
      /\ \A c \in D \ {b, next} : t.hdr[c].size = s.hdr[c].size
      /\ \A c \in D \ {next} : t.hdr[c].prev = IF next # s.tail /\ c = EndPtr(s, next) THEN b
                                             ELSE s.hdr[c].prev
      /\ t.tail = (IF next = s.tail THEN b ELSE s.tail) /\ t.heap_end = s.heap_end
  BY Zenon DEF Merged
<1> QED
  BY <1>1, TilesMerge

(* dealloc's merge into the free block in front. *)
MergesPrev(s, b, prev, t) ==
  t = SetSize(DropHeader(RemoveFromList(s, b), b), prev,
              s.hdr[prev].size + 16 + s.hdr[b].size)

(* The block in front of b is free. *)
FreeInFront(s, b, prev) == prev = s.hdr[b].prev /\ prev # Null /\ ~s.hdr[prev].used

(* A freed block is taken in by the free block in front of it. *)
LEMMA MergePrev ==
  ASSUME NEW D, NEW s, NEW b, NEW lv, Pending(D, s, b, lv), Closed(s, b),
         NEW prev, FreeInFront(s, b, prev),
         NEW t, MergesPrev(s, b, prev, t), NEW E, E = Minus(D, b)
  PROVE  HeapOK(E, t, lv) /\ t.heap_end = s.heap_end
<1>1. PICK F, v : F = Others(s, b) /\ v = s.hdr[prev].size + 16 + s.hdr[b].size
  BY Zenon
<1>2. /\ D \in SUBSET Nat /\ Listed(D) /\ s \in HeapState(D) /\ Tiles(s)
      /\ b \in D /\ ~s.hdr[b].used /\ FreeOK(s, F) /\ LiveOK(s, lv)
  BY <1>1, Zenon DEF Pending
<1>3. DOMAIN s.hdr = D /\ prev \in D /\ EndPtr(s, prev) = b
  <2>1. b # HeapStart
    BY <1>2, TilesFacts, ZenonT(30) DEF FreeInFront
  <2>2. s.hdr[b].prev \in D /\ EndPtr(s, s.hdr[b].prev) = b
    BY <1>2, <2>1, TilesFacts
  <2> QED
    BY <1>2, <2>2, Zenon DEF HeapState, FreeInFront
<1>4. /\ prev \in Int /\ b \in Int /\ b > prev /\ v \in Int /\ prev # s.tail
      /\ s.hdr[b].size \in Int /\ s.hdr[prev].size \in Int
      /\ b = prev + 16 + s.hdr[prev].size
  <2>1. /\ EndPtr(s, prev) = prev + 16 + s.hdr[prev].size /\ EndPtr(s, prev) >= prev + 32
        /\ s.hdr[prev].size \in Int /\ prev \in Int
    BY <1>2, <1>3, TilesFacts
  <2>2. s.hdr[b].size \in Int /\ b \in Int
    BY <1>2, TilesFacts, Zenon
  <2>3. b <= s.tail /\ s.tail \in D
    BY <1>2, TilesFacts, Zenon
  <2>4. s.tail \in Int
    BY <1>2, Zenon DEF HeapState
  <2>5. b >= prev + 32 /\ v \in Int
    BY <1>1, <1>3, <2>1, <2>2
  <2> QED
    BY <1>3, <2>1, <2>2, <2>3, <2>4, <2>5
<1>5. F \in SUBSET D /\ prev \in F /\ b \notin F
  <2>1. prev # b
    BY <1>4
  <2> QED
    BY <1>1, <1>2, <1>3, <2>1, Zenon DEF Others, FreeBlocks, FreeInFront
<1>6. PICK s1 : s1 = RemoveFromList(s, b)
  BY Zenon
<1>7. PICK s2 : s2 = DropHeader(s1, b)
  BY Zenon
<1>8. t = SetSize(s2, prev, v)
  BY <1>1, <1>6, <1>7, Zenon DEF MergesPrev
<1>9. b # s.tail => EndPtr(s, b) \in D
  BY <1>2, TilesFacts, Zenon
<1>10. /\ s1 \in HeapState(D) /\ SameLinks(D, s, s1)
       /\ s1.heap_end = s.heap_end
       /\ s1.tail = IF b = s.tail THEN prev ELSE s.tail
       /\ \A c \in D : /\ s1.hdr[c].size = s.hdr[c].size
                       /\ s1.hdr[c].used = s.hdr[c].used
                       /\ s1.hdr[c].prev = IF b # s.tail /\ c = EndPtr(s, b)
                                           THEN prev ELSE s.hdr[c].prev
  <2>1. OutOfBlocks(D, s, b, RemoveFromList(s, b))
    BY <1>2, <1>9, RemoveTakesOut, Zenon
  <2>2. OutOfBlocks(D, s, b, s1)
    BY <1>6, <2>1, Zenon
  <2>3. s.hdr[b].prev = prev
    BY <1>2, Zenon DEF FreeInFront
  <2> QED
    BY <2>2, <2>3, Zenon DEF OutOfBlocks
<1>11. /\ s2 \in HeapState(E) /\ s2.tail = s1.tail /\ s2.heap_end = s.heap_end
       /\ s2.free_head = s1.free_head /\ \A c \in E : s2.hdr[c] = s1.hdr[c]
  <2>1. OnlyHeader(D \ {b}, s1, s2, b)
    BY <1>2, <1>7, <1>10, DropHeaderEffect, Zenon
  <2> QED
    BY <1>10, <2>1, Zenon DEF OnlyHeader, Minus
<1>12. /\ E \in SUBSET Nat /\ prev \in E /\ b \notin E /\ (\A c \in E : c \in D /\ c # b)
       /\ (\A c \in D : c # b => c \in E)
  <2>1. prev # b
    BY <1>4
  <2> QED
    BY <1>2, <1>3, <2>1, Zenon DEF Minus
<1>13. /\ OnlyHeader(E, s2, t, prev) /\ t.hdr[prev].size = v
       /\ t.hdr[prev].used = s2.hdr[prev].used /\ t.hdr[prev].prev = s2.hdr[prev].prev
       /\ t.hdr[prev].free_next = s2.hdr[prev].free_next
       /\ t.hdr[prev].free_prev = s2.hdr[prev].free_prev
  <2>1. s2 \in HeapState(E) /\ prev \in E /\ v \in Int /\ E \in SUBSET Nat
    BY <1>4, <1>11, <1>12, Zenon
  <2> QED
    BY <1>8, <2>1, SetSizeEffect
<1>14. /\ t \in HeapState(E) /\ t.tail = s1.tail /\ t.heap_end = s.heap_end
       /\ t.free_head = s1.free_head /\ \A c \in E \ {prev} : t.hdr[c] = s1.hdr[c]
  BY <1>11, <1>13, Zenon DEF OnlyHeader
<1>15. \A c \in E : /\ t.hdr[c].used = s1.hdr[c].used /\ t.hdr[c].prev = s1.hdr[c].prev
                    /\ t.hdr[c].free_next = s1.hdr[c].free_next
                    /\ t.hdr[c].free_prev = s1.hdr[c].free_prev
  BY <1>11, <1>12, <1>13, <1>14, Zenon
<1>16. \A c \in E : t.hdr[c].used = s.hdr[c].used
  BY <1>10, <1>12, <1>15, ZenonT(30)
<1>17. \A c \in D \ {prev, b} : t.hdr[c].size = s.hdr[c].size
  BY <1>10, <1>12, <1>14, Zenon
<1>18. \A c \in D \ {b} : t.hdr[c].prev = IF b # s.tail /\ c = EndPtr(s, b) THEN prev
                                          ELSE s.hdr[c].prev
  BY <1>10, <1>12, <1>15, ZenonT(30)
<1>19. Tiles(t)
  <2>1. t \in HeapState(D \ {b})
    BY <1>14, Zenon DEF Minus
  <2>2. t.hdr[prev].size = s.hdr[prev].size + 16 + s.hdr[b].size
    BY <1>1, <1>13, Zenon
  <2>3. t.tail = (IF b = s.tail THEN prev ELSE s.tail) /\ t.heap_end = s.heap_end
    BY <1>10, <1>14, Zenon
  <2>4. /\ D \in SUBSET Nat /\ s \in HeapState(D) /\ Tiles(s) /\ prev \in D
        /\ prev # s.tail /\ b = EndPtr(s, prev)
    BY <1>2, <1>3, <1>4, Zenon
  <2> QED
    <3>1. Merged(D, s, prev, b, t)
      BY <1>17, <1>18, <2>1, <2>2, <2>3, <2>4, Zenon DEF Merged
    <3> QED
      BY <3>1, MergedTiles, Zenon
<1>20. DOMAIN t.hdr = E
  BY <1>14, Zenon DEF HeapState
<1>21. FreeBlocks(t) = F
  BY <1>1, <1>3, <1>12, <1>16, <1>20, Zenon DEF FreeBlocks, Others
<1>22. FreeOK(t, FreeBlocks(t))
  <2>1. SameLinks(F, s, t)
    BY <1>5, <1>10, <1>12, <1>14, <1>15, ZenonT(30) DEF SameLinks
  <2> QED
    BY <1>2, <1>21, <2>1, ChainFrame, Zenon
<1>23. LiveOK(t, lv)
  <2>1. ASSUME NEW q \in DOMAIN lv
        PROVE  /\ q \in Nat /\ lv[q] \in Layouts
               /\ q - 16 \in E /\ t.hdr[q - 16].used
               /\ lv[q].size <= t.hdr[q - 16].size
               /\ q % lv[q].align = 0
    <3>1. /\ q \in Nat /\ lv[q] \in Layouts
          /\ q - 16 \in D /\ s.hdr[q - 16].used
          /\ lv[q].size <= s.hdr[q - 16].size
          /\ q % lv[q].align = 0
      BY <1>2, <1>3, Zenon DEF LiveOK
    <3>2. q - 16 # b /\ q - 16 # prev
      BY <1>2, <3>1, Zenon DEF FreeInFront
    <3> QED
      BY <1>12, <1>16, <1>17, <3>1, <3>2
  <2>2. ASSUME NEW c \in E, t.hdr[c].used PROVE c + 16 \in DOMAIN lv
    <3>1. c \in D /\ s.hdr[c].used
      BY <1>12, <1>16, <2>2, Zenon
    <3> QED
      BY <1>2, <1>3, <3>1, Zenon DEF LiveOK
  <2> QED
    BY <1>20, <2>1, <2>2, Zenon DEF LiveOK
<1>24. EndPtr(t, prev) = EndPtr(s, b)
  <2>1. EndPtr(t, prev) = prev + 16 + t.hdr[prev].size /\ EndPtr(s, b) = b + 16 + s.hdr[b].size
    BY Zenon DEF EndPtr, AllocArea
  <2>2. PICK x \in Int, y \in Int : x = s.hdr[prev].size /\ y = s.hdr[b].size
    BY <1>4, Zenon
  <2>3. b = prev + 16 + x /\ v = x + 16 + y
    BY <1>1, <1>4, <2>2, Zenon
  <2>4. EndPtr(t, prev) = prev + 16 + v /\ EndPtr(s, b) = b + 16 + y
    BY <1>13, <2>1, <2>2, Zenon
  <2>5. prev + 16 + v = b + 16 + y
    BY <1>4, <2>3
  <2> QED
    BY <2>4, <2>5, Zenon
<1>25. Coalesced(t)
  <2> SUFFICES ASSUME NEW c \in E \ {t.tail} PROVE t.hdr[c].used \/ t.hdr[EndPtr(t, c)].used
    BY <1>20, Zenon DEF Coalesced
  <2>1. c \in D /\ c # b /\ c # s.tail
    BY <1>4, <1>10, <1>12, <1>14, Zenon
  <2>2. CASE c = prev
    <3>1. b # s.tail
      BY <1>10, <1>14, <2>2, Zenon
    <3>2. EndPtr(s, b) \in D /\ s.hdr[EndPtr(s, b)].used
      BY <1>9, <3>1, Zenon DEF Closed
    <3>3. EndPtr(s, b) \in E
      BY <1>2, <1>12, <3>2, Zenon
    <3> QED
      BY <1>16, <1>24, <2>2, <3>2, <3>3
  <2>3. CASE c # prev
    <3>1. EndPtr(t, c) = EndPtr(s, c)
      BY <1>17, <2>1, <2>3, Zenon DEF EndPtr
    <3>2. EndPtr(s, c) \in D /\ s.hdr[EndPtr(s, c)].prev = c
      BY <1>2, <2>1, TilesFacts
    <3>3. EndPtr(s, c) # b
      BY <2>3, <3>2, Zenon DEF FreeInFront
    <3>4. s.hdr[c].used \/ s.hdr[EndPtr(s, c)].used
      BY <2>1, <3>3, Zenon DEF Pending
    <3> QED
      BY <1>12, <1>16, <3>1, <3>2, <3>3, <3>4
  <2> QED
    BY <2>2, <2>3, Zenon
<1>26. Listed(E)
  BY <1>2, ZenonT(30) DEF Listed, Minus
<1> QED
  BY <1>12, <1>14, <1>19, <1>22, <1>23, <1>25, <1>26, Zenon DEF HeapOK, HeapCore

(* The two halves of dealloc_and_coalesce. *)
AfterNext(s, b) ==
  LET next == EndPtr(s, b) IN
  IF b # s.tail /\ IsFree(s, next)
  THEN DropHeader(RemoveFromList(RemoveFreeBlock(
         SetSize(s, b, s.hdr[b].size + 16 + s.hdr[next].size), next), next), next)
  ELSE s
AfterPrev(s, b) ==
  LET prev == s.hdr[b].prev IN
  IF prev # Null /\ IsFree(s, prev)
  THEN SetSize(DropHeader(RemoveFromList(s, b), b), prev,
               s.hdr[prev].size + 16 + s.hdr[b].size)
  ELSE InsertFreeBlock(s, b)

(* dealloc keeps the heap in order. *)
LEMMA DeallocOK ==
  ASSUME NEW D, NEW s, NEW lv, HeapOK(D, s, lv), NEW p, p \in DOMAIN lv,
         NEW t, t = DeallocAndCoalesce(s, p - BLOCK_HEADER_SIZE)
  PROVE  (\E E : HeapOK(E, t, Dropping(lv, p))) /\ t.heap_end = s.heap_end
<1>1. PICK b, lw : b = p - 16 /\ lw = Dropping(lv, p)
  BY Zenon
<1>2. PICK s1 : MarksFree(s, b, s1)
  BY Zenon DEF MarksFree
<1>3. Pending(D, s1, b, lw) /\ s1.heap_end = s.heap_end
  BY <1>1, <1>2, MarkFree
<1>4. PICK s2 : s2 = AfterNext(s1, b)
  BY Zenon
<1>5. t = AfterPrev(s2, b)
  <2>1. DeallocAndCoalesce(s, b) = AfterPrev(AfterNext(SetUsed(s, b, FALSE), b), b)
    BY Zenon DEF DeallocAndCoalesce, AfterPrev, AfterNext
  <2> QED
    BY <1>1, <1>2, <1>4, <2>1, Zenon DEF MarksFree
<1>6. PICK E : Pending(E, s2, b, lw) /\ Closed(s2, b) /\ s2.heap_end = s.heap_end
  <2>1. PICK next : next = EndPtr(s1, b)
    BY Zenon
  <2>2. CASE b # s1.tail /\ ~s1.hdr[next].used
    <3>1. MergesNext(s1, b, next, s2)
      BY <1>4, <2>1, <2>2, Zenon DEF MergesNext, AfterNext, IsFree
    <3>2. PICK E : E = Minus(D, next)
      BY Zenon
    <3>3. Pending(E, s2, b, lw) /\ Closed(s2, b) /\ s2.heap_end = s1.heap_end
      BY <1>3, <2>1, <2>2, <3>1, <3>2, MergeNext
    <3> QED
      BY <1>3, <3>3, Zenon
  <2>3. CASE ~(b # s1.tail /\ ~s1.hdr[next].used)
    <3>1. Closed(s1, b) /\ s2 = s1
      BY <1>4, <2>1, <2>3, Zenon DEF Closed, AfterNext, IsFree
    <3> QED
      BY <1>3, <3>1, Zenon
  <2> QED
    BY <2>2, <2>3, Zenon
<1>7. PICK prev : prev = s2.hdr[b].prev
  BY Zenon
<1>8. CASE prev # Null /\ ~s2.hdr[prev].used
  <2>1. MergesPrev(s2, b, prev, t) /\ FreeInFront(s2, b, prev)
    BY <1>5, <1>7, <1>8, Zenon DEF AfterPrev, MergesPrev, IsFree, FreeInFront
  <2>2. PICK G : G = Minus(E, b)
    BY Zenon
  <2>3. HeapOK(G, t, lw) /\ t.heap_end = s2.heap_end
    BY <1>6, <2>1, <2>2, MergePrev
  <2> QED
    BY <1>1, <1>6, <2>3, Zenon
<1>9. CASE ~(prev # Null /\ ~s2.hdr[prev].used)
  <2>1. /\ t = InsertFreeBlock(s2, b)
        /\ s2.hdr[b].prev = Null \/ s2.hdr[s2.hdr[b].prev].used
    BY <1>5, <1>7, <1>9, Zenon DEF AfterPrev, IsFree
  <2>2. HeapOK(E, t, lw) /\ t.heap_end = s2.heap_end
    BY <1>6, <2>1, PutBack, Zenon
  <2> QED
    BY <1>1, <1>6, <2>2, Zenon
<1> QED
  BY <1>8, <1>9, Zenon
=============================================================================

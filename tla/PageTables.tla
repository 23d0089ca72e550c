----------------------------- MODULE PageTables -----------------------------
(***************************************************************************)
(* Physical pages and the Sv39 tables built in them: src/page_allocator.rs *)
(* and src/page_mapper.rs.  The memory m of the machine is a record:       *)
(*   nodes  the free list: PageNodes [start, count], head first            *)
(*   tbl    page -> the entries of the table in it (index -> entry)        *)
(*   data   page -> its contents, for pages handed out as memory           *)
(*   want   table root -> page -> [page, user]: what was asked to be       *)
(*          mapped (history only, for the properties)                      *)
(*   ok     no expect has panicked;  got  the result of the last alloc     *)
(* A page is its number; PAGE_ENTRIES entries to a table.                  *)
(***************************************************************************)
EXTENDS DeviceTree

CONSTANT PAGE_ENTRIES

E == PAGE_ENTRIES

vpn2(v) == (v \div (E * E)) % E
vpn1(v) == (v \div E) % E
vpn0(v) == v % E

Junk == [i \in 0..(PageSize - 1) |-> <<"junk", 0>>]
Zero == [i \in 0..(PageSize - 1) |-> <<"zero", 0>>]
NoFn == [x \in {} |-> 0]

NoMemory == [nodes |-> <<>>, tbl |-> NoFn, data |-> NoFn, want |-> NoFn, ok |-> TRUE, got |-> 0]

-----------------------------------------------------------------------------
\* PageAllocator::dealloc of a run of pages, and init from the usable regions.
DeallocPages(m, start, count) ==
  [m EXCEPT !.nodes = <<[start |-> start, count |-> count]>> \o @]

InitPages(regions) ==
  FoldLeft(LAMBDA m, r : DeallocPages(m, r.start \div PageSize, (r.end - r.start) \div PageSize),
           NoMemory, regions)

\* Faulty variant: the node is dropped one page early.
AllocPageDropsEarly(m) ==
  IF ~m.ok THEN m
  ELSE IF m.nodes = <<>> THEN [m EXCEPT !.ok = FALSE]
  ELSE LET n == Head(m.nodes) IN
       [m EXCEPT !.got = n.start + n.count - 1,
                 !.nodes = (IF n.count <= 2 THEN <<>>
                            ELSE <<[n EXCEPT !.count = @ - 1]>>) \o Tail(@)]

\* PageAllocator::alloc and the caller's expect: the last page of the first node.
AllocPage(m) ==
  IF ~m.ok THEN m
  ELSE IF m.nodes = <<>> THEN [m EXCEPT !.ok = FALSE]
  ELSE LET n == Head(m.nodes) IN
       [m EXCEPT !.got = n.start + n.count - 1,
                 !.nodes = (IF n.count = 1 THEN <<>>
                            ELSE <<[n EXCEPT !.count = @ - 1]>>) \o Tail(@)]

FreePages(m) == UNION {n.start..(n.start + n.count - 1) : n \in Range(m.nodes)}

-----------------------------------------------------------------------------
Entry(m, t, i) == IF t \in DOMAIN m.tbl /\ i \in DOMAIN m.tbl[t] THEN m.tbl[t][i]
                  ELSE [valid |-> FALSE, page |-> 0, leaf |-> FALSE, user |-> FALSE]

SetEntry(m, t, i, page, leaf, user) ==
  LET old == IF t \in DOMAIN m.tbl THEN m.tbl[t] ELSE NoFn
  IN [m EXCEPT !.tbl =
       (t :> ((i :> [valid |-> TRUE, page |-> page, leaf |-> leaf, user |-> user]) @@ old)) @@ @]

\* zero_page_table of a page just allocated.
NewTable(m) == IF m.ok THEN [m EXCEPT !.tbl = (m.got :> NoFn) @@ @] ELSE m

\* PageMapper::new; the root is in got.
NewRoot(m) == LET n == NewTable(AllocPage(m)) IN
  IF n.ok THEN [n EXCEPT !.want = (n.got :> NoFn) @@ @] ELSE n

alloc_next_level(m, t, i) == LET n == NewTable(AllocPage(m)) IN
  IF n.ok THEN SetEntry(n, t, i, n.got, FALSE, FALSE) ELSE n

\* The table below entry i of t, made if the entry is not valid; it is in got.
NextLevel(m, t, i) ==
  IF ~m.ok THEN m
  ELSE IF Entry(m, t, i).valid THEN [m EXCEPT !.got = Entry(m, t, i).page]
  ELSE alloc_next_level(m, t, i)

Want(m, root, pages, page, user) ==
  [m EXCEPT !.want[root] = [v \in pages |-> [page |-> page + v - Min(pages), user |-> user]] @@ @]

\* Faulty variant: the level-0 index is taken from the level-1 digit.
MapPageWrongDigit(m, root, v, p, user) ==
  LET a == NextLevel(m, root, vpn2(v))
      b == NextLevel(a, a.got, vpn1(v))
  IN IF b.ok THEN Want(SetEntry(b, b.got, vpn1(v), p, TRUE, user), root, {v}, p, user) ELSE b

\* One round of map_range with 4K pages, and with 2M pages.
MapPage(m, root, v, p, user) ==
  LET a == NextLevel(m, root, vpn2(v))
      b == NextLevel(a, a.got, vpn1(v))
  IN IF b.ok THEN Want(SetEntry(b, b.got, vpn0(v), p, TRUE, user), root, {v}, p, user) ELSE b

MapSuper(m, root, v, p) ==
  LET a == NextLevel(m, root, vpn2(v))
  IN IF a.ok THEN Want(SetEntry(a, a.got, vpn1(v), p, TRUE, FALSE), root, v..(v + E - 1), p, FALSE)
             ELSE a

Count(n) == [i \in 1..n |-> i - 1]

map_range(m, root, v, p, n, user) ==
  FoldLeft(LAMBDA a, i : MapPage(a, root, v + i, p + i, user), m, Count(n))

map_range_2M(m, root, v, p, n) ==
  FoldLeft(LAMBDA a, i : MapSuper(a, root, v + E * i, p + E * i), m, Count(n \div E))

\* allocate_and_map_pages(_zeroed): n fresh pages at v.
allocate_and_map_pages(m, root, v, n, user, fill) ==
  FoldLeft(LAMBDA a, i :
             LET b == AllocPage(a) IN
             IF ~b.ok THEN b
             ELSE MapPage([b EXCEPT !.data = (b.got :> fill) @@ @], root, v + i, b.got, user),
           m, Count(n))

\* virt_to_phys of a page; 0 when a level is not valid.
virt_to_phys(m, root, v) ==
  LET e2 == Entry(m, root, vpn2(v))
      e1 == Entry(m, e2.page, vpn1(v))
      e0 == Entry(m, e1.page, vpn0(v))
  IN IF ~e2.valid THEN 0
     ELSE IF e2.leaf THEN (e2.page - (e2.page % 4)) + (v % 4)   \* its mask, 0x3fff
     ELSE IF ~e1.valid THEN 0
     ELSE IF e1.leaf THEN (e1.page - (e1.page % E)) + (v % E)
     ELSE IF ~e0.valid THEN 0 ELSE e0.page

\* Whether user code may use the page, by the leaf that maps it.
UserLeaf(m, root, v) ==
  LET e1 == Entry(m, Entry(m, root, vpn2(v)).page, vpn1(v))
  IN (IF e1.leaf THEN e1 ELSE Entry(m, e1.page, vpn0(v))).user

\* set_l1_page_table_for_phys: hang an existing table below root.
set_l1_page_table_for_phys(m, root, v, table) ==
  LET a == NextLevel(m, root, vpn2(v))
  IN IF a.ok THEN SetEntry(a, a.got, vpn1(v), table, FALSE, FALSE) ELSE a

l1_page_table_from_phys(m, root, v) ==
  Entry(m, Entry(m, root, vpn2(v)).page, vpn1(v)).page

-----------------------------------------------------------------------------
\* Store one unit through a mapping.
Store(m, root, a, val) ==
  LET p == virt_to_phys(m, root, a \div PageSize) IN
  IF m.ok /\ p \in DOMAIN m.data THEN [m EXCEPT !.data[p][a % PageSize] = val] ELSE m

Load(m, root, a) ==
  LET p == virt_to_phys(m, root, a \div PageSize) IN
  IF p \in DOMAIN m.data THEN m.data[p][a % PageSize] ELSE <<"unmapped", 0>>

Mapped(m, root, a) == virt_to_phys(m, root, a \div PageSize) # 0

\* The physical address of a, as virt_to_phys returns it; and what
\* copy_nonoverlapping does there, on whatever frames lie behind each other.
PhysOf(m, root, a) == virt_to_phys(m, root, a \div PageSize) * PageSize + (a % PageSize)

WritePhys(m, at, units) ==
  [m EXCEPT !.data = [p \in DOMAIN @ |-> [b \in DOMAIN @[p] |->
     LET i == p * PageSize + b - at IN
     IF i \in 0..(Len(units) - 1) THEN units[i + 1] ELSE @[p][b]]]]

ReadPhys(m, at, n) ==
  [i \in 1..n |-> LET p == (at + i - 1) \div PageSize IN
     IF p \in DOMAIN m.data THEN m.data[p][(at + i - 1) % PageSize] ELSE <<"foreign", 0>>]

\* Faulty variant: the offset in the page is forgotten.
ChunkLenWhole(ptr, left) == Min({left, PageSize})

\* chunk_size of uaccess: up to the end of the page.
ChunkLen(ptr, left) == Min({left, PageSize - (ptr % PageSize)})

\* One round of copy_out's loop, and of copy_in's: one translation, and a
\* chunk copied in one piece.
CopyOutChunk(s, root) ==
  LET n == ChunkLen(s.ptr, Len(s.rest)) IN
  IF ~s.ok \/ s.rest = <<>> THEN s
  ELSE IF ~Mapped(s.m, root, s.ptr) THEN [s EXCEPT !.ok = FALSE]
  ELSE [s EXCEPT !.m = WritePhys(@, PhysOf(@, root, s.ptr), SubSeq(s.rest, 1, n)),
                 !.ptr = @ + n, !.rest = SubSeq(@, n + 1, Len(@))]

CopyInChunk(m, s, root, size) ==
  LET n == ChunkLen(s.ptr, size - Len(s.buf)) IN
  IF ~s.ok \/ Len(s.buf) = size THEN s
  ELSE IF ~Mapped(m, root, s.ptr) THEN [s EXCEPT !.ok = FALSE]
  ELSE [s EXCEPT !.buf = @ \o ReadPhys(m, PhysOf(m, root, s.ptr), n), !.ptr = @ + n]

\* ok is the result, Ok or Err.  A chunk is at least one unit, so there are no
\* more rounds than units.
copy_out(m, root, a, units) ==
  FoldLeft(LAMBDA s, i : CopyOutChunk(s, root),
           [m |-> m, ptr |-> a, rest |-> units, ok |-> TRUE], units)

copy_in(m, root, a, size) ==
  FoldLeft(LAMBDA s, i : CopyInChunk(m, s, root, size),
           [ptr |-> a, buf |-> <<>>, ok |-> TRUE], Count(size))
=============================================================================

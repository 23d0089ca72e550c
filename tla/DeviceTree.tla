----------------------------- MODULE DeviceTree -----------------------------
(***************************************************************************)
(* What the kernel takes from the device tree (src/dtb.rs) and how it      *)
(* turns it into usable memory (src/memory.rs, page_allocator::init).      *)
(* A tree is the sequence of tokens traverse_dtb meets; addresses are in   *)
(* units, PageSize units to the page.                                      *)
(***************************************************************************)
EXTENDS Integers, Sequences, SequencesExt, FiniteSets, FiniteSetsExt, TLC

CONSTANTS PageSize, MaxReserved      \* MAX_RESERVED_MEMORY

ASSUME TreeAssumption == PageSize \in Nat \ {0} /\ MaxReserved \in Nat

align_down(a) == (a \div PageSize) * PageSize
align_up(a) == ((a + PageSize - 1) \div PageSize) * PageSize

Region(s, e) == [start |-> s, end |-> e]
None == [start |-> 0, end |-> 0]

\* heapless::Vec::push with its error ignored.
Push(v, r) == IF Len(v) < MaxReserved THEN Append(v, r) ELSE v

-----------------------------------------------------------------------------
\* traverse_dtb calls back with the depth before a begin and after an end.
Walk0 == [depth |-> 0, memory |-> None, memory_active |-> FALSE, reserved_active |-> FALSE,
          chosen_active |-> FALSE, initrd_start |-> -1, initrd_end |-> -1,
          reserved |-> <<>>, INITRD |-> None]

BeginNode(w, name) == LET top == w.depth = 1 IN
  [w EXCEPT !.depth = @ + 1,
            !.reserved_active = @ \/ (top /\ name = "reserved-memory"),
            !.chosen_active = @ \/ (top /\ name = "chosen"),
            !.memory_active = @ \/ (top /\ name = "memory@")]

EndNode(w) == LET d == IF w.depth = 0 THEN 0 ELSE w.depth - 1 IN
  IF d = 1 THEN [w EXCEPT !.depth = d, !.memory_active = FALSE, !.reserved_active = FALSE]
           ELSE [w EXCEPT !.depth = d]

\* The two ends of the initrd arrive in either order.
ChosenProp(w, p) ==
  LET v == [w EXCEPT !.initrd_start = IF p.name = "linux,initrd-start" THEN p.value ELSE @,
                     !.initrd_end = IF p.name = "linux,initrd-end" THEN p.value ELSE @]
  IN IF v.initrd_start = -1 \/ v.initrd_end = -1 THEN v
     ELSE [v EXCEPT !.reserved = Push(@, Region(align_down(v.initrd_start),
                                                align_up(v.initrd_end))),
                    !.INITRD = Region(v.initrd_start, v.initrd_end),
                    !.initrd_start = -1, !.initrd_end = -1]

Prop(w, p) ==
  CASE w.memory_active /\ p.name = "reg" ->
         [w EXCEPT !.memory = Region(p.value[1], p.value[1] + p.value[2])]
    [] ~(w.memory_active /\ p.name = "reg") /\ w.reserved_active
         /\ p.name \in {"reg", "alloc-ranges"} ->
         [w EXCEPT !.reserved = Push(@, Region(align_down(p.value[1]),
                                               align_up(p.value[1] + p.value[2])))]
    [] OTHER -> IF w.chosen_active THEN ChosenProp(w, p) ELSE w

Token(w, t) == CASE t.kind = "begin" -> BeginNode(w, t.name)
                 [] t.kind = "end" -> EndNode(w)
                 [] t.kind = "prop" -> Prop(w, t)

\* The first root "compatible" that names the cv181x decides.
DepthAt(dtb, i) ==
  Cardinality({j \in 1..(i - 1) : dtb[j].kind = "begin"})
    - Cardinality({j \in 1..(i - 1) : dtb[j].kind = "end"})

detect_cpu_type(dtb) ==
  IF \E i \in DOMAIN dtb : /\ dtb[i].kind = "prop" /\ dtb[i].name = "compatible"
                           /\ DepthAt(dtb, i) = 1 /\ dtb[i].value = "cv181x"
  THEN "LicheeRVNano" ELSE "Qemu"

-----------------------------------------------------------------------------
Clip(ram, reserved) ==
  LET cut(r) == Region(IF r.start > ram.start THEN r.start ELSE ram.start,
                       IF r.end < ram.end THEN r.end ELSE ram.end)
  IN SelectSeq([i \in DOMAIN reserved |-> cut(reserved[i])], LAMBDA r : r.start < r.end)

\* Faulty variant: a region inside the one before it shortens that one.
MergeShrinks(sorted) ==
  FoldLeft(LAMBDA acc, r :
             IF acc # <<>> /\ r.start <= Last(acc).end
             THEN [acc EXCEPT ![Len(acc)].end = r.end]
             ELSE Append(acc, r), <<>>, sorted)

Merge(sorted) ==
  FoldLeft(LAMBDA acc, r :
             IF acc # <<>> /\ r.start <= Last(acc).end
             THEN [acc EXCEPT ![Len(acc)].end = IF r.end > @ THEN r.end ELSE @]
             ELSE Append(acc, r), <<>>, sorted)

Carve(ram, merged) ==
  LET c == FoldLeft(LAMBDA acc, r :
             [cursor |-> IF r.end > acc.cursor THEN r.end ELSE acc.cursor,
              out |-> IF r.start > acc.cursor
                      THEN Append(acc.out, Region(acc.cursor, r.start)) ELSE acc.out],
             [cursor |-> ram.start, out |-> <<>>], merged)
  IN IF c.cursor < ram.end THEN Append(c.out, Region(c.cursor, ram.end)) ELSE c.out

compute_usable_regions(ram, reserved) ==
  Carve(ram, Merge(SortSeq(Clip(ram, reserved), LAMBDA a, b : a.start < b.start)))

\* page_allocator::init: the kernel image and the tree itself are reserved too.
UsableRegions(w, image_end, dtb_at) ==
  LET all == Push(Push(w.reserved, Region(w.memory.start, align_up(image_end))),
                  Region(align_down(dtb_at.start), align_up(dtb_at.end)))
  IN compute_usable_regions(w.memory, all)

-----------------------------------------------------------------------------
(***************************************************************************)
(* The reference: which pages the tree reserves, read off its structure.   *)
(***************************************************************************)
PagesOf(r) == {p \in (r.start \div PageSize)..(r.end \div PageSize) :
                 p * PageSize < r.end /\ (p + 1) * PageSize > r.start}

\* Token i lies inside the node that token j opens.
Inside(dtb, i, j) ==
  /\ j < i /\ dtb[j].kind = "begin"
  /\ \A k \in (j + 1)..(i - 1) : DepthAt(dtb, k + 1) > DepthAt(dtb, j)

InTop(dtb, i, name) == \E j \in DOMAIN dtb :
  Inside(dtb, i, j) /\ dtb[j].name = name /\ DepthAt(dtb, j) = 1

PropsIn(dtb, node, names) ==
  {dtb[i] : i \in {k \in DOMAIN dtb : dtb[k].kind = "prop" /\ dtb[k].name \in names
                                      /\ InTop(dtb, k, node)}}

TreeReserved(dtb) ==
  UNION {PagesOf(Region(p.value[1], p.value[1] + p.value[2])) :
           p \in PropsIn(dtb, "reserved-memory", {"reg", "alloc-ranges"})}
  \cup UNION {PagesOf(Region(p.value, q.value)) :
           p \in PropsIn(dtb, "chosen", {"linux,initrd-start"}),
           q \in PropsIn(dtb, "chosen", {"linux,initrd-end"})}
=============================================================================

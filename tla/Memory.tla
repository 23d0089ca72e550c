------------------------------- MODULE Memory -------------------------------
(***************************************************************************)
(* Memory from reset to running processes: page_allocator::init from the   *)
(* device tree, kernel_memory_map::init, spawn_process with its ELF, and   *)
(* what brk, mmap, copy_out and the growing kernel heap do afterwards.     *)
(* All of it runs in the kernel without preemption, and programs are read  *)
(* from the initramfs, so every call is one step.                          *)
(***************************************************************************)
EXTENDS PageTables

CONSTANTS Trees,        \* device trees the firmware may hand over
          DtbAt,        \* where the tree lies: a Region
          ImagePages,   \* pages of the kernel image; the last is the trampoline
          Elfs,         \* programs: sequences of PT_LOAD segments
          Procs,        \* processes that may be spawned
          BrkSteps,     \* brk arguments, relative to the current end
          MmapLens,     \* mmap lengths
          HeapGrowths,  \* bound: how often the kernel heap may grow
          UserCalls,    \* bound: brk, mmap and read calls, all processes together
          Buffers       \* where and how much read writes: <<k, n>>, from heap_begin

\* Sizes of the fixed areas, in pages (the code: 16, 4 and 4).
KERNEL_STACK_PAGES == 1
KERNEL_HEAP_PAGES == 2
PROCESS_STACK_PAGES == 2

\* The address map, in pages: the same corners of the address space as the
\* code's constants, for a table of PAGE_ENTRIES.
HIGH_HALF == 3 * E * E
KERNEL_HEAP_START == (E - 1) * E * E
TRAMPOLINE_TRAP_FRAME == E * E * E - E
KERNEL_STACK_START == TRAMPOLINE_TRAP_FRAME
PROC_TRAMP == E * E * E - 1
PROCESS_LOAD_AREA_ENTRY == E \div 2
PROCESS_LOAD_AREA == PROCESS_LOAD_AREA_ENTRY * E * E
PROCESS_MMAP_START == 2 * E * E
PROCESS_STACK_START == PROCESS_MMAP_START - E

\* Device pages: [at, n].
Mmio(cpu) == IF cpu = "Qemu" THEN <<[at |-> 2 * E, n |-> 2], [at |-> E, n |-> 2]>>
             ELSE <<[at |-> 1, n |-> 1], [at |-> E * E, n |-> 2], [at |-> 2, n |-> 1]>>

VARIABLES phase,    \* "reset", "pages", "kernel" (menu), "run"
          tree,     \* the device tree
          walk,     \* collect_memory_map's locals, and statics it sets
          token,    \* how many tokens of the tree it has seen
          elf,      \* /prog_example
          mem,      \* PageTables' record
          kernel,   \* [root, last_l1, heap_end]
          proc,     \* process -> [root, heap_begin, heap_end, mmap_next]
          ret,      \* what the last brk, mmap, read or write gave its caller
          grown, calls

boot == <<tree, walk, token, elf>>
vars == <<phase, boot, mem, kernel, proc, ret, grown, calls>>

\* ok: no EFAULT; buf: what write takes from the process.
Ret(ok, buf) == [ok |-> ok, buf |-> buf]
NoRet == Ret(TRUE, <<>>)

Ram == walk.memory
RamPage == Ram.start \div PageSize

Init ==
  /\ phase = "reset" /\ tree \in Trees /\ elf \in Elfs
  /\ walk = Walk0 /\ token = 0
  /\ mem = NoMemory
  /\ kernel = [root |-> 0, last_l1 |-> 0, heap_end |-> KERNEL_HEAP_START + KERNEL_HEAP_PAGES]
  /\ proc = NoFn
  /\ ret = NoRet
  /\ grown = 0 /\ calls = 0

\* One call of the closure that collect_memory_map passes to traverse_dtb.
collect_memory_map ==
  /\ phase = "reset" /\ token < Len(tree)
  /\ token' = token + 1
  /\ walk' = Token(walk, tree[token + 1])
  /\ UNCHANGED <<phase, tree, elf, mem, kernel, proc, ret, grown, calls>>

InitPageAllocator ==
  /\ phase = "reset" /\ token = Len(tree)
  /\ phase' = "pages"
  /\ mem' = InitPages(UsableRegions(walk, Ram.start + ImagePages * PageSize, DtbAt))
  /\ UNCHANGED <<boot, kernel, proc, ret, grown, calls>>

-----------------------------------------------------------------------------
\* kernel_memory_map::init, in its order.
MapMmio(m, r, cpu) ==
  FoldLeft(LAMBDA a, d : map_range(a, r, d.at, d.at, d.n, FALSE), m, Mmio(cpu))

\* text, rodata, data and bss, a page each.
MapKernelSegments(m, r) == map_range(m, r, HIGH_HALF + RamPage, RamPage, ImagePages - 1, FALSE)

MapKernelStack(m, r) ==
  allocate_and_map_pages(m, r, KERNEL_STACK_START - KERNEL_STACK_PAGES, KERNEL_STACK_PAGES, FALSE, Junk)

MapKernelHeap(m, r) ==
  allocate_and_map_pages(m, r, KERNEL_HEAP_START, KERNEL_HEAP_PAGES, FALSE, Junk)

MapLastL1(m, r) ==
  allocate_and_map_pages(MapPage(m, r, PROC_TRAMP, RamPage + ImagePages - 1, FALSE),
                         r, TRAMPOLINE_TRAP_FRAME, 1, FALSE, Junk)

InitKernelMap ==
  /\ phase = "pages"
  /\ LET r == AllocPage(mem).got IN
     \E m1 \in {map_range_2M(NewRoot(mem), r, RamPage, RamPage, (Ram.end - Ram.start) \div PageSize)} :
     \E m2 \in {MapMmio(m1, r, detect_cpu_type(tree))} :
     \E m3 \in {MapKernelSegments(m2, r)} :
     \E m4 \in {MapKernelHeap(MapKernelStack(m3, r), r)} :
       /\ mem' = MapLastL1(m4, r)
       /\ kernel' = [kernel EXCEPT !.root = r,
                       !.last_l1 = l1_page_table_from_phys(mem', r, TRAMPOLINE_TRAP_FRAME)]
  /\ phase' = "kernel"
  /\ UNCHANGED <<boot, proc, ret, grown, calls>>

GrowKernelHeap ==
  /\ phase \in {"kernel", "run"} /\ mem.ok /\ grown < HeapGrowths
  /\ mem' = allocate_and_map_pages(mem, kernel.root, kernel.heap_end, 1, FALSE, Junk)
  /\ kernel' = IF mem'.ok THEN [kernel EXCEPT !.heap_end = @ + 1] ELSE kernel
  /\ grown' = grown + 1
  /\ UNCHANGED <<phase, boot, proc, ret, calls>>

-----------------------------------------------------------------------------
SegStart(seg) == align_down(seg.vaddr) \div PageSize
SegEnd(seg) == align_up(seg.vaddr + seg.memsz) \div PageSize

\* Faulty variant: the part of a segment beyond the file is not cleared.
LoadSegmentNoBss(acc, seg) ==
  LET at == PROCESS_LOAD_AREA * PageSize + seg.vaddr
      m1 == allocate_and_map_pages(acc.m, kernel.root, PROCESS_LOAD_AREA + SegStart(seg),
                                   SegEnd(seg) - SegStart(seg), FALSE, Junk)
      m2 == FoldLeft(LAMBDA a, i : Store(a, kernel.root, at + i, <<"file", seg.offset + i>>),
                     m1, Count(seg.filesz))
  IN [m |-> m2, heap |-> Max({acc.heap, SegEnd(seg)})]

\* load_elf: each segment on fresh pages of the load area, the file's bytes,
\* then zeros.
LoadSegment(acc, seg) ==
  LET at == PROCESS_LOAD_AREA * PageSize + seg.vaddr
      m1 == allocate_and_map_pages(acc.m, kernel.root, PROCESS_LOAD_AREA + SegStart(seg),
                                   SegEnd(seg) - SegStart(seg), FALSE, Junk)
      m2 == FoldLeft(LAMBDA a, i : Store(a, kernel.root, at + i,
                       IF i < seg.filesz THEN <<"file", seg.offset + i>> ELSE <<"zero", 0>>),
                     m1, Count(seg.memsz))
  IN [m |-> m2, heap |-> Max({acc.heap, SegEnd(seg)})]

switch_pages_to_user(m, table) ==
  LET l0 == {m.tbl[table][i].page : i \in DOMAIN m.tbl[table]} IN
  [m EXCEPT !.tbl = [t \in DOMAIN @ |->
     IF t \in l0 THEN [i \in DOMAIN @[t] |-> [@[t][i] EXCEPT !.user = TRUE]] ELSE @[t]]]

\* The history of the same move: the load area's pages are now user's.
MoveWant(m, root) ==
  LET k == m.want[kernel.root]
      moved == {v \in DOMAIN k : vpn2(v) = PROCESS_LOAD_AREA_ENTRY}
  IN [m EXCEPT !.want =
        (root :> [v \in {x - PROCESS_LOAD_AREA : x \in moved} |->
                    [k[v + PROCESS_LOAD_AREA] EXCEPT !.user = TRUE]])
        @@ (kernel.root :> [v \in DOMAIN k \ moved |-> k[v]]) @@ @]

\* Faulty variant: the kernel keeps its load area entry.
MoveLoadAreaKeeps(m, root) ==
  LET table == Entry(m, kernel.root, PROCESS_LOAD_AREA_ENTRY).page
      n == SetEntry(switch_pages_to_user(m, table), root, 0, table, FALSE, FALSE)
  IN MoveWant(n, root)

\* The load area's table becomes the process's low gigabyte; the kernel's
\* entry is cleared.
MoveLoadArea(m, root) ==
  LET table == Entry(m, kernel.root, PROCESS_LOAD_AREA_ENTRY).page
      n == SetEntry(switch_pages_to_user(m, table), root, 0, table, FALSE, FALSE)
  IN MoveWant([n EXCEPT !.tbl[kernel.root] =
        [i \in DOMAIN @ \ {PROCESS_LOAD_AREA_ENTRY} |-> @[i]]], root)

\* The first stack page is filled (argc, argv, auxv) before it is mapped.
MapProcessStack(m, root) ==
  LET a == AllocPage(m)
      top == [Junk EXCEPT ![PageSize - 1] = <<"args", 0>>]
      b == IF a.ok THEN MapPage([a EXCEPT !.data = (a.got :> top) @@ @], root,
                                PROCESS_STACK_START - 1, a.got, TRUE) ELSE a
  IN IF b.ok THEN allocate_and_map_pages(b, root, PROCESS_STACK_START - PROCESS_STACK_PAGES,
                                         PROCESS_STACK_PAGES - 1, TRUE, Junk)
             ELSE b

MapTrampoline(m, root) ==
  LET n == set_l1_page_table_for_phys(m, root, TRAMPOLINE_TRAP_FRAME, kernel.last_l1)
      k == m.want[kernel.root]
  IN IF n.ok THEN [n EXCEPT !.want[root] =
                     [v \in {x \in DOMAIN k : x >= TRAMPOLINE_TRAP_FRAME} |-> k[v]] @@ @]
             ELSE n

\* spawn_process: Context::new, then init_from_elf.
Spawn(p) ==
  /\ phase = "kernel" /\ mem.ok /\ p \notin DOMAIN proc
  /\ LET root == AllocPage(mem).got IN
     \E m0 \in {NewRoot(mem)} :
     \E ld \in {FoldLeft(LoadSegment, [m |-> m0, heap |-> 0], elf)} :
     \E m1 \in {IF ld.m.ok THEN MoveLoadArea(ld.m, root) ELSE ld.m} :
     \E m2 \in {IF m1.ok THEN MapProcessStack(m1, root) ELSE m1} :
        /\ mem' = IF m2.ok THEN MapTrampoline(m2, root) ELSE m2
        /\ proc' = IF mem'.ok THEN (p :> [root |-> root, heap_begin |-> ld.heap, heap_end |-> ld.heap,
                                        mmap_next |-> PROCESS_MMAP_START]) @@ proc
                   ELSE proc
  /\ UNCHANGED <<phase, boot, kernel, ret, grown, calls>>

start_scheduler ==
  /\ phase = "kernel" /\ mem.ok /\ proc # NoFn
  /\ phase' = "run"
  /\ UNCHANGED <<boot, mem, kernel, proc, ret, grown, calls>>

-----------------------------------------------------------------------------
Calling(p) == /\ phase = "run" /\ mem.ok /\ p \in DOMAIN proc /\ calls < UserCalls
              /\ calls' = calls + 1
              /\ UNCHANGED <<phase, boot, kernel, grown>>

\* Faulty variant: a lower end is accepted and the pages stay.
BrkShrinks(p, d) ==
  LET end == align_up(proc[p].heap_end * PageSize + d) \div PageSize IN
  /\ Calling(p) /\ ret' = NoRet
  /\ mem' = IF end > proc[p].heap_end
            THEN allocate_and_map_pages(mem, proc[p].root, proc[p].heap_end,
                                        end - proc[p].heap_end, TRUE, Zero)
            ELSE mem
  /\ proc' = [proc EXCEPT ![p].heap_end = end]

\* brk to d units beyond the end.  Below the end the subtraction overflows:
\* a panic, at once or once the huge size has used up every page.
Brk(p, d) ==
  LET end == align_up(proc[p].heap_end * PageSize + d) \div PageSize IN
  /\ Calling(p) /\ ret' = NoRet
  /\ IF end < proc[p].heap_end
     THEN mem' = [mem EXCEPT !.ok = FALSE] /\ UNCHANGED proc
     ELSE /\ mem' = allocate_and_map_pages(mem, proc[p].root, proc[p].heap_end,
                                           end - proc[p].heap_end, TRUE, Zero)
          /\ proc' = IF mem'.ok THEN [proc EXCEPT ![p].heap_end = end] ELSE proc

Mmap(p, len) ==
  LET n == align_up(len) \div PageSize IN
  /\ Calling(p) /\ ret' = NoRet
  /\ mem' = allocate_and_map_pages(mem, proc[p].root, proc[p].mmap_next, n, TRUE, Zero)
  /\ proc' = IF mem'.ok THEN [proc EXCEPT ![p].mmap_next = @ + n] ELSE proc

\* A buffer a program passes to read or write: somewhere around its heap's
\* first unit.  read's data are n units of a file.
Out(i) == <<"out", i>>
Address(p, k) == proc[p].heap_begin * PageSize + k

CopyOut(p, k, n) ==
  /\ Calling(p)
  /\ LET c == copy_out(mem, proc[p].root, Address(p, k), [i \in 1..n |-> Out(i - 1)])
     IN mem' = c.m /\ ret' = Ret(c.ok, <<>>)
  /\ UNCHANGED proc

CopyIn(p, k, n) ==
  /\ Calling(p)
  /\ LET c == copy_in(mem, proc[p].root, Address(p, k), n)
     IN ret' = Ret(c.ok, IF c.ok THEN c.buf ELSE <<>>)
  /\ UNCHANGED <<mem, proc>>

Next ==
  \/ collect_memory_map \/ InitPageAllocator \/ InitKernelMap \/ GrowKernelHeap \/ start_scheduler
  \/ \E p \in Procs :
       \/ Spawn(p)
       \/ \E d \in BrkSteps : Brk(p, d)
       \/ \E n \in MmapLens : Mmap(p, n)
       \/ \E b \in Buffers : CopyOut(p, b[1], b[2]) \/ CopyIn(p, b[1], b[2])

Spec == Init /\ [][Next]_vars

-----------------------------------------------------------------------------
Roots == DOMAIN mem.want

\* The pages below a valid entry of level 1: the only ones that can translate.
Reach(r) ==
  UNION {UNION {((i * E + j) * E)..((i * E + j) * E + E - 1) : j \in DOMAIN mem.tbl[mem.tbl[r][i].page]} :
           i \in DOMAIN mem.tbl[r]}

\* The tables one level below ts, and all tables.
Below(ts) == UNION {{mem.tbl[t][i].page : i \in {j \in DOMAIN mem.tbl[t] : ~mem.tbl[t][j].leaf}} :
                      t \in ts}
Tables == Roots \cup Below(Roots) \cup Below(Below(Roots))
Data == DOMAIN mem.data
Managed == UNION {PagesOf(r) :
                    r \in Range(UsableRegions(walk, Ram.start + ImagePages * PageSize, DtbAt))}

UserPages(p) == {v \in Reach(proc[p].root) : UserLeaf(mem, proc[p].root, v)
                                               /\ virt_to_phys(mem, proc[p].root, v) # 0}

\* The type invariant.
MTypeOK ==
  /\ phase \in {"reset", "pages", "kernel", "run"}
  /\ \A n \in Range(mem.nodes) : n.start \in Nat /\ n.count \in Nat \ {0}
  /\ \A t \in DOMAIN mem.tbl : DOMAIN mem.tbl[t] \subseteq 0..(E - 1)
  /\ DOMAIN proc \subseteq Procs
  /\ mem.ok => \A p \in DOMAIN proc : proc[p].heap_begin <= proc[p].heap_end

\* Every page the allocator was given is free, a table or data, never two of
\* these, and none is lost.  A data page is mapped by exactly one 4K entry;
\* a table hangs below exactly one entry, but for the trampoline's, which is
\* shared by the kernel and every process.
FramesOwnedOnce == phase # "reset" /\ mem.ok =>
  LET tables == Tables
      free == FreePages(mem)
      low == Below(Below(Roots))
      Links(ts, page) == {x \in ts \X (0..(E - 1)) : LET e == Entry(mem, x[1], x[2]) IN
                                                      e.valid /\ e.page = page}
  IN /\ free \cap tables = {} /\ free \cap Data = {} /\ tables \cap Data = {}
     /\ free \cup tables \cup Data = Managed
     /\ \A d \in Data : Cardinality(Links(low, d)) = 1
     /\ \A t \in tables \ Roots :
          Cardinality({x \in Links(tables \ low, t) : ~mem.tbl[x[1]][x[2]].leaf})
            = IF t = kernel.last_l1 THEN 1 + Cardinality(DOMAIN proc) ELSE 1

\* No page that the device tree reserves, or that holds the kernel image, the
\* initrd or the tree itself, is ever free, a table or data.
ReservedUntouched ==
  LET kept == TreeReserved(tree) \cup PagesOf(DtbAt)
                \cup RamPage..(RamPage + ImagePages - 1)
  IN (FreePages(mem) \cup Tables \cup Data) \cap kept = {}

\* Walking the tables gives, for every page of every address space, what was
\* asked to be mapped there last and nothing else: no mapping is lost when a
\* table is shared, moved or extended, and none appears.
WalkMatches == mem.ok => \A r \in Roots : \A v \in Reach(r) \cup DOMAIN mem.want[r] :
  /\ virt_to_phys(mem, r, v) = IF v \in DOMAIN mem.want[r] THEN mem.want[r][v].page ELSE 0
  /\ v \in DOMAIN mem.want[r] => UserLeaf(mem, r, v) = mem.want[r][v].user

\* User code reaches only its own process's pages: no page of the kernel's
\* map is a user page, two processes share none, and what a process maps
\* without the user flag is the trampoline.
Isolated == mem.ok =>
  /\ kernel.root \in Roots => \A v \in Reach(kernel.root) : ~UserLeaf(mem, kernel.root, v)
  /\ \A p \in DOMAIN proc :
       LET mine == UserPages(p)
           frames == {virt_to_phys(mem, proc[p].root, v) : v \in mine}
       IN /\ \A q \in DOMAIN proc \ {p} : \A v \in Reach(proc[q].root) :
               virt_to_phys(mem, proc[q].root, v) \notin frames
          /\ \A v \in Reach(proc[p].root) \ mine :
               virt_to_phys(mem, proc[p].root, v) # 0 => v \in {TRAMPOLINE_TRAP_FRAME, PROC_TRAMP}

\* What a process finds in its memory: its segments, zeros behind them, its
\* arguments on the stack, a heap of exactly [heap_begin, heap_end) and mmap
\* areas up to mmap_next, both zero until read writes there.
SegPages == UNION {SegStart(elf[i])..(SegEnd(elf[i]) - 1) : i \in DOMAIN elf}
ProcessImage == mem.ok => \A p \in DOMAIN proc :
  LET at(a) == Load(mem, proc[p].root, a)
      fresh == (proc[p].heap_begin..(proc[p].heap_end - 1))
                 \cup PROCESS_MMAP_START..(proc[p].mmap_next - 1)
      stack == (PROCESS_STACK_START - PROCESS_STACK_PAGES)..(PROCESS_STACK_START - 1)
  IN /\ UserPages(p) = SegPages \cup fresh \cup stack
     /\ \A i \in DOMAIN elf : \A b \in 0..(elf[i].memsz - 1) :
          \/ at(elf[i].vaddr + b)[1] = "out"
          \/ at(elf[i].vaddr + b) = IF b < elf[i].filesz THEN <<"file", elf[i].offset + b>>
                                                         ELSE <<"zero", 0>>
     /\ \A v \in fresh : \A b \in 0..(PageSize - 1) : at(v * PageSize + b)[1] \in {"out", "zero"}
     /\ at(PROCESS_STACK_START * PageSize - 1) = <<"args", 0>>

\* What copy_out and copy_in do chunk by chunk is what a copy unit by unit
\* would do, whatever frames lie behind the pages: copy_out puts every unit
\* where its own address translates, up to the first page that does not, and
\* writes nothing else; copy_in takes each unit from there and writes nothing;
\* both succeed exactly when the whole range is mapped.
Lands(r, a, n) ==
  LET whole == \A j \in 0..(n - 1) : Mapped(mem, r, a + j)
      there == {i \in 0..(n - 1) : \A j \in 0..i : Mapped(mem, r, a + j)}
      From(d, b) == {i \in there : PhysOf(mem, r, a + i) = d * PageSize + b}
  IN /\ ret'.ok = whole
     /\ \A d \in Data : \A b \in 0..(PageSize - 1) :
          mem'.data[d][b] \in IF From(d, b) = {} THEN {mem.data[d][b]}
                              ELSE {Out(i) : i \in From(d, b)}
     /\ mem' = [mem EXCEPT !.data = mem'.data]

Takes(r, a, n) ==
  LET whole == \A j \in 0..(n - 1) : Mapped(mem, r, a + j)
  IN /\ ret'.ok = whole
     /\ whole => ret'.buf = [i \in 1..n |-> Load(mem, r, a + i - 1)]
     /\ mem' = mem

CopyLands == [][\A p \in Procs, b \in Buffers :
  /\ CopyOut(p, b[1], b[2]) => Lands(proc[p].root, Address(p, b[1]), b[2])
  /\ CopyIn(p, b[1], b[2]) => Takes(proc[p].root, Address(p, b[1]), b[2])]_vars
=============================================================================

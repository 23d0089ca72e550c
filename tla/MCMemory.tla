------------------------------ MODULE MCMemory ------------------------------
(***************************************************************************)
(* Two-unit pages, tables of eight entries and 48 or 56 pages of RAM.      *)
(***************************************************************************)
EXTENDS Memory

Begin(n) == [kind |-> "begin", name |-> n]
EndTok == [kind |-> "end"]
P(n, v) == [kind |-> "prop", name |-> n, value |-> v]
Node(n, props) == <<Begin(n)>> \o props \o <<EndTok>>
Root(parts) == <<Begin("")>> \o parts \o <<EndTok>>

\* QEMU: RAM first, then the initrd, whose end comes before its start.
QemuTree == Root(<<P("compatible", "virt")>>
  \o Node("memory@", <<P("reg", <<384, 112>>)>>)
  \o Node("chosen", <<P("linux,initrd-end", 405), P("linux,initrd-start", 401)>>))

\* LicheeRV Nano: ranges that overlap, nest, touch and leave RAM, some of them
\* not page aligned; the memory node comes last.
LicheeTree == Root(<<P("compatible", "cv181x")>>
  \o Node("reserved-memory",
       Node("a", <<P("reg", <<470, 8>>)>>) \o Node("b", <<P("reg", <<471, 2>>)>>)
       \o Node("c", <<P("alloc-ranges", <<478, 40>>)>>))
  \o Node("chosen", <<P("linux,initrd-start", 400), P("linux,initrd-end", 403)>>)
  \o Node("memory@", <<P("reg", <<384, 112>>)>>))

\* A smaller machine without an initrd, on which memory runs out.
SmallTree == Root(<<P("compatible", "virt")>>
  \o Node("memory@", <<P("reg", <<384, 96>>)>>)
  \o Node("reserved-memory", Node("a", <<P("reg", <<381, 20>>)>>)))

MCTrees == {QemuTree, LicheeTree, SmallTree}
MCDtb == Region(397, 399)

Seg(v, o, f, m) == [vaddr |-> v, offset |-> o, filesz |-> f, memsz |-> m]
\* Text and data with a bss that crosses a page; and one segment that starts
\* inside a page.
MCElfs == {<<Seg(2, 0, 2, 2), Seg(5, 3, 1, 4)>>, <<Seg(15, 0, 2, 4)>>}
MCBrk == {-3, 1, 4}
MCMmap == {3}
\* From the last unit before the heap on, and across the heap's first page.
MCBuffers == {<<-1, 3>>, <<1, 2>>}
MCSym == Permutations(Procs)
=============================================================================

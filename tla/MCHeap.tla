------------------------------- MODULE MCHeap -------------------------------
(* Heap with 64-byte pages.  Box and Vec layouts (align 8), descriptors     *)
(* from alloc_within_page and a page-sized, page-aligned BlockBuf.          *)
EXTENDS Heap

L(s, a) == [size |-> s, align |-> a]
MCLayouts == {L(12, 8), L(56, 8), AllocWithinPage(34), L(PageSize, PageSize)}

\* With the second one, growth asks for a page that cannot hold the request.
MCTightLayouts == {L(12, 8), L(PageSize - 24, 8)}
=============================================================================

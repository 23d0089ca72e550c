------------------------------ MODULE Allocator ------------------------------
(***************************************************************************)
(* What the kernel heap promises its callers, as the safety comment of     *)
(* src/kernel_allocator/allocator.rs:14 states it: alloc returns properly  *)
(* aligned memory that satisfies the layout, or fails.  The state is what  *)
(* the callers can see: the allocations they hold, the memory the heap     *)
(* owns and the memory it may still take, and whether an alloc has failed. *)
(***************************************************************************)
EXTENDS Integers

CONSTANTS Layouts,   \* the layouts callers ask for: [size, align] in bytes
          Start,     \* the first byte of the heap
          Slack      \* what growth may round a request up by

VARIABLES held,      \* pointer held by a caller -> the layout it asked for
          limit,     \* the heap owns [Start, limit)
          left,      \* bytes the heap may still grow by
          failed

avars == <<held, limit, left, failed>>

\* The two ranges of bytes share no byte.
Apart(p, l, q, m) == p + l.size <= q \/ q + m.size <= p

AInit == /\ held = [p \in {} |-> 0]
         /\ limit \in Nat /\ limit >= Start
         /\ left \in Nat
         /\ failed = FALSE

\* The heap never shrinks, and grows by what it takes.
Grows == /\ {limit', left'} \subseteq Nat
         /\ limit' >= limit
         /\ limit' + left' = limit + left

\* alloc returned p: the bytes it may use belong to the heap and to no other
\* caller.  The heap may have grown.
AAlloc(l) == \E p \in (DOMAIN held') \ DOMAIN held :
  /\ ~failed /\ ~failed'
  /\ Grows
  /\ p \in Nat /\ p >= Start
  /\ p % l.align = 0
  /\ p + l.size <= limit'
  /\ \A q \in DOMAIN held : Apart(p, l, q, held[q])
  /\ held' = [q \in DOMAIN held \cup {p} |-> IF q = p THEN l ELSE held[q]]

ADealloc == \E p \in DOMAIN held :
  /\ ~failed
  /\ held' = [q \in DOMAIN held \ {p} |-> held[q]]
  /\ UNCHANGED <<limit, left, failed>>

\* alloc fails for want of memory, and only then.
AFail(l) ==
  /\ ~failed /\ failed'
  /\ left < l.size + l.align + Slack
  /\ UNCHANGED <<held, limit, left>>

ANext == ADealloc \/ \E l \in Layouts : AAlloc(l) \/ AFail(l)

ASpec == AInit /\ [][ANext]_avars

-----------------------------------------------------------------------------
\* No byte belongs to two callers, and every caller's bytes are the heap's
\* and aligned as asked.
HeldApart ==
  /\ \A p \in DOMAIN held : /\ p >= Start /\ p + held[p].size <= limit
                            /\ p % held[p].align = 0
  /\ \A p, q \in DOMAIN held : p # q => Apart(p, held[p], q, held[q])
=============================================================================

-------------------------------- MODULE Lru --------------------------------
(***************************************************************************)
(* LruCache (src/collections/lru.rs): slots, most recent first, each a     *)
(* record with a key and the id of its Arc.  A slot is pinned while its    *)
(* Arc is held outside the cache.                                          *)
(***************************************************************************)
EXTENDS Integers, Sequences, FiniteSets

\* VecDeque::remove.
RemoveAt(slots, i) == [j \in 1..(Len(slots) - 1) |-> IF j < i THEN slots[j] ELSE slots[j + 1]]

Holds(slots, key) == \E i \in DOMAIN slots : slots[i].key = key
Position(slots, key) == CHOOSE i \in DOMAIN slots :
  slots[i].key = key /\ \A j \in 1..(i - 1) : slots[j].key # key

Found(slots, key) == slots[Position(slots, key)]

\* Faulty variant: the slot is copied to the front.
TouchCopies(slots, key) == <<Found(slots, key)>> \o slots

\* get of a key that is there: its first slot moves to the front.
Touch(slots, key) == <<Found(slots, key)>> \o RemoveAt(slots, Position(slots, key))

\* Faulty variant: eviction stops after one slot.
InsertEvictsOne(slots, slot, capacity, pinned) ==
  LET full == Len(slots) + 1 > capacity
      free == {i \in DOMAIN slots : slots[i].id \notin pinned}
  IN <<slot>> \o (IF full /\ free # {}
                  THEN RemoveAt(slots, CHOOSE i \in free : \A j \in free : j <= i) ELSE slots)

\* A slot that is pinned stays, and so does every slot once there is room.
Evict(slots, i, capacity, pinned) ==
  IF Len(slots) + 1 > capacity /\ slots[i].id \notin pinned THEN RemoveAt(slots, i) ELSE slots

\* insert: one pass from the back; left[k] are the slots after k of them have
\* been looked at.
Insert(slots, slot, capacity, pinned) ==
  LET n == Len(slots)
      left[k \in 0..n] == IF k = 0 THEN slots ELSE Evict(left[k - 1], n - k + 1, capacity, pinned)
  IN <<slot>> \o left[n]
=============================================================================

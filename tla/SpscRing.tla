------------------------------ MODULE SpscRing ------------------------------
(***************************************************************************)
(* collections/spsc_ring.rs: a circular buffer of N bytes, one slot of     *)
(* which is always empty.  A ring is a record of the three fields of the   *)
(* Rust struct; the operations are functions from rings to rings.          *)
(***************************************************************************)
EXTENDS Integers, Sequences

CONSTANTS
  N,      \* the const parameter of SpscRing
  Blank   \* what the array is initialised with

ASSUME RingAssumption == N \in Nat \ {0}

Index == 0..(N - 1)

NewRing == [buf |-> [i \in Index |-> Blank], head |-> 0, tail |-> 0]

IsEmpty(r) == r.head = r.tail

Available(r) == (r.tail + N - r.head - 1) % N

Least(m, n) == IF m <= n THEN m ELSE n

(* The number of bytes push_slice(data) copies. *)
Pushed(r, data) == Least(Len(data), Available(r))

(* Faulty variant: the copy does not wrap around. *)
PushSliceNoWrap(r, data) ==
  LET n == Pushed(r, data) IN
    [r EXCEPT !.buf = [i \in Index |-> IF i >= r.head /\ i < r.head + n
                                       THEN data[i - r.head + 1] ELSE @[i]],
              !.head = (r.head + n) % N]

(* The ring after push_slice: slot head + k, counted around the end of the *)
(* array, holds byte k of the slice.                                       *)
PushSlice(r, data) ==
  LET n == Pushed(r, data)
      Offset(i) == IF i >= r.head THEN i - r.head ELSE i + N - r.head
  IN  [buf  |-> [i \in Index |-> IF Offset(i) < n THEN data[Offset(i) + 1] ELSE r.buf[i]],
       head |-> (r.head + n) % N,
       tail |-> r.tail]

(* The number of bytes in the ring. *)
Count(r) == (r.head + N - r.tail) % N

(* What the ring holds, oldest first. *)
Contents(r) == [i \in 1..Count(r) |-> r.buf[(r.tail + i - 1) % N]]

(* n turns of pop, n at most Count(r): the bytes, and the ring without     *)
(* them.                                                                   *)
PopBytes(r, n) == SubSeq(Contents(r), 1, n)
PopRing(r, n)  == [buf |-> r.buf, head |-> r.head, tail |-> (r.tail + n) % N]

=============================================================================

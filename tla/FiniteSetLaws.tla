--------------------------- MODULE FiniteSetLaws ----------------------------
(***************************************************************************)
(* What the proofs use of finite sets and of the order of the natural      *)
(* numbers.  A lemma that counts has CountingLaws among its hypotheses;    *)
(* the proof of the component's theorems derives it from the theorems of   *)
(* the library.                                                            *)
(***************************************************************************)
EXTENDS Integers, FiniteSets

\* A nonempty set of natural numbers has a least element.
LeastElement == \A S \in SUBSET Nat : S # {} => \E x \in S : \A y \in S : x <= y

\* The size of a finite set is a number, zero exactly for the empty set.
CardinalityNat == \A S : IsFiniteSet(S) => Cardinality(S) \in Nat
CardinalityZero ==
  /\ IsFiniteSet({}) /\ Cardinality({}) = 0
  /\ \A S : IsFiniteSet(S) => (Cardinality(S) = 0 <=> S = {})

\* An element more, and one less.
CardinalityAdd ==
  \A S, x : IsFiniteSet(S) =>
    /\ IsFiniteSet(S \cup {x})
    /\ Cardinality(S \cup {x}) = IF x \in S THEN Cardinality(S) ELSE Cardinality(S) + 1
CardinalityRemove ==
  \A S, x : IsFiniteSet(S) =>
    /\ IsFiniteSet(S \ {x})
    /\ Cardinality(S \ {x}) = IF x \in S THEN Cardinality(S) - 1 ELSE Cardinality(S)

\* Parts and unions of finite sets, and intervals.
CardinalitySubset ==
  \A S : \A T \in SUBSET S : IsFiniteSet(S) => IsFiniteSet(T) /\ Cardinality(T) <= Cardinality(S)
FiniteUnion == \A S, T : IsFiniteSet(S) /\ IsFiniteSet(T) => IsFiniteSet(S \cup T)
CardinalityInterval ==
  \A a, b \in Int : IsFiniteSet(a..b) /\ Cardinality(a..b) = IF a > b THEN 0 ELSE b - a + 1

\* A one-to-one function into a finite set, and the image of a finite set.
CardinalityInto ==
  \A S, T : \A f \in [S -> T] : IsFiniteSet(T) /\ (\A x, y \in S : f[x] = f[y] => x = y) =>
    IsFiniteSet(S) /\ Cardinality(S) <= Cardinality(T)
CardinalityOnto ==
  \A S, T : \A f \in [S -> T] : IsFiniteSet(S) /\ (\A y \in T : \E x \in S : f[x] = y) =>
    IsFiniteSet(T) /\ Cardinality(T) <= Cardinality(S)

CountingLaws ==
  /\ LeastElement
  /\ CardinalityNat /\ CardinalityZero
  /\ CardinalityAdd /\ CardinalityRemove
  /\ CardinalitySubset /\ FiniteUnion /\ CardinalityInterval
  /\ CardinalityInto /\ CardinalityOnto
=============================================================================

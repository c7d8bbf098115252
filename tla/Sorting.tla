------------------------------ MODULE Sorting ------------------------------
(* Python's sorted, where the elements are few and the order is total. *)
EXTENDS Naturals, FiniteSets

(* An element stands behind as many as come before it. *)
SortedBy(S, Before(_, _)) ==
  [n \in 1..Cardinality(S) |-> CHOOSE x \in S : Cardinality({y \in S : Before(y, x)}) = n - 1]

(* The elements a sequence has at some of its places, in order. *)
At(seq, places) ==
  LET Before(i, j) == i < j
      order == SortedBy(places, Before)
  IN  [n \in DOMAIN order |-> seq[order[n]]]

(* The places where an element comes first. *)
Firsts(seq) == {i \in DOMAIN seq : \A j \in 1..(i - 1) : seq[j] # seq[i]}
=============================================================================

------------------------------ MODULE Filters -------------------------------
(***************************************************************************)
(* A list comprehension with a filter, as the adapter drops aborted        *)
(* requests and the executor the tokens that are not output, and the rows  *)
(* of a batch that pass one, in the order of their numbers.                *)
(***************************************************************************)
EXTENDS Naturals, Sequences, FiniteSets

(* s without the elements in X, in their order: the k-th of what is kept   *)
(* is the one with k - 1 kept before it.                                   *)
Without(s, X) ==
    LET kept == {i \in DOMAIN s : s[i] \notin X}
        Place(k) == CHOOSE i \in kept : Cardinality({j \in kept : j < i}) = k - 1
    IN  [k \in 1 .. Cardinality(kept) |-> s[Place(k)]]

(* The numbers in S, smallest first.                                       *)
InOrder(S) ==
    [k \in 1 .. Cardinality(S) |-> CHOOSE i \in S : Cardinality({j \in S : j < i}) = k - 1]
=============================================================================

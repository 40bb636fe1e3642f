---------------------------- MODULE Collections -----------------------------
(***************************************************************************)
(* Listing a set in an order, and keeping part of a sequence.  The order   *)
(* and the part kept are sets rather than operators, so that what holds of *)
(* every order and every part is stated once (CollectionsProofs).          *)
(***************************************************************************)
EXTENDS Integers, Sequences, FiniteSets, Functions

\* The n-th element of S in the strict total order `before`, a set of pairs.
NthOf(S, before, n) ==
    CHOOSE x \in S : Cardinality({y \in S : <<y, x>> \in before}) = n - 1

Ranked(S, before) == [n \in 1..Cardinality(S) |-> NthOf(S, before, n)]

\* A set of numbers, smallest first.
Ascending(S) == Ranked(S, {p \in S \X S : p[1] < p[2]})

\* The entries of the sequence s at the indices in K, in their order.
KeepAt(s, K) == [n \in 1..Cardinality(K) |-> s[Ascending(K)[n]]]
=============================================================================

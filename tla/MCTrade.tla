------------------------------- MODULE MCTrade -------------------------------
(* Instances of Trade for TLC.                                             *)
EXTENDS Trade, TLC
CONSTANTS p1, p2, p3, i1, i2

Symmetric == Permutations(Players) \cup Permutations(Items)

\* Bounds: at most one item is bound, at most one player is away.
Few == Cardinality(bound) <= 1 /\ Cardinality(Players \ world) <= 1
=============================================================================

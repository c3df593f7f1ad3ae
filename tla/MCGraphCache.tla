---------------------------- MODULE MCGraphCache ----------------------------
(* Two server threads, three argument lists, room for two responses.       *)
EXTENDS GraphCache, TLC

CONSTANTS r1, r2, k1, k2, k3

TwoReaders == {r1, r2}
ThreeKeys == {k1, k2, k3}
SmallSizes == {1, 2, 4}
Symmetry == Permutations(TwoReaders) \cup Permutations(ThreeKeys)
=============================================================================

---------------------------- MODULE MCCategories ----------------------------
(* Small instances of Categories for TLC.                                  *)
EXTENDS Categories, TLC

CONSTANTS w1, w2, w3, r1, n1, n2, s1, s2

Symmetry == Permutations(Writers) \cup Permutations(Names) \cup Permutations(Subnames)
=============================================================================

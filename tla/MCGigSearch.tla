----------------------------- MODULE MCGigSearch -----------------------------
(* Small instances of GigSearch for TLC.                                   *)
EXTENDS GigSearch, TLC

CONSTANTS g1, g2, g3

Symmetry == Permutations(Gigs)
=============================================================================

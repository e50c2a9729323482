---------------------------- MODULE MCGigListing ----------------------------
(* Small instances of GigListing for TLC.                                  *)
EXTENDS GigListing

CONSTANTS g1, g2, u1, u2
=============================================================================

------------------------------ MODULE GigIndex ------------------------------
(***************************************************************************)
(* The gig index of Elasticsearch, as those who write it (module           *)
(* GigListing) and those who search it (module GigSearch) share it.        *)
(***************************************************************************)
EXTENDS FiniteSets

CONSTANTS Gigs     \* gigs that may be created

ASSUME GigsAssumption == IsFiniteSet(Gigs)

VARIABLES visible  \* gigs searches and counts see
=============================================================================

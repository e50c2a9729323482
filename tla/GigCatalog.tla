----------------------------- MODULE GigCatalog -----------------------------
(***************************************************************************)
(* What searches can rely on about the gigs Elasticsearch shows: a gig     *)
(* keeps the sort number it was stored with, the number exceeds the gigs   *)
(* shown by one at most (several gigs may have the same), and a gig that   *)
(* was shown stays.  Module GigListing implements this; GigSearch reads it.*)
(***************************************************************************)
EXTENDS Naturals, FiniteSets

CONSTANTS Gigs

VARIABLES number,   \* sortId of each gig, 0 until the gig is stored
          visible   \* gigs searches see

Stored == {g \in Gigs : number[g] > 0}

Init == number = [g \in Gigs |-> 0] /\ visible = {}

Store(g) == /\ number[g] = 0
            /\ \E n \in 1..(Cardinality(visible) + 1) : number' = [number EXCEPT ![g] = n]
            /\ UNCHANGED visible

Show == /\ \E S \in (SUBSET Stored) \ {visible} : visible \subseteq S /\ visible' = S
        /\ UNCHANGED number

Next == Show \/ \E g \in Gigs : Store(g)

Spec == Init /\ [][Next]_<<number, visible>>
=============================================================================

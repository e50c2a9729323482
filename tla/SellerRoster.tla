---------------------------- MODULE SellerRoster ----------------------------
(***************************************************************************)
(* Who is a seller, without calls, races or failures: a user becomes one   *)
(* once, after the user service has a copy of him, and stays one.  Module  *)
(* SellerJobs implements this; it is all that GigListing relies on.        *)
(***************************************************************************)
CONSTANTS Users

VARIABLES docs,     \* users the user service has a copy of
          sellers   \* users that have a Seller document

Init == docs = {} /\ sellers = {}

Arrive(u) == /\ u \in Users \ docs
             /\ docs' = docs \cup {u}
             /\ UNCHANGED sellers

Open(u) == /\ u \in docs \ sellers
           /\ sellers' = sellers \cup {u}
           /\ UNCHANGED docs

Next == \E u \in Users : Arrive(u) \/ Open(u)

Spec == Init /\ [][Next]_<<docs, sellers>>
=============================================================================

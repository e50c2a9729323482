----------------------------- MODULE MCGigDesk -----------------------------
(* Small instances of GigDesk for TLC.                                     *)
EXTENDS GigDesk, TLC

CONSTANTS g1, g2, r1, r2, r3, e1, u1

(* Two of the best and one that spoils the average. *)
FiveFiveFour == (r1 :> 5 @@ r2 :> 5 @@ r3 :> 4)
=============================================================================

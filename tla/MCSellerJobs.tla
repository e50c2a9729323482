---------------------------- MODULE MCSellerJobs ----------------------------
(* Small instances of SellerJobs for TLC.                                  *)
EXTENDS SellerJobs

CONSTANTS c1, c2, u1, u2, o1, o2

OfOneSeller == [o \in {o1} |-> u1]

(* The calls are alike: which of them has the good form does not matter.   *)
OneFilled == c1 \in filled
=============================================================================

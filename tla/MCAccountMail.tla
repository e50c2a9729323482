---------------------------- MODULE MCAccountMail ----------------------------
(* Small instances of AccountMail for TLC.                                 *)
EXTENDS AccountMail

CONSTANTS c1, c2, c3

(* Which of the calls does what is immaterial: one order stands for all.   *)
Rank(c) == CASE op[c] = "verify" -> 1
             [] op[c] = "resend" -> 2
             [] op[c] = "forgot" -> 3
             [] op[c] = "reset"  -> 4
             [] op[c] = "redeem" -> 5

OrderedInit == Init /\ Rank(c1) <= Rank(c2) /\ Rank(c2) <= Rank(c3)

OrderedSpec == OrderedInit /\ [][Next]_vars /\ Fairness
=============================================================================

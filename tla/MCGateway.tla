----------------------------- MODULE MCGateway -----------------------------
(* Small instances of Gateway for TLC.                                     *)
EXTENDS Gateway

CONSTANTS q1, q2, a1, w1, w2

(* Two requests depend on one another through the row and the cookie only. *)
(* Both take one of the routes that set a password or judge one, or one    *)
(* takes any route and the other signs up meanwhile.  The other has no     *)
(* picture and a cookie that is a token, if any.                           *)
Rivals == {"createUser", "loginUser", "resetPassword"}

RivalOnly == q2 \in Requests =>
    /\ route'[q2] \in IF route'[q1] \in Rivals \cup {"none"} THEN Rivals \cup {"none"}
                      ELSE {"createUser", "none"}
    /\ ~body'[q2].picture
    /\ who'[q2] # Garbled
=============================================================================

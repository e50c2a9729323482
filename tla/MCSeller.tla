------------------------------ MODULE MCSeller ------------------------------
(* Small instances of Seller for TLC.                                      *)
EXTENDS Seller, TLC

CONSTANTS c1, c2, c3, u1, u2

(* Sign-up is over before anybody asks to be a seller. *)
SignedUpInit == /\ caller \in [Calls -> Users]
                /\ filled \in SUBSET Calls
                /\ pc = [c \in Calls |-> "idle"]
                /\ reply = [c \in Calls |-> {}]
                /\ docs = Users
                /\ buyers = {[user |-> u, isSeller |-> FALSE] : u \in Users}
                /\ sellers = {}
                /\ faults = 0

SignedUpSpec == SignedUpInit /\ [][Next]_vars
=============================================================================

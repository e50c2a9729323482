------------------------------ MODULE MCSignup ------------------------------
(* Small instances of Signup for TLC.                                      *)
EXTENDS Signup

CONSTANTS r1, r2, e1, e2
=============================================================================

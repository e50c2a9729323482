--------------------------- MODULE MCChatPresence ---------------------------
(* Small instances of ChatPresence for TLC.                                *)
EXTENDS ChatPresence

CONSTANTS s1, s2, s3, u1, u2
=============================================================================

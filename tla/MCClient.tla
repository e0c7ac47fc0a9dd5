------------------------------ MODULE MCClient ------------------------------
(* Small instances of Client for TLC.                                       *)
EXTENDS Client

CONSTANTS s1, s2
=============================================================================

---------------------------- MODULE MCQuicServer ----------------------------
(* Small instances of QuicServer for TLC.                                   *)
EXTENDS QuicServer

CONSTANTS c1, c2, c3
=============================================================================

---------------------------- MODULE MCStreamRead ----------------------------
(* Small instances of StreamRead for TLC.                                   *)
EXTENDS StreamRead
=============================================================================

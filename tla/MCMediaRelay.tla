---------------------------- MODULE MCMediaRelay ----------------------------
(* Small instances of MediaRelay for TLC.                                   *)
EXTENDS MediaRelay

CONSTANTS v1, v2
=============================================================================

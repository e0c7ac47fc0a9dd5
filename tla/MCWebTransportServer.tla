------------------------ MODULE MCWebTransportServer ------------------------
(* A small instance of WebTransportServer for TLC.                          *)
EXTENDS WebTransportServer, TLC

CONSTANTS s1, s2, b1

\* One stream, of the second session.
MCOneStream == b1 :> s2
=============================================================================

-------------------------- MODULE MCProofVerifier --------------------------
(* A small instance of ProofVerifier for TLC.                               *)
EXTENDS ProofVerifier
=============================================================================

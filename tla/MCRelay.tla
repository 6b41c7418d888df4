------------------------------ MODULE MCRelay ------------------------------
(* Relay for TLC. *)
EXTENDS Relay

CONSTANTS p1, p2
=============================================================================

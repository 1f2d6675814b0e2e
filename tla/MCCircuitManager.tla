-------------------------- MODULE MCCircuitManager --------------------------
(***************************************************************************)
(* An instance of CircuitManager for TLC: two peers and one cookie.        *)
(***************************************************************************)
EXTENDS CircuitManager

CONSTANTS p, q, k1
=============================================================================

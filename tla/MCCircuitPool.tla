---------------------------- MODULE MCCircuitPool ---------------------------
(***************************************************************************)
(* An instance of CircuitPool for TLC: two fetches.                        *)
(***************************************************************************)
EXTENDS CircuitPool

CONSTANTS f1, f2
=============================================================================

---------------------------- MODULE MCExitStreams ---------------------------
(***************************************************************************)
(* An instance of ExitStreams for TLC: two streams of one circuit.         *)
(***************************************************************************)
EXTENDS ExitStreams

CONSTANTS p1

MCOpens == {<<p1, 7, 1>>, <<p1, 7, 2>>}
=============================================================================

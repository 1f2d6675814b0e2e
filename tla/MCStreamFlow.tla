---------------------------- MODULE MCStreamFlow ----------------------------
(***************************************************************************)
(* An instance of StreamFlow for TLC: one long download.                   *)
(***************************************************************************)
EXTENDS StreamFlow

MCLongUp   == [s \in Streams |-> 2]
MCLongDown == [s \in Streams |-> 4]
=============================================================================

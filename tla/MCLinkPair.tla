----------------------------- MODULE MCLinkPair -----------------------------
(***************************************************************************)
(* An instance of LinkPair for TLC: one link, and a probe of it.           *)
(***************************************************************************)
EXTENDS LinkPair

CONSTANTS a, b, c1, c2

\* One node opens the link and the other probes its end of it.
MCDialler == [c \in Conn |-> IF c = c1 THEN a ELSE b]
=============================================================================

---------------------------- MODULE MCLinkWriter ----------------------------
(***************************************************************************)
(* Instances of LinkWriter for TLC: control senders are numbers above the  *)
(* circuit ids, so that a message's source is a number either way.         *)
(***************************************************************************)
EXTENDS LinkWriter

MCSenders == {11, 12}

\* One of them sends a message of up to two cells, the other of one.
MCCells == [s \in Senders |-> IF s = 11 THEN 2 ELSE 1]

\* Circuit 1 floods while circuit 2 has one cell to send.
MCPush == [c \in Circuits |-> IF c = 1 THEN 2 ELSE 1]
=============================================================================

------------------------------- MODULE MCLinks -------------------------------
(***************************************************************************)
(* What two linked nodes do, checked part by part: the writer task and its *)
(* queues (LinkWriter, CellQueues), the life of a connection at both ends  *)
(* (LinkPair), the rotation of a certificate over it (CertRotation), the   *)
(* descriptors gossiped over it (Descriptors) and the layers of the cells  *)
(* it carries (OnionLayers).  A behaviour is one of the part chosen at its *)
(* start; the other parts rest where they begin.                           *)
(***************************************************************************)
EXTENDS LinkWriter, LinkPair, CertRotation, Descriptors, OnionLayers, TLC

VARIABLE part
linksVars == <<part, linkVars, pairVars, certVars, descVars, onionVars>>

CONSTANTS a, b, c1, c2, d1, d2, d3

-----------------------------------------------------------------------------
(* LinkWriter: control senders are numbers above the circuit ids. *)
MCSenders == {11, 12}
MCCells == [s \in Senders |-> IF s = 11 THEN 2 ELSE 1]
\* Circuit 1 floods while circuit 2 has two cells to send.
MCPush == [c \in Circuits |-> IF c = 1 THEN 3 ELSE 2]
\* LinkPair: the two nodes dial each other at the same time.
MCDialler == (c1 :> a) @@ (c2 :> b)
\* Descriptors: everybody is linked to everybody.
MCEdge == {e \in SUBSET Describer : Cardinality(e) = 2}

LinksInit ==
    /\ part \in {"flood", "writer", "pair", "cert", "desc", "onion"}
    /\ Init /\ PairInit /\ CertInit /\ DescInit /\ OnionInit
    /\ part = "pair" \/ credible = End
    /\ part = "cert" \/ cert = CHOOSE c \in Certs : TRUE
    /\ part = "desc" \/ file = [n \in Describer |-> NoFile]

\* Two circuits' cells with scores decaying; and control messages beside the cells
\* of one circuit.
FloodNext ==
    /\ part = "flood" /\ Next /\ \A s \in Senders : begun'[s] = 0
    /\ UNCHANGED <<part, pairVars, certVars, descVars, onionVars>>
WriterNext ==
    /\ part = "writer" /\ Next /\ weight' = weight /\ pushed'[1] <= 2 /\ pushed'[2] = 0
    /\ UNCHANGED <<part, pairVars, certVars, descVars, onionVars>>
LinkPairNext == part = "pair" /\ PairNext /\ UNCHANGED <<part, linkVars, certVars, descVars, onionVars>>
RotationNext == part = "cert" /\ CertNext /\ UNCHANGED <<part, linkVars, pairVars, descVars, onionVars>>
GossipNext == part = "desc" /\ DescNext /\ UNCHANGED <<part, linkVars, pairVars, certVars, onionVars>>
LayersNext == part = "onion" /\ OnionNext /\ UNCHANGED <<part, linkVars, pairVars, certVars, descVars>>
LinksNext == FloodNext \/ WriterNext \/ LinkPairNext \/ RotationNext \/ GossipNext \/ LayersNext

\* Fairness of LinkWriter and PairFairness, for the part that runs.
LinksFairness ==
    /\ WF_linkVars(/\ part \in {"flood", "writer"} /\ NotifyOne
                   /\ UNCHANGED <<taskVars, rx, wpc, sendNonce, wire, farVars>>)
    /\ \A s \in Senders : /\ WF_linkVars(part \in {"flood", "writer"} /\ SealCell(s))
                          /\ WF_linkVars(part \in {"flood", "writer"} /\ Enqueue(s))
    /\ WF_linkVars(part \in {"flood", "writer"} /\ WriterStep)
    /\ WF_linkVars(part \in {"flood", "writer"} /\ ReadCell)
    /\ \A c \in Conn : /\ WF_pairVars(part = "pair" /\ Progress(c))
                        /\ \A n \in End : WF_pairVars(part = "pair" /\ HandshakeFails(c, n))
    /\ WF_pairVars(part = "pair" /\ PairTick)
    /\ \A n \in End : WF_pairVars(part = "pair" /\ Reap(n))
LinksSpec == LinksInit /\ [][LinksNext]_linksVars /\ LinksFairness

\* The type invariant of the part that runs.
LinksTypeOK ==
    /\ part \in {"flood", "writer"} => TypeOK
    /\ part = "pair" => PairTypeOK
    /\ part = "cert" => CertTypeOK
    /\ part = "desc" => DescTypeOK
    /\ part = "onion" => OnionTypeOK
=============================================================================

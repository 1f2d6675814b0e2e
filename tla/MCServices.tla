----------------------------- MODULE MCServices -----------------------------
(***************************************************************************)
(* What nodes do for one another over the network, checked part by part:   *)
(* keeping links (PeerRegistry), publishing a hidden service (Publication) *)
(* and serving it (Rendezvous), fetching a consensus (ConsensusFetch) and  *)
(* passing messages (Messaging).  A behaviour is one of the part chosen at *)
(* its start; the other parts rest where they begin.                       *)
(***************************************************************************)
EXTENDS PeerRegistry, Publication, ConsensusFetch, Messaging, Rendezvous, TLC

VARIABLE part
servicesVars == <<part, vars, pubVars, fetchLoopVars, comVars, rdvVars>>

CONSTANTS a, b, z, c1, c2, c3, u1, u2, f1

-----------------------------------------------------------------------------
\* ConsensusFetch: two sources.
MCUrls == <<u1, u2>>
\* Messaging: b is between the two others, and a was given z's address.
MCEdge == {{a, b}, {b, z}}
MCAddress == {<<a, z>>}

ServicesInit ==
    /\ part \in {"registry", "publication", "clients", "fetch", "com", "groups", "rendezvous", "faults"}
    /\ Init /\ PubInit /\ FetchInit /\ ComInit /\ RdvInit
    /\ part = "publication" \/ ring = Dir
    /\ part = "fetch" \/ site = [u \in Site |-> "down"]

RegistryNext ==
    part = "registry" /\ Next /\ UNCHANGED <<part, pubVars, fetchLoopVars, comVars, rdvVars>>
\* A public service with links and a ring that move and a client that looks it up;
\* and one whose operator edits the list of authorized clients, on a ring that stays.
PublicationNext ==
    /\ part = "publication" /\ PubNext /\ goal' = 0
    /\ UNCHANGED <<part, vars, fetchLoopVars, comVars, rdvVars>>
AuthorizationNext ==
    /\ part = "clients" /\ PubNext /\ ring' = ring /\ links' = links /\ asked' = asked
    /\ UNCHANGED <<part, vars, fetchLoopVars, comVars, rdvVars>>
RefreshNext ==
    part = "fetch" /\ FetchNext /\ UNCHANGED <<part, vars, pubVars, comVars, rdvVars>>
\* Messages between two users over links and processes that come and go, and a
\* group's messages, within a tick, over links that stay.
MessagesNext ==
    /\ part = "com" /\ ComNext /\ \A n \in User, g \in Group : com'[n].groups[g] = NoGroup
    /\ UNCHANGED <<part, vars, pubVars, fetchLoopVars, rdvVars>>
GroupsNext ==
    /\ part = "groups" /\ ComNext /\ comFaults' = 0 /\ comNow' = 0
    /\ UNCHANGED <<part, vars, pubVars, fetchLoopVars, rdvVars>>
\* Two fetches on a network that holds; and one on a network that may not.
RendezvousNext ==
    /\ part = "rendezvous" /\ RdvNext /\ rdvFaults' = 0
    /\ UNCHANGED <<part, vars, pubVars, fetchLoopVars, comVars>>
FaultsNext ==
    /\ part = "faults" /\ RdvNext /\ \A f \in Fetch \ {f1} : fetch'[f] = "idle"
    /\ UNCHANGED <<part, vars, pubVars, fetchLoopVars, comVars>>
ServicesNext == RegistryNext \/ PublicationNext \/ AuthorizationNext \/ RefreshNext \/ MessagesNext
                \/ GroupsNext \/ RendezvousNext \/ FaultsNext

\* The fairness of each module, for the part that runs.
ServicesFairness ==
    /\ \A n, m \in Nodes :
         /\ WF_vars(part = "registry" /\ Reap(n, m))
         /\ WF_vars(part = "registry" /\ \E k \in Conns : Dial(n, m, k))
         /\ \A k \in Conns :
              /\ WF_vars(part = "registry" /\ CheckDuplicate(n, m, k))
              /\ WF_vars(part = "registry" /\ Register(n, m, k))
              /\ WF_vars(part = "registry" /\ ReadClosed(n, m, k))
              /\ WF_vars(part = "registry" /\ WriteFails(n, m, k))
    /\ WF_pubVars(part \in {"publication", "clients"} /\ Republish)
    /\ WF_pubVars(part \in {"publication", "clients"} /\ ListWritten)
    /\ WF_pubVars(part \in {"publication", "clients"} /\ RecvSomeRegister)
    /\ SF_pubVars(part \in {"publication", "clients"} /\ PubTick)
    /\ WF_fetchLoopVars(part = "fetch" /\ FetchLoopStep)
    /\ \A n, m \in User : /\ WF_comVars(part \in {"com", "groups"} /\ Deliver(n, m))
                           /\ WF_comVars(part \in {"com", "groups"} /\ Pull(n, m))
    /\ \A n \in User : WF_comVars(part \in {"com", "groups"} /\ Sweep(n))
    /\ \A e \in Edge : WF_comVars(part \in {"com", "groups"} /\ LinkComesUp(e))
    /\ \A f \in Fetch : WF_rdvVars(part = "rendezvous" /\ FetchStep(f))
    /\ WF_rdvVars(part = "faults" /\ FetchStep(f1))
ServicesSpec == ServicesInit /\ [][ServicesNext]_servicesVars /\ ServicesFairness

\* The type invariant of the part that runs.
ServicesTypeOK ==
    /\ part = "registry" => TypeOK
    /\ part \in {"publication", "clients"} => PubTypeOK
    /\ part = "fetch" => FetchTypeOK
    /\ part \in {"com", "groups"} => ComTypeOK
    /\ part \in {"rendezvous", "faults"} => RdvTypeOK
=============================================================================

---------------------------- MODULE OnionLayers ----------------------------
(***************************************************************************)
(* The layers of a circuit (circuit.rs, ntor.rs) and the end-to-end layer  *)
(* inside them (rendezvous.rs): what the two copies of each hop's keys,    *)
(* counters and running digests go through while a client builds a circuit *)
(* to a rendezvous point, a service with a circuit of one hop meets it     *)
(* there, and the two talk.  A keystream is a symbol and encrypting is the *)
(* exclusive or: laying <<key, counter>> over a payload twice takes it     *)
(* away.  A running digest is the sequence of what was hashed, its seed    *)
(* first.  Links are ordered (OrderedLink).                                *)
(***************************************************************************)
EXTENDS Integers, FiniteSets, SequencesExt, FiniteSetsExt

CONSTANTS PathLen,     \* relays on the client's circuit; the last is the rendezvous point
          MaxPadding,  \* cells the client's padding pump sends
          MaxRequests  \* cells the client sends end to end

ASSUME OnionAssumption ==
    PathLen \in Nat \ {0} /\ MaxPadding \in Nat /\ MaxRequests \in Nat

VARIABLES
    origin,    \* the client's and the service's OriginCircuit
    relays,    \* the relays' tables, by the leg a circuit arrives on
    forward,   \* cells on each leg, away from its origin
    backward,  \* cells on each leg, towards its origin
    held,      \* what a task has encrypted and not yet queued
    cookie,    \* the point's rendezvous_cookies: "none", "held" or "used"
    bridged,   \* the point's rendezvous_bridges
    fetching,  \* how far the client's fetch has come
    meeting,   \* the client's pending_rendezvous: its ephemeral, or None
    intro,     \* the client's ephemeral in the INTRODUCE2 the service opened
    rendezvousing, \* how far the service's drain loop has come with it
    padded, asked,
    excuses,   \* why an end may see cells it does not recognise
    lost       \* some cell was not recognised where it ended

onionVars == <<origin, relays, forward, backward, held, cookie, bridged, fetching,
               meeting, intro, rendezvousing, padded, asked, excuses, lost>>

OriginEnd == {"client", "service"}
Hops(e) == IF e = "client" THEN PathLen ELSE 1
Leg == UNION {{<<e, i>> : i \in 1..Hops(e)} : e \in OriginEnd}
Client == <<"client", 1>>         \* the client's first leg
Point == <<"client", PathLen>>    \* the client's leg at the point
Meet == <<"service", 1>>          \* the service's leg there
\* Tasks that queue on a leg another task queues on as well.
FromClient == {"fetch", "pump"}
AtPoint == {"clientReader", "serviceReader"}
OnionTask == FromClient \union AtPoint
LinkSpecs == {"right", "old key", "unreachable"}
NoKey == <<>>

-----------------------------------------------------------------------------
(* Keys, layers and digests. *)

\* What both ends derive from the two ephemerals and the server's static key:
\* one pair of keys, and one pair of digest seeds, per handshake.
NtorKeys(x, y) == [forward |-> <<x, y, "forward">>, backward |-> <<x, y, "backward">>]
E2EKeys(x, y) == [c2h |-> <<x, y, "c2h">>, h2c |-> <<x, y, "h2c">>]

HopState(fk, bk) == [fk |-> fk, bk |-> bk, fn |-> 0, bn |-> 0, fd |-> <<fk>>, bd |-> <<bk>>]
from_ntor(k) == HopState(k.forward, k.backward)
\* Each end's forward is what it sends.
from_e2e_keys(k, is_client) ==
    IF is_client THEN HopState(k.c2h, k.h2c) ELSE HopState(k.h2c, k.c2h)

\* A server answers the client that addressed it by its present key; the client
\* takes the answer to the handshake it has pending.
Answers(msg) == msg.to = "right"
Auth(x, y) == <<x, y>>
AuthHolds(x, reply) == reply.auth = Auth(x, reply.y)

\* Both directions of ChaCha20.
Crypt(p, streams) == [p EXCEPT !.layers = (@ \ streams) \union (streams \ @)]
\* Recognised: nothing left to peel, and the digest of all cells so far and this one.
IsRecognizedAt(p, running) == p.layers = {} /\ p.digest = Append(running, p.cell)
StampDigest(cell, running) ==
    [kind |-> "relay", cell |-> cell, digest |-> Append(running, cell), layers |-> {}]

\* The hops of a circuit and, inside them, the end-to-end layer.
Layers(oc) == oc.hops \o oc.e2e
WithLayers(oc, ls) ==
    [oc EXCEPT !.hops = SubSeq(ls, 1, Len(oc.hops)), !.e2e = SubSeq(ls, Len(oc.hops) + 1, Len(ls))]

\* encrypt_outbound to the last hop, as every caller asks: the digest is that of
\* the innermost layer.
Outbound(oc, cell) ==
    Crypt(StampDigest(cell, Last(Layers(oc)).fd),
          {<<l.fk, l.fn>> : l \in ToSet(Layers(oc))})
AfterOutbound(oc, cell) ==
    LET ls == Layers(oc) IN
    WithLayers(oc, [i \in DOMAIN ls |->
        [ls[i] EXCEPT !.fn = @ + 1, !.fd = IF i = Len(ls) THEN Append(@, cell) ELSE @]])

\* decrypt_inbound peels hop by hop until one recognises the cell.
Peeled(ls, p, i) == Crypt(p, {<<ls[j].bk, ls[j].bn>> : j \in 1..i})
RecognisedBy(oc, p) ==
    LET ls == Layers(oc) IN {i \in DOMAIN ls : IsRecognizedAt(Peeled(ls, p, i), ls[i].bd)}
\* Mutant: a cell no hop recognised is peeled again from the first hop for the
\* end-to-end layer.
AfterInbound_twice(oc, p) ==
    LET ls == Layers(oc)
        at == RecognisedBy(oc, p)
        last == IF at = {} THEN Len(ls) ELSE Min(at)
    IN WithLayers(oc, [i \in DOMAIN ls |->
           [ls[i] EXCEPT !.bn = IF i <= Len(oc.hops) /\ last > Len(oc.hops) THEN @ + 2
                                ELSE IF i <= last THEN @ + 1 ELSE @,
                         !.bd = IF i \in at /\ i = last THEN Append(@, p.cell) ELSE @]])
AfterInbound(oc, p) ==
    LET ls == Layers(oc)
        at == RecognisedBy(oc, p)
        last == IF at = {} THEN Len(ls) ELSE Min(at)
    IN WithLayers(oc, [i \in DOMAIN ls |->
           [ls[i] EXCEPT !.bn = IF i <= last THEN @ + 1 ELSE @,
                         !.bd = IF i \in at /\ i = last THEN Append(@, p.cell) ELSE @]])

\* What a relay says itself, towards the origin; and what it passes on.
Backward(hop, cell) == Crypt(StampDigest(cell, hop.bd), {<<hop.bk, hop.bn>>})
AfterBackward(hop, cell) == [hop EXCEPT !.bn = @ + 1, !.bd = Append(@, cell)]
Wrapped(hop, p) == Crypt(p, {<<hop.bk, hop.bn>>})

-----------------------------------------------------------------------------
NoLayers == [hops |-> <<>>, e2e |-> <<>>, pending |-> NoKey]

OnionInit ==
    /\ origin = [e \in OriginEnd |-> NoLayers]
    /\ relays = <<>>
    /\ forward = [l \in Leg |-> <<>>] /\ backward = [l \in Leg |-> <<>>]
    /\ held = [t \in OnionTask |-> <<>>]
    /\ cookie = "none" /\ bridged = FALSE
    /\ fetching = "start" /\ meeting = NoKey /\ intro = NoKey /\ rendezvousing = "idle"
    /\ padded = 0 /\ asked = 0 /\ excuses = {} /\ lost = FALSE

tables == <<cookie, bridged>>
ends == <<fetching, meeting, intro, rendezvousing, padded, asked>>
ghosts == <<excuses, lost>>

On(path, leg, cell) == [path EXCEPT ![leg] = Append(@, cell)]
Off(path, leg) == [path EXCEPT ![leg] = Tail(@)]
CellArrives(path, leg, kind) == path[leg] # <<>> /\ Head(path[leg]).kind = kind
Free(t) == held[t] = <<>>
\* A task encrypts under the lock, and queues after it: turn is its place in the
\* order of encrypting.
Holds(t, cell, turn) == held' = [held EXCEPT ![t] = <<[cell |-> cell, turn |-> turn]>>]
ClientSeals(t, cell) ==
    /\ Free(t) /\ origin["client"].hops # <<>>
    /\ Holds(t, Outbound(origin["client"], cell), origin["client"].hops[1].fn)
    /\ origin' = [origin EXCEPT !["client"] = AfterOutbound(@, cell)]

\* send_circuit_cell.
Queued(t) ==
    /\ ~Free(t)
    /\ LET h == held[t][1] IN
       /\ IF t \in FromClient
          THEN forward' = On(forward, Client, h.cell) /\ UNCHANGED backward
          ELSE backward' = On(backward, Point, h.cell) /\ UNCHANGED forward
       /\ excuses' = IF \E u \in OnionTask \ {t} :
                            /\ ~Free(u) /\ (t \in FromClient) = (u \in FromClient)
                            /\ held[u][1].turn < h.turn
                     THEN excuses \union {"overtaken"} ELSE excuses
    /\ held' = [held EXCEPT ![t] = <<>>]
    /\ UNCHANGED <<origin, relays, tables, ends, lost>>

-----------------------------------------------------------------------------
(* Building: CREATE, CREATED, EXTEND2, EXTENDED2. *)

Ephemeral(e) == <<e, Len(origin[e].hops) + 1>>

StartCircuit(e) ==
    /\ IF e = "client" THEN fetching = "start" ELSE rendezvousing = "opened"
    /\ fetching' = IF e = "client" THEN "build" ELSE fetching
    /\ rendezvousing' = IF e = "service" THEN "build" ELSE rendezvousing
    /\ origin' = [origin EXCEPT ![e].pending = Ephemeral(e)]
    /\ forward' = On(forward, <<e, 1>>, [kind |-> "create", x |-> Ephemeral(e), to |-> "right"])
    /\ UNCHANGED <<relays, backward, held, tables, meeting, intro, padded, asked, ghosts>>

\* handle_create: a server that was not the one addressed answers nothing.
HandleCreate(leg) ==
    /\ CellArrives(forward, leg, "create")
    /\ LET msg == Head(forward[leg]) IN
       IF Answers(msg)
       THEN /\ relays' = [l \in DOMAIN relays \union {leg} |->
                             IF l = leg THEN [hop |-> from_ntor(NtorKeys(msg.x, leg)),
                                              next |-> FALSE, awaiting |-> FALSE]
                                        ELSE relays[l]]
            /\ backward' = On(backward, leg, [kind |-> "created", y |-> leg, auth |-> Auth(msg.x, leg)])
       ELSE UNCHANGED <<relays, backward>>
    /\ forward' = Off(forward, leg)
    /\ UNCHANGED <<origin, held, tables, ends, ghosts>>

\* client_handshake_finish with the handshake that was pending.
Finished(oc, reply) ==
    IF oc.pending # NoKey /\ AuthHolds(oc.pending, reply)
    THEN [oc EXCEPT !.hops = Append(@, from_ntor(NtorKeys(oc.pending, reply.y))), !.pending = NoKey]
    ELSE [oc EXCEPT !.pending = NoKey]

HandleCreated(e) ==
    /\ CellArrives(backward, <<e, 1>>, "created")
    /\ origin' = [origin EXCEPT ![e] = Finished(@, Head(backward[<<e, 1>>]))]
    /\ backward' = Off(backward, <<e, 1>>)
    /\ UNCHANGED <<relays, forward, held, tables, ends, ghosts>>

\* build_circuit asks for the next hop when it sees that the last one is there.
ExtendCircuit(to) ==
    LET oc == origin["client"] IN
    /\ fetching = "build" /\ oc.pending = NoKey
    /\ Len(oc.hops) \in 1..(PathLen - 1) /\ Free("fetch")
    /\ Holds("fetch", Outbound(oc, <<"extend2", Ephemeral("client"), to>>), oc.hops[1].fn)
    /\ origin' = [origin EXCEPT !["client"] =
                     [AfterOutbound(oc, <<"extend2", Ephemeral("client"), to>>)
                        EXCEPT !.pending = Ephemeral("client")]]
    /\ UNCHANGED <<relays, forward, backward, tables, ends, ghosts>>

\* handle_created_from_next.
HandleCreatedFromNext(leg) ==
    LET next == <<leg[1], leg[2] + 1>>
        reply == Head(backward[next])
        cell == <<"extended2", reply.y, reply.auth>>
    IN
    /\ leg \in DOMAIN relays /\ next \in Leg /\ CellArrives(backward, next, "created")
    /\ relays[leg].awaiting
    /\ relays' = [relays EXCEPT ![leg].awaiting = FALSE, ![leg].hop = AfterBackward(@, cell)]
    /\ backward' = On(Off(backward, next), leg, Backward(relays[leg].hop, cell))
    /\ UNCHANGED <<origin, forward, held, tables, ends, ghosts>>

-----------------------------------------------------------------------------
(* Cells at the relays: handle_forward_relay and what it leads to. *)

\* The readers at the point queue on one leg what the other queues on as well:
\* each takes its next cell when its last is queued.
ReaderOf(leg) == IF leg = Meet THEN "serviceReader" ELSE "clientReader"
ReaderFree(leg) == leg \in {Point, Meet} => Free(ReaderOf(leg))

Peel(leg) == Crypt(Head(forward[leg]), {<<relays[leg].hop.fk, relays[leg].hop.fn>>})
Comes(leg) == CellArrives(forward, leg, "relay") /\ leg \in DOMAIN relays /\ ReaderFree(leg)
ForUs(leg) == Comes(leg) /\ IsRecognizedAt(Peel(leg), relays[leg].hop.fd)
Passing(leg) == Comes(leg) /\ ~IsRecognizedAt(Peel(leg), relays[leg].hop.fd)
\* The counter moves with every cell, the digest with ours.
Ticked(hop) == [hop EXCEPT !.fn = @ + 1]
Absorbed(hop, cell) == [hop EXCEPT !.fn = @ + 1, !.fd = Append(@, cell)]

HandleExtend(leg) ==
    LET cell == Peel(leg).cell
        next == <<leg[1], leg[2] + 1>>
    IN
    /\ ForUs(leg) /\ cell[1] = "extend2" /\ ~relays[leg].next
    /\ relays' = [relays EXCEPT ![leg] = [hop |-> Absorbed(@.hop, cell), next |-> TRUE, awaiting |-> TRUE]]
    \* The dial fails, or someone else answers: the extend ends there.
    /\ forward' = IF cell[3] = "unreachable" THEN Off(forward, leg)
                  ELSE On(Off(forward, leg), next, [kind |-> "create", x |-> cell[2], to |-> cell[3]])
    /\ UNCHANGED <<origin, backward, held, tables, ends, ghosts>>

\* ESTABLISH_RENDEZVOUS: the cookie is registered, then the answer encrypted.
HandleEstablish ==
    LET cell == Peel(Point).cell
        hop == Absorbed(relays[Point].hop, cell)
        answer == <<"established", 0, 0>>
    IN
    /\ ForUs(Point) /\ cell[1] = "establish"
    /\ cookie' = "held"
    /\ Holds("clientReader", Backward(hop, answer), hop.bn)
    /\ relays' = [relays EXCEPT ![Point].hop = AfterBackward(hop, answer)]
    /\ forward' = Off(forward, Point)
    /\ UNCHANGED <<origin, backward, bridged, ends, ghosts>>

\* RENDEZVOUS1: the legs are bridged and RENDEZVOUS2 encrypted for the client.
HandleRendezvous1 ==
    LET cell == Peel(Meet).cell
        hop == relays[Point].hop
        answer == <<"rendezvous2", cell[2], cell[3]>>
    IN
    /\ ForUs(Meet) /\ cell[1] = "rendezvous1"
    /\ IF cookie = "held"
       THEN /\ cookie' = "used" /\ bridged' = TRUE
            /\ Holds("serviceReader", Backward(hop, answer), hop.bn)
            /\ relays' = [relays EXCEPT ![Meet].hop = Absorbed(@, cell),
                                        ![Point].hop = AfterBackward(@, answer)]
       ELSE /\ relays' = [relays EXCEPT ![Meet].hop = Absorbed(@, cell)]
            /\ UNCHANGED <<tables, held>>
    /\ forward' = Off(forward, Meet)
    /\ UNCHANGED <<origin, backward, ends, ghosts>>

\* A padding cell ends where it is recognised.
HandleDrop(leg) ==
    LET cell == Peel(leg).cell IN
    /\ ForUs(leg) /\ cell[1] = "drop"
    /\ relays' = [relays EXCEPT ![leg].hop = Absorbed(@, cell)]
    /\ forward' = Off(forward, leg)
    /\ UNCHANGED <<origin, backward, held, tables, ends, ghosts>>

ForwardOn(leg) ==
    /\ Passing(leg) /\ relays[leg].next
    /\ relays' = [relays EXCEPT ![leg].hop = Ticked(@)]
    /\ forward' = On(Off(forward, leg), <<leg[1], leg[2] + 1>>, Peel(leg))
    /\ UNCHANGED <<origin, backward, held, tables, ends, ghosts>>

\* The bridge: what one leg brought, peeled once, in the partner's layer.
Across(p, partner) == Wrapped(relays[partner].hop, p)
BridgeToClient ==
    /\ Passing(Meet) /\ bridged
    /\ Holds("serviceReader", Across(Peel(Meet), Point), relays[Point].hop.bn)
    /\ relays' = [relays EXCEPT ![Meet].hop = Ticked(@), ![Point].hop.bn = @ + 1]
    /\ forward' = Off(forward, Meet)
    /\ UNCHANGED <<origin, backward, tables, ends, ghosts>>
BridgeToService ==
    /\ Passing(Point) /\ bridged
    /\ relays' = [relays EXCEPT ![Point].hop = Ticked(@), ![Meet].hop.bn = @ + 1]
    /\ backward' = On(backward, Meet, Across(Peel(Point), Meet))
    /\ forward' = Off(forward, Point)
    /\ UNCHANGED <<origin, held, tables, ends, ghosts>>

\* RelayAction::Drop.
Undeliverable(leg) ==
    /\ Passing(leg) /\ ~relays[leg].next /\ (leg \in {Point, Meet} => ~bridged)
    /\ relays' = [relays EXCEPT ![leg].hop = Ticked(@)]
    /\ forward' = Off(forward, leg)
    /\ lost' = TRUE
    /\ UNCHANGED <<origin, backward, held, tables, ends, excuses>>

\* handle_backward_relay: one more layer on the way to the origin.
BackwardOn(leg) ==
    LET next == <<leg[1], leg[2] + 1>> IN
    /\ leg \in DOMAIN relays /\ next \in Leg /\ CellArrives(backward, next, "relay")
    /\ relays' = [relays EXCEPT ![leg].hop.bn = @ + 1]
    /\ backward' = On(Off(backward, next), leg, Wrapped(relays[leg].hop, Head(backward[next])))
    /\ UNCHANGED <<origin, forward, held, tables, ends, ghosts>>

-----------------------------------------------------------------------------
(* The client's fetch, and its padding pump (the service's pump is left out:   *)
(* it would race the service's answers as the client's races the requests).   *)

Pad ==
    /\ padded < MaxPadding /\ padded' = padded + 1
    /\ ClientSeals("pump", <<"drop", 0, 0>>)
    /\ UNCHANGED <<relays, forward, backward, tables, fetching, meeting, intro, rendezvousing, asked, ghosts>>

\* establish_rendezvous_on: a fresh ephemeral, kept with the cookie.
Meeting == <<"end to end", 0>>
EstablishRendezvousOn ==
    /\ fetching = "build" /\ Len(origin["client"].hops) = PathLen
    /\ ClientSeals("fetch", <<"establish", 0, 0>>)
    /\ fetching' = "established" /\ meeting' = Meeting
    /\ UNCHANGED <<relays, forward, backward, tables, intro, rendezvousing, padded, asked, ghosts>>

\* build_for_hs_with_ephemeral: sealed with the ephemeral that was kept.
IntroduceEphemeral == meeting
\* send_introduce1; the circuit it goes by is not this one.
SendIntroduce ==
    /\ fetching = "established" /\ Free("fetch")
    /\ fetching' = "introduced" /\ intro' = IntroduceEphemeral
    /\ UNCHANGED <<origin, relays, forward, backward, held, tables, meeting, rendezvousing, padded, asked, ghosts>>

\* hs_fetch_request, and more of it.
Ask ==
    /\ fetching = "introduced" /\ origin["client"].e2e # <<>> /\ asked < MaxRequests
    /\ ClientSeals("fetch", <<"ask", asked, 0>>)
    /\ asked' = asked + 1
    /\ UNCHANGED <<relays, forward, backward, tables, fetching, meeting, intro, rendezvousing, padded, ghosts>>

\* handle_rendezvous2 and complete_rendezvous: the pending entry is consumed; with
\* the wrong proof the circuit goes.  The lock is released between opening the cell
\* and this; only padding for the point can be encrypted there, which the point
\* recognises either way.
Met(oc, x, y, auth) ==
    IF AuthHolds(x, [y |-> y, auth |-> auth])
    THEN [oc EXCEPT !.e2e = <<from_e2e_keys(E2EKeys(x, y), TRUE)>>]
    ELSE NoLayers

\* handle_origin_relay at the client.
ClientReads ==
    LET p == Head(backward[Client])
        oc == AfterInbound(origin["client"], p)
        known == RecognisedBy(origin["client"], p) # {}
        cell == p.cell
        after == CASE ~known -> oc
                   [] cell[1] = "extended2" -> Finished(oc, [y |-> cell[2], auth |-> cell[3]])
                   [] cell[1] = "rendezvous2" /\ meeting # NoKey -> Met(oc, meeting, cell[2], cell[3])
                   [] OTHER -> oc
    IN
    /\ CellArrives(backward, Client, "relay")
    /\ origin' = [origin EXCEPT !["client"] = after]
    /\ meeting' = IF known /\ cell[1] = "rendezvous2" THEN NoKey ELSE meeting
    /\ lost' = (lost \/ ~known \/ after = NoLayers)
    /\ backward' = Off(backward, Client)
    /\ UNCHANGED <<relays, forward, held, tables, fetching, intro, rendezvousing, padded, asked, excuses>>

-----------------------------------------------------------------------------
(* The service: INTRODUCE2, the drain loop, and its answers. *)

\* open_at_hs and hs_finalize, with a fresh ephemeral.
ServiceKey == <<"service", 0>>
HandleIntroduce2 ==
    /\ rendezvousing = "idle" /\ intro # NoKey
    /\ rendezvousing' = "opened"
    /\ UNCHANGED <<origin, relays, forward, backward, held, tables, fetching, meeting, intro, padded, asked, ghosts>>

ServiceSends(cell) ==
    /\ forward' = On(forward, Meet, Outbound(origin["service"], cell))
    /\ origin' = [origin EXCEPT !["service"] = AfterOutbound(@, cell)]

SendRendezvous1 ==
    /\ rendezvousing = "build" /\ origin["service"].hops # <<>>
    /\ ServiceSends(<<"rendezvous1", ServiceKey, Auth(intro, ServiceKey)>>)
    /\ rendezvousing' = "sent"
    /\ UNCHANGED <<relays, backward, held, tables, fetching, meeting, intro, padded, asked, ghosts>>

\* A step of its own: the client may have had RENDEZVOUS2 by then.
InstallKeys ==
    /\ rendezvousing = "sent"
    /\ rendezvousing' = "installed"
    /\ origin' = [origin EXCEPT !["service"].e2e =
                     <<from_e2e_keys(E2EKeys(intro, ServiceKey), FALSE)>>]
    /\ UNCHANGED <<relays, forward, backward, held, tables, fetching, meeting, intro, padded, asked, ghosts>>

\* The service's reader; each request is answered on the same circuit.
ServiceReads ==
    LET p == Head(backward[Meet])
        oc == AfterInbound(origin["service"], p)
        known == RecognisedBy(origin["service"], p) # {}
        answer == <<"answer", p.cell[2], 0>>
    IN
    /\ CellArrives(backward, Meet, "relay")
    /\ IF known /\ p.cell[1] = "ask"
       THEN /\ forward' = On(forward, Meet, Outbound(oc, answer))
            /\ origin' = [origin EXCEPT !["service"] = AfterOutbound(oc, answer)]
       ELSE origin' = [origin EXCEPT !["service"] = oc] /\ UNCHANGED forward
    /\ lost' = (lost \/ ~known)
    /\ excuses' = IF rendezvousing = "sent" THEN excuses \union {"keys late"} ELSE excuses
    /\ backward' = Off(backward, Meet)
    /\ UNCHANGED <<relays, held, tables, ends>>

-----------------------------------------------------------------------------
OnionNext ==
    \/ \E e \in OriginEnd : StartCircuit(e) \/ HandleCreated(e)
    \/ \E leg \in Leg : \/ HandleCreate(leg) \/ HandleCreatedFromNext(leg) \/ HandleExtend(leg)
                        \/ HandleDrop(leg) \/ ForwardOn(leg) \/ Undeliverable(leg) \/ BackwardOn(leg)
    \/ \E to \in LinkSpecs : ExtendCircuit(to)
    \/ \E t \in OnionTask : Queued(t)
    \/ HandleEstablish \/ HandleRendezvous1 \/ BridgeToClient \/ BridgeToService
    \/ Pad \/ EstablishRendezvousOn \/ SendIntroduce \/ Ask \/ ClientReads
    \/ HandleIntroduce2 \/ SendRendezvous1 \/ InstallKeys \/ ServiceReads

OnionSpec == OnionInit /\ [][OnionNext]_onionVars

OnionTypeOK ==
    /\ \A e \in OriginEnd : Len(origin[e].hops) <= Hops(e) /\ Len(origin[e].e2e) <= 1
    /\ DOMAIN relays \subseteq Leg
    /\ cookie \in {"none", "held", "used"} /\ bridged \in BOOLEAN
    /\ fetching \in {"start", "build", "established", "introduced"}
    /\ rendezvousing \in {"idle", "opened", "build", "sent", "installed"}
    /\ padded \in 0..MaxPadding /\ asked \in 0..MaxRequests
    /\ excuses \subseteq {"overtaken", "keys late"} /\ lost \in BOOLEAN

-----------------------------------------------------------------------------
(* circuit.rs: "Both ends must stay synchronised - every cell sent          *)
(* increments the sender's counter and the corresponding receiver's."       *)

HeldBy(tasks) == {held[t][1].cell : t \in {u \in tasks : ~Free(u)}}
RelayCells(q) == {c \in ToSet(q) : c.kind = "relay"}
\* Cells between an end and the relay a leg leads to, and those that have passed it.
Outgoing(leg) ==
    (UNION {RelayCells(forward[<<leg[1], i>>]) : i \in 1..leg[2]})
      \union (IF leg[1] = "client" THEN HeldBy(FromClient) ELSE {})
Incoming(leg) ==
    (UNION {RelayCells(backward[<<leg[1], i>>]) : i \in 1..leg[2]})
      \union (IF leg = Point THEN HeldBy(AtPoint) ELSE {})
Everywhere ==
    (UNION {RelayCells(forward[l]) \union RelayCells(backward[l]) : l \in Leg}) \union HeldBy(OnionTask)

Counters(key, cells) == {l[2] : l \in {m \in UNION {c.layers : c \in cells} : m[1] = key}}
\* Every counter between the receiver's and the sender's is on a cell on its way,
\* and the layer is on no other.
InStep(key, sent, seen, way) ==
    /\ sent >= seen
    /\ Counters(key, way) = seen..(sent - 1)
    /\ Counters(key, Everywhere \ way) = {}

\* The two copies of each hop.
HopsInStep ==
    \A leg \in DOMAIN relays :
      LET hop == relays[leg].hop
          oc == origin[leg[1]]
          mine == IF leg[2] <= Len(oc.hops) THEN oc.hops[leg[2]] ELSE HopState(hop.fk, hop.bk)
      IN /\ mine.fk = hop.fk /\ mine.bk = hop.bk
         /\ InStep(hop.fk, mine.fn, hop.fn, Outgoing(leg))
         /\ InStep(hop.bk, hop.bn, mine.bn, Incoming(leg))

\* The two copies of the end-to-end layer; the service's is made before it is installed.
EndsInStep ==
    origin["client"].e2e # <<>> =>
      LET c == origin["client"].e2e[1]
          s == IF origin["service"].e2e # <<>> THEN origin["service"].e2e[1]
               ELSE from_e2e_keys(E2EKeys(intro, ServiceKey), FALSE)
      IN /\ c.fk = s.bk /\ c.bk = s.fk
         /\ InStep(c.fk, c.fn, s.bn, Everywhere)
         /\ InStep(s.fk, s.fn, c.bn, Everywhere)

\* However cells, extends, padding and the bridge interleave, unless two tasks queue
\* in an order they did not encrypt in, the two copies of every layer are apart by
\* exactly the cells on their way; and every cell is recognised where it ends unless,
\* also, the service had not yet installed the keys it had announced.
LayersInStep ==
    /\ "overtaken" \notin excuses => HopsInStep
    /\ excuses = {} => EndsInStep /\ ~lost
=============================================================================

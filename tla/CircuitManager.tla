--------------------------- MODULE CircuitManager ---------------------------
(***************************************************************************)
(* The circuit tables of one node (circuit_mgr.rs, CircuitManager), driven *)
(* by the cells its peers send (node.rs, handle_circuit_cell) and by the   *)
(* node's own circuit builder and garbage collector.                       *)
(*                                                                         *)
(* A key is the code's (PeerId, CircuitId).  Peers number the circuits     *)
(* they originate from the same first id as this node does (every          *)
(* allocator starts at 0x80000000), so Cids serves both; the id of an      *)
(* onward leg is drawn at random and taken to collide with nothing.        *)
(*                                                                         *)
(* Time is the flag `active` of a circuit: last_activity lies within the   *)
(* idle timeout.  Onion layers are not modelled: a relay cell is the       *)
(* decision the tables lead to.                                            *)
(***************************************************************************)
EXTENDS Naturals, FiniteSets

CONSTANTS
  Peers,        \* linked peers
  Cids,         \* ids of originated circuits, ours and the peers'
  NextCids,     \* ids drawn for onward legs
  Cookies,      \* rendezvous cookies
  NoKey,        \* no onward leg
  MaxEarly,     \* MAX_RELAY_EARLY
  MaxRestarts   \* bound: peers that forget their circuits and start again

ASSUME CidsAssumption  == Cids \subseteq Nat /\ NextCids \subseteq Nat
ASSUME DistinctAssumption == Cids \cap NextCids = {}
ASSUME EarlyAssumption == MaxEarly \in Nat /\ MaxRestarts \in Nat

PrevKeys == Peers \X Cids
NextKeys == Peers \X NextCids

ASSUME NoKeyAssumption == NoKey \notin NextKeys

VARIABLES
  origins,    \* circuits we originated, by id alone
  nextId,     \* ids not yet handed out by next_origin_id
  relays,     \* circuits we relay, by the key of the side towards the client
  byNext,     \* relay_by_next: key of the onward side -> key in relays
  bridges,    \* rendezvous_bridges: leg -> partner leg
  cookies,    \* rendezvous_cookies: cookie -> client leg
  intros,     \* intro_registered: legs that are some service's intro point
  owed,       \* CREATEs we sent that may still be answered
  unused,     \* unused[p]: circuit ids peer p has not used yet
  drawn,      \* onward keys drawn so far (history)
  restarts    \* peers' restarts so far

tables == <<origins, relays, byNext, bridges, cookies, intros>>
vars == <<tables, nextId, owed, unused, drawn, restarts>>

\* HashMap::insert and HashMap::retain.
Put(f, k, v) == [x \in DOMAIN f \cup {k} |-> IF x = k THEN v ELSE f[x]]
Without(f, S) == [x \in DOMAIN f \ S |-> f[x]]
Empty == [x \in {} |-> x]

-----------------------------------------------------------------------------

NewOrigin(g) ==
  [guard |-> g, hops |-> 0, pending |-> TRUE, early |-> 0, active |-> TRUE]

NewRelay ==
  [next |-> NoKey, awaiting |-> FALSE, active |-> TRUE, leg |-> "none"]

Init ==
  /\ origins = Empty
  /\ nextId = Cids
  /\ relays = Empty
  /\ byNext = Empty
  /\ bridges = Empty
  /\ cookies = Empty
  /\ intros = {}
  /\ owed = {}
  /\ unused = [p \in Peers |-> Cids]
  /\ drawn = {}
  /\ restarts = 0

\* start_circuit: the next id, a pending handshake, a CREATE to the guard.
StartCircuit(g) ==
  /\ \E cid \in nextId :
       /\ \A d \in nextId : cid <= d
       /\ origins' = Put(origins, cid, NewOrigin(g))
       /\ nextId' = nextId \ {cid}
       /\ owed' = owed \cup {<<g, cid>>}
  /\ UNCHANGED <<relays, byNext, bridges, cookies, intros, unused, drawn, restarts>>

\* extend_circuit: a new pending handshake, whether or not one was there.
ExtendCircuit(cid) ==
  /\ cid \in DOMAIN origins
  /\ origins[cid].hops > 0
  /\ origins[cid].early < MaxEarly
  /\ origins' = [origins EXCEPT ![cid].pending = TRUE,
                                ![cid].early = @ + 1, ![cid].active = TRUE]
  /\ UNCHANGED <<relays, byNext, bridges, cookies, intros, nextId, owed, unused, drawn, restarts>>

\* A CREATED cell: dispatch looks at the id alone, then at relay_by_next.  For
\* a circuit of ours it uses up the pending handshake, and completes it unless
\* it answers another circuit of that id (one new_identity dropped).
RecvCreated(k, answersIt) ==
  /\ k \in owed
  /\ owed' = owed \ {k}
  /\ \/ /\ k[2] \in DOMAIN origins
        /\ origins' = [origins EXCEPT
             ![k[2]].pending = FALSE,
             ![k[2]].hops = IF origins[k[2]].pending /\ answersIt THEN @ + 1 ELSE @]
        /\ UNCHANGED relays
     \/ /\ k[2] \notin DOMAIN origins
        /\ k \in DOMAIN byNext /\ byNext[k] \in DOMAIN relays
        /\ relays' = [relays EXCEPT ![byNext[k]].awaiting = FALSE]
        /\ UNCHANGED origins
     \/ /\ k[2] \notin DOMAIN origins
        /\ k \in DOMAIN byNext => byNext[k] \notin DOMAIN relays
        /\ UNCHANGED <<origins, relays>>
  /\ UNCHANGED <<byNext, bridges, cookies, intros, nextId, unused, drawn, restarts>>

\* handle_create: the new relay circuit replaces whatever had the key.
RecvCreate(k) ==
  /\ k[2] \in unused[k[1]]
  /\ unused' = [unused EXCEPT ![k[1]] = @ \ {k[2]}]
  /\ relays' = Put(relays, k, NewRelay)
  /\ UNCHANGED <<origins, byNext, bridges, cookies, intros, nextId, owed, drawn, restarts>>

(***************************************************************************)
(* A RELAY cell from peer k[1] on id k[2]: dispatch asks for an origin     *)
(* circuit of that id first, then relay_by_next, then relays.              *)
(***************************************************************************)
Route(k) ==
  IF k[2] \in DOMAIN origins THEN "origin"
  ELSE IF k \in DOMAIN byNext THEN "backward"
  ELSE IF k \in DOMAIN relays THEN "forward"
  ELSE "unknown"

\* handle_origin_relay of a cell that decrypts: an EXTENDED2 uses up the
\* pending handshake, and completes it unless it answers an earlier extend;
\* anything else only counts as activity.
RecvOriginRelay(cid, extended, answersIt) ==
  LET taken == extended /\ origins[cid].pending IN
  /\ cid \in DOMAIN origins
  /\ origins[cid].hops > 0
  /\ origins' = [origins EXCEPT
       ![cid].pending = @ /\ ~ taken,
       ![cid].hops = IF taken /\ answersIt THEN @ + 1 ELSE @,
       ![cid].active = TRUE]
  /\ UNCHANGED <<relays, byNext, bridges, cookies, intros, nextId, owed, unused, drawn, restarts>>

\* What peeling a layer does to the circuit: it is active.  (A backward cell
\* is wrapped and passed on with no table changed, last_activity included.)
Touched(S) ==
  [k \in DOMAIN relays |->
     IF k \in S THEN [relays[k] EXCEPT !.active = TRUE] ELSE relays[k]]

\* handle_forward_relay of a cell not recognised here: onward if extended,
\* else across the rendezvous bridge, else dropped.
RecvForward(k) ==
  /\ Route(k) = "forward"
  /\ relays' = Touched(
       IF relays[k].next = NoKey /\ k \in DOMAIN bridges THEN {k, bridges[k]} ELSE {k})
  /\ UNCHANGED <<origins, byNext, bridges, cookies, intros, nextId, owed, unused, drawn, restarts>>

\* An EXTEND2 recognised here: begin_extend, then the CREATE goes out; or
\* the dial fails, and it never does.
RecvExtend2(k, nk, dialed) ==
  /\ Route(k) = "forward"
  /\ IF relays[k].next = NoKey
       THEN /\ nk \notin drawn
            /\ relays' = [Touched({k}) EXCEPT ![k].next = nk, ![k].awaiting = TRUE]
            /\ byNext' = Put(byNext, nk, k)
            /\ drawn' = drawn \cup {nk}
            /\ owed' = IF dialed THEN owed \cup {nk} ELSE owed
       ELSE /\ relays' = Touched({k})
            /\ UNCHANGED <<byNext, drawn, owed>>
  /\ UNCHANGED <<origins, bridges, cookies, intros, nextId, unused, restarts>>

\* ESTABLISH_INTRO: register_intro_relay.
RecvEstablishIntro(k) ==
  /\ Route(k) = "forward"
  /\ relays' = Touched({k})
  /\ intros' = intros \cup {k}
  /\ UNCHANGED <<origins, byNext, bridges, cookies, nextId, owed, unused, drawn, restarts>>

\* ESTABLISH_RENDEZVOUS: register_rendezvous_cookie.  A client draws a fresh
\* cookie for each rendezvous circuit it builds.
RecvEstablishRendezvous(k, ck) ==
  /\ Route(k) = "forward" /\ relays[k].leg = "none"
  /\ ck \notin DOMAIN cookies
  /\ relays' = [Touched({k}) EXCEPT ![k].leg = "client"]
  /\ cookies' = Put(cookies, ck, k)
  /\ UNCHANGED <<origins, byNext, bridges, intros, nextId, owed, unused, drawn, restarts>>

\* Mutant: the service's leg is bridged to the cookie, not to the client's leg.
RecvRendezvous1_cookie(k, ck) ==
  /\ Route(k) = "forward" /\ relays[k].leg = "none" /\ ck \in DOMAIN cookies
  /\ relays' = [Touched({k}) EXCEPT ![k].leg = "service"]
  /\ bridges' = Put(Put(bridges, cookies[ck], k), k, ck)
  /\ cookies' = Without(cookies, {ck})
  /\ UNCHANGED <<origins, byNext, intros, nextId, owed, unused, drawn, restarts>>

\* RENDEZVOUS1: consume_rendezvous_cookie, then bridge_rendezvous, under one
\* lock.  A service opens a circuit of its own for each RENDEZVOUS1.
RecvRendezvous1(k, ck) ==
  /\ Route(k) = "forward" /\ relays[k].leg = "none"
  /\ relays' = [Touched({k}) EXCEPT ![k].leg = "service"]
  /\ IF ck \in DOMAIN cookies
       THEN /\ bridges' = Put(Put(bridges, cookies[ck], k), k, cookies[ck])
            /\ cookies' = Without(cookies, {ck})
       ELSE UNCHANGED <<bridges, cookies>>
  /\ UNCHANGED <<origins, byNext, intros, nextId, owed, unused, drawn, restarts>>

\* unbridge_rendezvous of each leg of S.
Unbridged(S) ==
  Without(bridges, S \cup {bridges[k] : k \in S \cap DOMAIN bridges})

\* Mutant: the onward index is not cleaned up.
NextOf_none(S) == {}

\* The onward keys of the circuits of S.
NextOf(S) == {relays[k].next : k \in S \cap DOMAIN relays}

\* CircuitManager::destroy(from_peer, cid).
Destroy(k) ==
  /\ relays' = Without(relays, {k})
  /\ byNext' = Without(byNext, NextOf({k}))
  /\ bridges' = Unbridged({k})
  /\ origins' = Without(origins, {k[2]})
  /\ intros' = intros \ {k}
  /\ UNCHANGED <<cookies, nextId, owed, unused, drawn, restarts>>

\* A DESTROY cell, from the client side of a relayed circuit, from its onward
\* side (a rendezvous point whose other leg went), or from our own guard.
RecvDestroy(k) ==
  /\ \/ k \in DOMAIN relays \cup DOMAIN byNext
     \/ k[2] \in DOMAIN origins /\ origins[k[2]].guard = k[1]
  /\ Destroy(k)

\* PhiNode::destroy_circuit of a circuit we originated.
DestroyOrigin(cid) ==
  /\ cid \in DOMAIN origins
  /\ Destroy(<<origins[cid].guard, cid>>)

\* CIRCUIT_IDLE_TIMEOUT goes by.
HourPasses ==
  /\ origins' = [c \in DOMAIN origins |-> [origins[c] EXCEPT !.active = FALSE]]
  /\ relays' = [k \in DOMAIN relays |-> [relays[k] EXCEPT !.active = FALSE]]
  /\ UNCHANGED <<byNext, bridges, cookies, intros, nextId, owed, unused, drawn, restarts>>

\* evict_idle_circuits.
EvictIdleCircuits ==
  LET deadOrigins == {c \in DOMAIN origins : ~ origins[c].active}
      deadRelays  == {k \in DOMAIN relays : ~ relays[k].active} IN
  /\ deadOrigins # {} \/ deadRelays # {}
  /\ origins' = Without(origins, deadOrigins)
  /\ relays' = Without(relays, deadRelays)
  /\ byNext' = Without(byNext, NextOf(deadRelays))
  /\ intros' = intros \ deadRelays
  /\ cookies' = Without(cookies, {ck \in DOMAIN cookies : cookies[ck] \in deadRelays})
  /\ bridges' = Unbridged(deadRelays)
  /\ UNCHANGED <<nextId, owed, unused, drawn, restarts>>

\* new_identity: a new CircuitManager in place of this one.  No DESTROY is sent,
\* the ids start over, and answers under way still come.
NewIdentity ==
  /\ origins' = Empty /\ relays' = Empty /\ byNext' = Empty
  /\ bridges' = Empty /\ cookies' = Empty /\ intros' = {}
  /\ nextId' = Cids
  /\ UNCHANGED <<owed, unused, drawn, restarts>>

\* A peer takes a new identity or restarts: it forgets its circuits and its
\* ids start over, while our tables stand.
PeerRestarts(p) ==
  /\ restarts < MaxRestarts
  /\ restarts' = restarts + 1
  /\ unused' = [unused EXCEPT ![p] = Cids]
  /\ UNCHANGED <<tables, nextId, owed, drawn>>

-----------------------------------------------------------------------------

OriginStep ==
  \/ \E g \in Peers : StartCircuit(g)
  \/ \E c \in Cids : ExtendCircuit(c) \/ DestroyOrigin(c)
                     \/ \E e, a \in BOOLEAN : RecvOriginRelay(c, e, a)

RelayStep ==
  \/ \E k \in PrevKeys : \/ RecvCreate(k) \/ RecvForward(k)
                         \/ RecvEstablishIntro(k)
                         \/ \E nk \in NextKeys, d \in BOOLEAN : RecvExtend2(k, nk, d)
                         \/ \E ck \in Cookies : RecvEstablishRendezvous(k, ck)
                                                \/ RecvRendezvous1(k, ck)
  \/ \E k \in PrevKeys \cup NextKeys : RecvDestroy(k) \/ \E a \in BOOLEAN : RecvCreated(k, a)

Next ==
  \/ OriginStep
  \/ RelayStep
  \/ HourPasses \/ EvictIdleCircuits \/ NewIdentity
  \/ \E p \in Peers : PeerRestarts(p)

Spec == Init /\ [][Next]_vars

-----------------------------------------------------------------------------

Origin == [guard : Peers, hops : Nat, pending : BOOLEAN, early : Nat, active : BOOLEAN]
Relay  == [next : NextKeys \cup {NoKey}, awaiting : BOOLEAN, active : BOOLEAN,
           leg : {"none", "client", "service"}]

TypeOK ==
  /\ DOMAIN origins \subseteq Cids /\ \A c \in DOMAIN origins : origins[c] \in Origin
  /\ DOMAIN relays \subseteq PrevKeys /\ \A k \in DOMAIN relays : relays[k] \in Relay
  /\ DOMAIN byNext \subseteq NextKeys /\ \A k \in DOMAIN byNext : byNext[k] \in PrevKeys
  /\ DOMAIN bridges \subseteq PrevKeys /\ \A k \in DOMAIN bridges : bridges[k] \in PrevKeys
  /\ DOMAIN cookies \subseteq Cookies /\ \A k \in DOMAIN cookies : cookies[k] \in PrevKeys
  /\ intros \subseteq PrevKeys
  /\ nextId \subseteq Cids
  /\ owed \subseteq PrevKeys \cup NextKeys
  /\ unused \in [Peers -> SUBSET Cids]
  /\ drawn \subseteq NextKeys
  /\ restarts \in Nat

(***************************************************************************)
(* An answer finds its way back: every onward leg of a relayed circuit is  *)
(* indexed in relay_by_next under that circuit, through every order of     *)
(* extends, destroys, evictions, failed dials and restarted peers.         *)
(***************************************************************************)
OnwardLegsIndexed ==
  \A k \in DOMAIN relays : relays[k].next # NoKey =>
    relays[k].next \in DOMAIN byNext /\ byNext[relays[k].next] = k

\* relay_by_next indexes the onward legs of the relayed circuits and no more.
NextTableExact ==
  /\ OnwardLegsIndexed
  /\ \A nk \in DOMAIN byNext :
       byNext[nk] \in DOMAIN relays /\ relays[byNext[nk]].next = nk

(***************************************************************************)
(* Until a peer starts its ids over, relay_by_next is the "inverse" of     *)
(* relays (CircuitManager): no entry outlives its circuit to hand its      *)
(* cells to the next circuit of that key, however a circuit goes.  (A      *)
(* CREATE on a key still in use leaves the old circuit's entry behind.)    *)
(***************************************************************************)
NextTableInverse == restarts = 0 => NextTableExact

\* A bridge joins two different legs and is known from both of them.
LegsPaired ==
  \A x \in DOMAIN bridges :
    bridges[x] # x /\ bridges[x] \in DOMAIN bridges /\ bridges[bridges[x]] = x

(***************************************************************************)
(* Until a peer starts its ids over, "a cell arriving on either leg finds  *)
(* its partner with one lookup" (rendezvous_bridges), whichever leg goes   *)
(* first and however, and no leg is spliced twice.                         *)
(***************************************************************************)
BridgesPaired == restarts = 0 => LegsPaired

(***************************************************************************)
(* A hop is only added by a handshake this circuit asked for: hops built   *)
(* or under way never exceed the CREATE and the RELAY_EARLY cells spent,   *)
(* whatever answers come late, twice or for an extend already given up.    *)
(***************************************************************************)
HopsWithinBudget ==
  \A c \in DOMAIN origins :
    /\ origins[c].hops + (IF origins[c].pending THEN 1 ELSE 0) <= origins[c].early + 1
    /\ origins[c].early <= MaxEarly

(***************************************************************************)
(* "The manager is keyed by (peer_id, CircuitId) because circuit IDs are   *)
(* local to a single TCP connection" (circuit_mgr.rs): a cell the client   *)
(* sends on a circuit we relay is taken for that circuit's.                *)
(***************************************************************************)
CircuitIdsAreLocal ==
  \A k \in DOMAIN relays : Route(k) = "forward"

\* The tables of a node agree: onward legs and their index, both sides of a bridge, and
\* the hops of its own circuits with the handshakes it has paid for.
TablesAgree == OnwardLegsIndexed /\ NextTableInverse /\ BridgesPaired /\ HopsWithinBudget
=============================================================================

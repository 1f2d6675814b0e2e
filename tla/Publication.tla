---------------------------- MODULE Publication ----------------------------
(* How a hidden service stays findable: the host signs a descriptor and      *)
(* sends it to the relays the ring makes responsible, every 20 minutes       *)
(* again; they check it, refuse what they have marked, and keep it an hour;  *)
(* a client asks them and caches what it is told. The operator edits the     *)
(* list of authorized clients meanwhile. One tick is one pass of             *)
(* hs_republish_loop; all ages are relative, so that time never ends.        *)
EXTENDS Naturals, FiniteSets

CONSTANTS Dir,        \* relays the host knows; each may be a directory
          Looker,     \* those of them that also look the service up
          EntryTTL,   \* DHT_VALUE_TTL, in ticks
          MarkTTL,    \* DEFAULT_REPLAY_TTL, in ticks
          EpochTicks, \* EPOCH_SECS, in ticks
          MaxClients, \* bound: authorized clients
          Faults      \* whether links break and nodes restart

ASSUME PublicationAssumption ==
    /\ Looker \subseteq Dir /\ EntryTTL \in Nat \ {0} /\ MarkTTL \in Nat
    /\ EpochTicks \in Nat \ {0} /\ MaxClients \in Nat /\ Faults \in BOOLEAN

VARIABLES
    hosted,     \* "off", "files" (create_service only) or "on" (in hs_mgr)
    stash,      \* published_endpoint: "none", "blank" or "set"
    clients,    \* authorized clients
    goal,       \* authorized clients once the edit under way is over
    listFile,   \* what authorized_clients.txt holds: 0 while it is rewritten
    due,        \* the republish pass of this tick is to come
    links,      \* relays the host is linked to
    ring,       \* responsible_hsdirs_for the service, this epoch
    phase,      \* ticks since the epoch turned
    regs,       \* HsRegister under way: [to, d]
    dht,        \* relay -> set of at most one [d, age]: its entry
    marked,     \* relay -> ticks for which its replay cache holds the service
    asked,      \* looker -> relays that have not answered its lookup, or {}
    waiter      \* looker -> a call waits in lookup_hs_descriptor

pubVars == <<hosted, stash, clients, goal, listFile, due, links, ring, phase, regs,
             dht, marked, asked, waiter>>

\* An HsDescriptor: whether it has a client_auth block, its intro key and
\* node id in clear, an endpoint in clear, and how many epochs ago it was signed.
Descriptor == [auth : BOOLEAN, key : BOOLEAN, node : BOOLEAN, host : BOOLEAN, lag : 0 .. 2]

\* responsible_hsdirs, over the relays of the consensus: a dozen of them in
\* two stretches of a ring that only the epoch's random value determines.
Rings == SUBSET Dir \ {{}}

PubInit ==
    /\ hosted = "off" /\ stash = "none" /\ clients = 0 /\ goal = 0 /\ listFile = 0 /\ due = FALSE
    /\ links = Dir /\ ring \in Rings /\ phase = 0 /\ regs = {}
    /\ dht = [n \in Dir |-> {}] /\ marked = [n \in Dir |-> 0]
    /\ asked = [c \in Looker |-> {}] /\ waiter = [c \in Looker |-> FALSE]

\* descriptor() and descriptor_with_client_auth().
Built(n, endpoint) ==
    [auth |-> n > 0, key |-> n = 0, node |-> FALSE, host |-> n = 0 /\ endpoint, lag |-> 2]

\* Mutant: every republish used to go out without the intro point.
Completed_not(d) == d
\* The intro point is this node.
Completed(d) == [d EXCEPT !.key = TRUE, !.node = TRUE]

\* sign_descriptor: everything is signed, for the present epoch.
Signed(d) == [d EXCEPT !.lag = 0]

\* verify_descriptor, of what the host signed.
Verifies(d) == d.lag <= 1 /\ IF d.auth THEN ~d.key /\ ~d.host ELSE d.key

\* resolve_hs_descriptor, by a client without secrets (the daemon passes none),
\* and what hs_fetch then builds an introduction circuit from.
Usable(d) == Verifies(d) /\ ~d.auth /\ d.node /\ d.host

\* What lookup and publication send to: the responsible relays one is linked
\* to, or if none is, everyone.
Targets(linked) == IF linked \cap ring = {} THEN linked ELSE linked \cap ring

\* broadcast_hs, of a descriptor built when the list read as n clients.
BroadcastHs(d) ==
    /\ stash' = IF d.host THEN "set" ELSE "blank"
    /\ regs' = {r \in regs : r.to \notin Targets(links)}
                 \union [to : Targets(links), d : {Signed(d)}]

\* `phi new`, or files left by an earlier run.
CreateService ==
    /\ hosted = "off" /\ hosted' = "files"
    /\ UNCHANGED <<stash, clients, goal, listFile, due, links, ring, phase, regs, dht, marked,
                   asked, waiter>>

\* What a registration publishes: only a public descriptor is completed here.
Registered ==
    LET d == Built(listFile, TRUE) IN IF d.auth THEN d ELSE Completed(d)

\* hs_register of the control port. Bound: what was sent before has arrived.
HsRegister ==
    /\ hosted # "off" /\ regs = {} /\ hosted' = "on"
    /\ BroadcastHs(Registered)
    /\ UNCHANGED <<clients, goal, listFile, due, links, ring, phase, dht, marked, asked,
                   waiter>>

\* The daemon's registration, at start, of the sites it finds on disk.
RegisterAtStart ==
    /\ hosted = "files" /\ hosted' = "on"
    /\ BroadcastHs(Registered)
    /\ UNCHANGED <<clients, goal, listFile, due, links, ring, phase, dht, marked, asked,
                   waiter>>

\* republish_all_hs_once, for the one service.
Republish ==
    /\ due /\ due' = FALSE
    /\ IF hosted = "on" /\ stash # "none"
       THEN /\ BroadcastHs(Completed(Built(listFile, stash = "set")))
       ELSE UNCHANGED <<stash, regs>>
    /\ UNCHANGED <<hosted, clients, goal, listFile, links, ring, phase, dht, marked, asked, waiter>>

\* The hs_auth commands: a client that is not authorized is, or one that is no longer.
Edits == {n \in 0 .. MaxClients : n = clients + 1 \/ n + 1 = clients}

\* add_authorized_client and remove_authorized_client: fs::write truncates
\* the list and then writes it; removing the last client removes the file.
EditClients ==
    /\ hosted # "off" /\ goal = clients
    /\ goal' \in Edits
    /\ listFile' = 0
    /\ UNCHANGED <<hosted, stash, clients, due, links, ring, phase, regs, dht, marked, asked,
                   waiter>>

ListWritten ==
    /\ goal # clients /\ clients' = goal /\ listFile' = goal
    /\ UNCHANGED <<hosted, stash, goal, due, links, ring, phase, regs, dht, marked,
                   asked, waiter>>

\* DhtStore: put_hs replaces what is there; get and evict_expired know an entry
\* only while it is young.
PutHs(d) == {[d |-> d, age |-> 0]}
Older(d) == [d EXCEPT !.lag = IF @ < 2 THEN @ + 1 ELSE 2]
Aged(entries, epochTurns) ==
    {[d |-> IF epochTurns THEN Older(e.d) ELSE e.d, age |-> e.age + 1] :
       e \in {x \in entries : x.age + 1 < EntryTTL}}

\* dispatch, HsRegister: verified, then marked, then kept.
RecvRegister(r) ==
    /\ r \in regs /\ regs' = regs \ {r}
    /\ IF Verifies(r.d) /\ marked[r.to] = 0
       THEN /\ marked' = [marked EXCEPT ![r.to] = MarkTTL]
            /\ dht' = [dht EXCEPT ![r.to] = PutHs(r.d)]
       ELSE UNCHANGED <<marked, dht>>
    /\ UNCHANGED <<hosted, stash, clients, goal, listFile, due, links, ring, phase, asked,
                   waiter>>

\* lookup_hs_descriptor, when there is nothing in the cache.
LookupHs(c) ==
    /\ ~waiter[c] /\ asked[c] = {} /\ dht[c] = {} /\ Dir \ {c} # {}
    /\ waiter' = [waiter EXCEPT ![c] = TRUE]
    /\ asked' = [asked EXCEPT ![c] = Targets(Dir \ {c})]
    /\ UNCHANGED <<hosted, stash, clients, goal, listFile, due, links, ring, phase, regs, dht,
                   marked>>

\* handle_hs_lookup at n and handle_hs_found at c: only an answer with a
\* descriptor counts, and it is cached whatever c holds already, unverified.
HsFound(c, n) ==
    /\ n \in asked[c]
    /\ asked' = [asked EXCEPT ![c] = @ \ {n}]
    /\ IF dht[n] # {}
       THEN /\ dht' = [dht EXCEPT ![c] = UNION {PutHs(e.d) : e \in dht[n]}]
            /\ waiter' = [waiter EXCEPT ![c] = FALSE]
       ELSE UNCHANGED <<dht, waiter>>
    /\ UNCHANGED <<hosted, stash, clients, goal, listFile, due, links, ring, phase, regs,
                   marked>>

\* The wait of 10 s is over, and what came late is read from the cache.
LookupEnds(c) ==
    /\ waiter[c] /\ waiter' = [waiter EXCEPT ![c] = FALSE]
    /\ UNCHANGED <<hosted, stash, clients, goal, listFile, due, links, ring, phase, regs, dht,
                   marked, asked>>

\* 20 minutes pass: messages have arrived, calls are over, entries expire (get,
\* evict_expired), and the epoch may turn, with a new ring.
PubTick ==
    /\ ~due /\ regs = {} /\ goal = clients
    /\ due' = TRUE
    /\ asked' = [c \in Looker |-> {}] /\ waiter' = [c \in Looker |-> FALSE]
    /\ marked' = [n \in Dir |-> IF marked[n] > 0 THEN marked[n] - 1 ELSE 0]
    /\ phase' = (phase + 1) % EpochTicks
    /\ IF phase' = 0 THEN ring' \in Rings ELSE UNCHANGED ring
    /\ dht' = [n \in Dir |-> Aged(dht[n], phase' = 0)]
    /\ UNCHANGED <<hosted, stash, clients, goal, listFile, links, regs>>

\* A directory restarts: its DHT is memory, its replay cache a file. What was
\* on its way there is lost with the link, which LinkChanges models.
DirRestarts(n) ==
    /\ Faults /\ \A r \in regs : r.to # n
    /\ dht' = [dht EXCEPT ![n] = {}]
    /\ asked' = [c \in Looker |-> IF c = n THEN {} ELSE asked[c] \ {n}]
    /\ waiter' = [c \in Looker |-> c # n /\ waiter[c]]
    /\ UNCHANGED <<hosted, stash, clients, goal, listFile, due, links, ring, phase, regs, marked>>

\* The host's daemon restarts, and registers what it finds on disk.
HostRestarts ==
    /\ Faults /\ hosted = "on" /\ hosted' = "files"
    /\ stash' = "none" /\ regs' = {} /\ goal = clients
    /\ UNCHANGED <<clients, goal, listFile, due, links, ring, phase, dht, marked, asked,
                   waiter>>

LinkChanges(n) ==
    /\ Faults
    /\ links' = IF n \in links THEN links \ {n} ELSE links \union {n}
    /\ regs' = {r \in regs : r.to # n}
    /\ UNCHANGED <<hosted, stash, clients, goal, listFile, due, ring, phase, dht, marked, asked,
                   waiter>>

RecvSomeRegister == \E r \in regs : RecvRegister(r)

PubNext ==
    \/ CreateService \/ HsRegister \/ RegisterAtStart \/ Republish \/ EditClients \/ ListWritten
    \/ RecvSomeRegister
    \/ \E c \in Looker : LookupHs(c) \/ LookupEnds(c) \/ \E n \in Dir : HsFound(c, n)
    \/ \E n \in Dir : DirRestarts(n) \/ LinkChanges(n)
    \/ PubTick \/ HostRestarts

\* The steps the code and the network take on their own, and time, which no
\* sequence of quick steps holds up for ever.
PubFairness ==
    /\ WF_pubVars(Republish) /\ WF_pubVars(ListWritten) /\ WF_pubVars(RecvSomeRegister)
    /\ SF_pubVars(PubTick)
PubSpec == PubInit /\ [][PubNext]_pubVars /\ PubFairness

---------------------------------------------------------------------------
PubTypeOK ==
    /\ hosted \in {"off", "files", "on"} /\ stash \in {"none", "blank", "set"}
    /\ {clients, goal, listFile} \subseteq 0 .. MaxClients /\ due \in BOOLEAN
    /\ links \subseteq Dir /\ ring \subseteq Dir /\ phase \in 0 .. EpochTicks - 1
    /\ regs \subseteq [to : Dir, d : Descriptor]
    /\ \A n \in Dir : /\ dht[n] \subseteq [d : Descriptor, age : 0 .. EntryTTL - 1]
                      /\ Cardinality(dht[n]) <= 1
    /\ marked \in [Dir -> 0 .. MarkTTL]
    /\ asked \in [Looker -> SUBSET Dir] /\ waiter \in [Looker -> BOOLEAN]

Reachable == \E n \in ring : \E e \in dht[n] : Usable(e.d)

\* A site without client authorization, on a host that stays up with its links,
\* comes back again and again: whatever directories restart and however the
\* ring moves, a responsible directory has a usable descriptor infinitely often.
ServiceComesBack ==
    <>[](hosted = "on" /\ links = Dir /\ clients = 0 /\ goal = 0 /\ stash = "set")
        => []<>Reachable

\* "Refresh at a third of the TTL so a couple of missed passes still can't let
\* an entry lapse" (node.rs:5075-5076): once there, it is there at every pass.
EntryNeverLapses == [][(Reachable /\ hosted = "on") => Reachable']_pubVars
===========================================================================

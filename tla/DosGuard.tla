----------------------------- MODULE DosGuard -----------------------------
(* dos.rs and its callers in node.rs: what each address costs us. A bucket   *)
(* of circuit tokens, and the slots of connections whose handshake is under  *)
(* way. Addresses of consensus relays are exempt, and the list changes with  *)
(* the consensus. An idle address is forgotten.                              *)
EXTENDS Naturals, FiniteSets

CONSTANTS Addr, Link,     \* addresses, connections
          MaxConns,       \* MAX_CONNS_PER_IP
          Ceiling,        \* MAX_CIRCUITS_PER_MIN + CIRCUIT_BURST, in tokens
          StaleAfter,     \* STALE_AFTER, in the time one token takes
          DosEnd          \* bound: the last tick

\* Forgetting an address for StaleAfter gives it no token it had not regained.
ASSUME DosAssumption ==
    /\ MaxConns \in Nat \ {0} /\ Ceiling \in Nat \ {0} /\ DosEnd \in Nat
    /\ StaleAfter \in Nat /\ StaleAfter >= Ceiling

VARIABLES
    client,      \* addr -> [tokens, refilled, conns, seen], absent when unknown
    exempt,      \* addresses of relays in the consensus
    slot,        \* link -> addr while its ConnSlot lives
    established, \* link -> addr of a registered peer
    dosNow,
    ideal        \* the bucket of an address that is never forgotten

dosVars == <<client, exempt, slot, established, dosNow, ideal>>

Least(a, b) == IF a < b THEN a ELSE b
Known == DOMAIN client
Fresh == [tokens |-> Ceiling, refilled |-> dosNow, conns |-> 0, seen |-> dosNow]
Stats(a) == IF a \in Known THEN client[a] ELSE Fresh
Noted(a, stats) == [b \in Known \union {a} |-> IF b = a THEN stats ELSE client[b]]

DosInit ==
    /\ client = [a \in {} |-> Fresh] /\ exempt = {}
    /\ slot = [l \in {} |-> 0] /\ established = [l \in {} |-> 0]
    /\ dosNow = 0 /\ ideal = [a \in Addr |-> Ceiling]

\* refill, to the present.
Refilled(stats) ==
    [stats EXCEPT !.tokens = Least(Ceiling, @ + (dosNow - stats.refilled)),
                  !.refilled = dosNow]

\* allow_circuit: the address is seen and its bucket refilled, and a token goes
\* if there is one.
AllowsCircuit(a) == Refilled(Stats(a)).tokens >= 1
Charged(a) ==
    [Refilled([Stats(a) EXCEPT !.seen = dosNow]) EXCEPT !.tokens = IF @ >= 1 THEN @ - 1 ELSE @]

\* A CREATE over a link: the address pays before the handshake is computed.
CreateArrives(a) ==
    /\ a \notin exempt
    /\ client' = Noted(a, Charged(a))
    /\ ideal' = [ideal EXCEPT ![a] = IF AllowsCircuit(a) /\ @ > 0 THEN @ - 1 ELSE @]
    /\ UNCHANGED <<exempt, slot, established, dosNow>>

Used == DOMAIN slot \union DOMAIN established
Held(a) == {l \in DOMAIN slot : slot[l] = a}

\* handle_incoming: allow_connection, then the ConnSlot. An exempt address is
\* let in and not counted.
HandleIncoming(l, a) ==
    /\ l \notin Used
    /\ LET st == [Stats(a) EXCEPT !.seen = dosNow]
       IN  \/ /\ a \notin exempt /\ st.conns >= MaxConns
              /\ client' = Noted(a, st)
              /\ UNCHANGED slot
           \/ /\ a \in exempt \/ st.conns < MaxConns
              /\ client' = IF a \in exempt THEN client
                           ELSE Noted(a, [st EXCEPT !.conns = @ + 1])
              /\ slot' = [k \in DOMAIN slot \union {l} |-> IF k = l THEN a ELSE slot[k]]
    /\ UNCHANGED <<exempt, established, dosNow, ideal>>

\* release_connection, of an address that is still known.
Released(l) ==
    LET a == slot[l]
    IN  IF a \notin Known THEN client
        ELSE Noted(a, [client[a] EXCEPT !.conns = IF @ > 0 THEN @ - 1 ELSE 0,
                                        !.seen = dosNow])

\* Mutant: only the happy path gives the slot back.
HandshakeFails_kept(l) ==
    /\ l \in DOMAIN slot
    /\ slot' = [k \in DOMAIN slot \ {l} |-> slot[k]]
    /\ UNCHANGED <<client, exempt, established, dosNow, ideal>>

\* The handshake fails or times out, or the peer is refused: ConnSlot::drop.
HandshakeFails(l) ==
    /\ l \in DOMAIN slot
    /\ client' = Released(l)
    /\ slot' = [k \in DOMAIN slot \ {l} |-> slot[k]]
    /\ UNCHANGED <<exempt, established, dosNow, ideal>>

\* register_peer returns once it has spawned the link's tasks, and with it
\* handle_incoming: the slot goes while the link stays.
Registers(l) ==
    /\ l \in DOMAIN slot
    /\ client' = Released(l)
    /\ slot' = [k \in DOMAIN slot \ {l} |-> slot[k]]
    /\ established' = [k \in DOMAIN established \union {l} |->
                         IF k = l THEN slot[l] ELSE established[k]]
    /\ UNCHANGED <<exempt, dosNow, ideal>>

LinkEnds(l) ==
    /\ l \in DOMAIN established
    /\ established' = [k \in DOMAIN established \ {l} |-> established[k]]
    /\ UNCHANGED <<client, exempt, slot, dosNow, ideal>>

\* cleanup's condition.
Stale(stats) == stats.conns = 0 /\ dosNow - stats.seen >= StaleAfter

\* guard_refresh_loop: the exemptions of the present consensus, then cleanup.
RefreshGuard ==
    /\ exempt' \in {{}, {CHOOSE a \in Addr : TRUE}}
    /\ client' = [a \in {b \in Known : ~Stale(client[b])} |-> client[a]]
    /\ UNCHANGED <<slot, established, dosNow, ideal>>

DosTick ==
    /\ dosNow < DosEnd
    /\ dosNow' = dosNow + 1
    /\ ideal' = [a \in Addr |-> Least(Ceiling, ideal[a] + 1)]
    /\ UNCHANGED <<client, exempt, slot, established>>

DosNext ==
    \/ \E a \in Addr : CreateArrives(a) \/ \E l \in Link : HandleIncoming(l, a)
    \/ \E l \in Link : HandshakeFails(l) \/ Registers(l) \/ LinkEnds(l)
    \/ RefreshGuard \/ DosTick

DosSpec == DosInit /\ [][DosNext]_dosVars

---------------------------------------------------------------------------
DosTypeOK ==
    /\ Known \subseteq Addr /\ exempt \subseteq Addr
    /\ \A a \in Known : client[a] \in
         [tokens : 0 .. Ceiling, refilled : 0 .. dosNow, conns : 0 .. MaxConns, seen : 0 .. dosNow]
    /\ DOMAIN slot \subseteq Link /\ DOMAIN established \subseteq Link
    /\ dosNow \in 0 .. DosEnd /\ ideal \in [Addr -> 0 .. Ceiling]

\* Slots never leak: an address is charged for no connection whose handshake
\* is over, however it ended and whatever the consensus did to its exemption
\* meanwhile, so an honest client is never locked out (dos.rs:186-187).
NoSlotLeaks ==
    \A a \in Known : client[a].conns <= Cardinality(Held(a))

\* Being forgotten earns nothing: the tokens an address has, or would start
\* with, are never more than those of one that is always remembered.
ForgettingEarnsNothing ==
    \A a \in Addr : Refilled(Stats(a)).tokens <= ideal[a]

\* The account of an address is what it holds and what it has spent, whatever was
\* exempted, evicted or forgotten meanwhile.
AccountsHold == NoSlotLeaks /\ ForgettingEarnsNothing
===========================================================================

------------------------------ MODULE LinkPair ------------------------------
(***************************************************************************)
(* Two nodes, the connections they open to each other and what each lists  *)
(* of the other: the handshake as dialler and as responder, registration,  *)
(* the reader, the padding that keeps an entry fresh, the reaper, and the  *)
(* probe of a relay (node.rs).  PeerRegistry has one node's side of this   *)
(* in more detail.                                                         *)
(*                                                                         *)
(* A connection may stall: nothing of it arrives, for a time or for good.  *)
(* HANDSHAKE_TIMEOUT may run out at any moment, and does if nothing comes. *)
(***************************************************************************)
EXTENDS Naturals, Sequences

CONSTANTS End,          \* the two nodes
          Conn,         \* connections
          Dialler,      \* the node that opens each: a function from Conn
          Probe,        \* those opened by probe_relay
          StaleAfter,   \* STALE_PEER_SECS, in ticks
          MaxStalls, MaxReadErrors   \* bounds: stalls, readers that fail on what they read

ASSUME LinkPairAssumption ==
    /\ Dialler \in [Conn -> End] /\ Probe \subseteq Conn
    /\ StaleAfter \in Nat \ {0} /\ MaxStalls \in Nat /\ MaxReadErrors \in Nat

VARIABLES side,     \* each end of each connection: "idle", "dialling", the message it awaits
                    \* ("challenge", "hello", "handshake" or "ack"), "open" (its reader runs),
                    \* "deaf" (the reader is gone, writer and padding hold the socket) or "dropped"
          pairSent,     \* what is on its way to each end, in order
          listed,   \* peers of each node: the connection of its entry for the other, or None
          age,      \* how long each end has not heard the other
          credible, \* the nodes whose certificate and proof of work verify
          stalled,  \* the connections nothing of which arrives
          stalls, readErrors
pairVars == <<side, pairSent, listed, age, credible, stalled, stalls, readErrors>>

None == 0
Other(n) == CHOOSE m \in End : m # n
Responder(c) == Other(Dialler[c])
Sides(c, n, s) == side' = [side EXCEPT ![c][n] = s]
BothSides(c, s, t) == side' = [side EXCEPT ![c] = [n \in End |-> IF n = Dialler[c] THEN s ELSE t]]
Send(c, n, msgs) == pairSent' = [pairSent EXCEPT ![c][n] = @ \o msgs]
\* The next message for n has come.
Arrives(c, n, msg) == c \notin stalled /\ pairSent[c][n] # <<>> /\ pairSent[c][n][1] = msg
Rest(c, n) == SubSeq(pairSent[c][n], 2, Len(pairSent[c][n]))

-----------------------------------------------------------------------------
(* The dialler: connect and probe_relay. *)

\* A loop dials the node it has no entry for; a probe is made whatever the entries.
Dial(c) ==
    /\ side[c] = [n \in End |-> "idle"] /\ (c \notin Probe => listed[Dialler[c]] = None)
    /\ Sides(c, Dialler[c], "dialling") /\ UNCHANGED <<pairSent, listed, age, stalled, stalls, readErrors, credible>>

\* The connection is made; the responder's task starts by sending its challenge.
Dialled(c) ==
    /\ side[c][Dialler[c]] = "dialling" /\ c \notin stalled
    /\ BothSides(c, "challenge", "hello") /\ Send(c, Dialler[c], <<"challenge">>)
    /\ UNCHANGED <<listed, age, stalled, stalls, readErrors, credible>>
DialFails(c) ==
    /\ side[c][Dialler[c]] = "dialling" /\ BothSides(c, "dropped", "dropped")
    /\ UNCHANGED <<pairSent, listed, age, stalled, stalls, readErrors, credible>>

\* POW_CHALLENGE; CLIENT_HELLO and HANDSHAKE follow each other.
RecvChallenge(c) ==
    LET n == Dialler[c] IN
    /\ side[c][n] = "challenge" /\ Arrives(c, n, "challenge") /\ Sides(c, n, "ack")
    /\ pairSent' = [pairSent EXCEPT ![c] = [m \in End |-> IF m = n THEN Rest(c, n) ELSE @[m] \o <<"hello", "handshake">>]]
    /\ UNCHANGED <<listed, age, stalled, stalls, readErrors, credible>>

-----------------------------------------------------------------------------
(* register_peer: an entry already there wins, and the new connection is dropped. *)

Registers(c, n) ==
    IF listed[n] # None THEN Sides(c, n, "dropped") /\ UNCHANGED listed
    ELSE Sides(c, n, "open") /\ listed' = [listed EXCEPT ![n] = c]

\* HANDSHAKE_ACK: connect registers the peer, probe_relay drops the connection.
RecvAck(c) ==
    LET n == Dialler[c] IN
    /\ side[c][n] = "ack" /\ Arrives(c, n, "ack")
    /\ IF c \in Probe THEN Sides(c, n, "dropped") /\ UNCHANGED listed ELSE Registers(c, n)
    /\ pairSent' = [pairSent EXCEPT ![c][n] = Rest(c, n)] /\ age' = [age EXCEPT ![c][n] = 0]
    /\ UNCHANGED <<stalled, stalls, readErrors, credible>>

-----------------------------------------------------------------------------
(* The responder: handle_incoming. *)

RecvHello(c) ==
    LET n == Responder(c) IN
    /\ side[c][n] = "hello" /\ Arrives(c, n, "hello") /\ Sides(c, n, "handshake")
    /\ pairSent' = [pairSent EXCEPT ![c][n] = Rest(c, n)]
    /\ UNCHANGED <<listed, age, stalled, stalls, readErrors, credible>>

\* The certificate and the admission proof of work are checked, then the ACK is sent
\* and the peer registered.
RecvHandshake(c) ==
    LET n == Responder(c)
        Reply(msg) == pairSent' = [pairSent EXCEPT ![c] = [m \in End |-> IF m = n THEN Rest(c, n) ELSE Append(@[m], msg)]]
    IN
    /\ side[c][n] = "handshake" /\ Arrives(c, n, "handshake")
    /\ IF Dialler[c] \in credible
       THEN Registers(c, n) /\ Reply("ack") /\ age' = [age EXCEPT ![c][n] = 0]
       ELSE Sides(c, n, "dropped") /\ Reply("reject") /\ UNCHANGED <<listed, age>>
    /\ UNCHANGED <<stalled, stalls, readErrors, credible>>

\* Which waits have a timeout.
TimedWait == {"hello", "handshake", "ack"}

\* The handshake fails at n: its wait times out, it is rejected, or the other end is gone.
HandshakeFails(c, n) ==
    /\ \/ side[c][n] \in TimedWait
       \/ side[c][n] = "ack" /\ Arrives(c, n, "reject")
       \/ side[c][n] \in {"challenge", "hello", "handshake", "ack"} /\ c \notin stalled /\ pairSent[c][n] = <<>>
          /\ side[c][Other(n)] = "dropped"
    /\ Sides(c, n, "dropped") /\ UNCHANGED <<pairSent, listed, age, stalled, stalls, readErrors, credible>>

-----------------------------------------------------------------------------
(* An open link. *)

\* Mutant: the entry stays.
Unlists_not(n) == UNCHANGED listed
Unlists(n) == listed' = [listed EXCEPT ![n] = None]

\* The reader ends with the connection, or on a frame it cannot read, and takes the
\* entry of that node id with it; writer and padding go on.
ReaderEnds(c, n) ==
    /\ side[c][n] = "open"
    /\ \/ c \notin stalled /\ pairSent[c][n] = <<>> /\ side[c][Other(n)] = "dropped" /\ UNCHANGED readErrors
       \/ readErrors < MaxReadErrors /\ readErrors' = readErrors + 1
    /\ Sides(c, n, "deaf") /\ Unlists(n)
    /\ UNCHANGED <<pairSent, age, stalled, stalls, credible>>

\* The padding of each end, once a second, is what keeps the other's entry fresh.
Audible(c, n) == c \notin stalled /\ side[c][n] = "open" /\ side[c][Other(n)] \in {"open", "deaf"}
PairTick ==
    /\ \E c \in Conn, n \in End : side[c][n] = "open" /\ ~Audible(c, n) /\ age[c][n] < StaleAfter
    /\ age' = [c \in Conn |-> [n \in End |->
          IF side[c][n] # "open" \/ Audible(c, n) THEN 0 ELSE IF age[c][n] < StaleAfter THEN age[c][n] + 1 ELSE StaleAfter]]
    /\ UNCHANGED <<side, pairSent, listed, stalled, stalls, readErrors, credible>>

\* reap_dead_peers takes the entry; its tasks go on.
Reap(n) ==
    /\ listed[n] # None /\ age[listed[n]][n] >= StaleAfter
    /\ listed' = [listed EXCEPT ![n] = None]
    /\ UNCHANGED <<side, pairSent, age, stalled, stalls, readErrors, credible>>

\* The network.
Stall(c) ==
    /\ stalls < MaxStalls /\ side[c] # [n \in End |-> "idle"] /\ c \notin stalled
    /\ stalled' = stalled \cup {c} /\ stalls' = stalls + 1 /\ UNCHANGED <<side, pairSent, listed, age, readErrors, credible>>
Resume(c) ==
    /\ c \in stalled /\ stalled' = stalled \ {c}
    /\ age' = [age EXCEPT ![c] = [n \in End |-> 0]]
    /\ UNCHANGED <<side, pairSent, listed, stalls, readErrors, credible>>

\* The socket is gone at both ends, and the connection may stand for a new one.
Over(c) ==
    /\ \E n \in End : side[c][n] = "dropped" /\ side[c][Other(n)] \in {"dropped", "deaf"}
    /\ side' = [side EXCEPT ![c] = [n \in End |-> "idle"]] /\ pairSent' = [pairSent EXCEPT ![c] = [n \in End |-> <<>>]]
    /\ age' = [age EXCEPT ![c] = [n \in End |-> 0]] /\ stalled' = stalled \ {c}
    /\ UNCHANGED <<listed, stalls, readErrors, credible>>

-----------------------------------------------------------------------------
PairInit ==
    /\ side = [c \in Conn |-> [n \in End |-> "idle"]] /\ pairSent = [c \in Conn |-> [n \in End |-> <<>>]]
    /\ listed = [n \in End |-> None] /\ age = [c \in Conn |-> [n \in End |-> 0]]
    /\ credible \in {End} \cup {End \ {n} : n \in End}
    /\ stalled = {} /\ stalls = 0 /\ readErrors = 0

Progress(c) ==
    \/ Dialled(c) \/ DialFails(c) \/ RecvChallenge(c) \/ RecvAck(c) \/ RecvHello(c) \/ RecvHandshake(c)
    \/ \E n \in End : HandshakeFails(c, n) \/ ReaderEnds(c, n)
PairNext ==
    \/ \E c \in Conn : Dial(c) \/ Progress(c) \/ Stall(c) \/ Resume(c) \/ Over(c)
    \/ \E n \in End : Reap(n)
    \/ PairTick

\* Tasks run, timeouts fire and what is sent arrives, unless the connection stalls, which
\* may be for good; dialling is up to the loops and need not happen.
PairFairness ==
    /\ \A c \in Conn : WF_pairVars(Progress(c)) /\ \A n \in End : WF_pairVars(HandshakeFails(c, n))
    /\ WF_pairVars(PairTick) /\ \A n \in End : WF_pairVars(Reap(n))
PairSpec == PairInit /\ [][PairNext]_pairVars /\ PairFairness

-----------------------------------------------------------------------------
PairTypeOK ==
    /\ side \in [Conn -> [End -> {"idle", "dialling", "challenge", "hello", "handshake", "ack", "open", "deaf", "dropped"}]]
    /\ \A c \in Conn, n \in End : Len(pairSent[c][n]) <= 2
    /\ listed \in [End -> Conn \cup {None}] /\ age \in [Conn -> [End -> 0..StaleAfter]]
    /\ credible \subseteq End /\ stalled \subseteq Conn /\ stalls \in 0..MaxStalls /\ readErrors \in 0..MaxReadErrors

\* A responder never waits for good on a dialler that went away or fell silent: the
\* connection ends or is registered (HANDSHAKE_TIMEOUT in handle_incoming).
IncomingEnds ==
    \A c \in Conn : []<>(side[c][Responder(c)] \notin {"hello", "handshake"})

\* A node does not go on listing a peer that dropped the connection of its entry, as a
\* dialler does that timed out, that only probed, or that had a link already.
DroppedIsUnlisted ==
    \A c \in Conn, n \in End :
        []<>~(listed[n] = c /\ side[c][Other(n)] = "dropped")

\* Both ends of a connection let go of it: the responder of a dialler that fell
\* silent, and the table of a connection the peer has dropped.
EndsLetGo == IncomingEnds /\ DroppedIsUnlisted

\* Padding makes a live link audible and the reaper takes the rest
\* (node.rs 680-684): a node lists a peer only while the peer reads that link.
\* (Violated: the reader is gone and the padding goes on.)
ListedIsHeard ==
    \A c \in Conn, n \in End : []<>~(listed[n] = c /\ side[c][Other(n)] = "deaf")
=============================================================================

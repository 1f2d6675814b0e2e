---------------------------- MODULE PeerRegistry ----------------------------
(***************************************************************************)
(* The table of peer links each node keeps (PhiNode.peers, keyed by node   *)
(* id) and the life of the connections behind it: the dial, the duplicate  *)
(* check and the insertion of register_peer, the reader and writer tasks   *)
(* of an end, the silent-peer reaper, crashes and network outages.         *)
(*                                                                         *)
(* The duplicate check reads the table under one lock and the insertion    *)
(* takes another, so the two are separate steps.  An end whose reader task *)
(* has ended keeps its writer and padding tasks: they hold the stream.     *)
(***************************************************************************)
EXTENDS Naturals, FiniteSets

CONSTANTS
  Nodes,      \* the nodes
  Dialers,    \* those that re-dial lost links (every one but pure listeners)
  Conns,      \* connection identities; reused once both ends are gone
  NoConn,     \* no entry in the table
  MaxFaults   \* bound: read errors, outages and crashes

ASSUME DialersAssumption == Dialers \subseteq Nodes
ASSUME NoConnAssumption  == NoConn \notin Conns
ASSUME FaultsAssumption  == MaxFaults \in Nat

VARIABLES
  ends,       \* ends[c]: the state of each node's end of connection c
  peers,      \* peers[n][m]: the connection n's table holds for m, or NoConn
  faults      \* faults injected so far

vars == <<ends, peers, faults>>

(***************************************************************************)
(* "none": this node has no part in the connection; "shook": handshake     *)
(* done, register_peer entered; "checked": not a duplicate; "live": reader *)
(* and writer run; "deaf": the reader ended, writer and padding go on;     *)
(* "shut": the stream was dropped; "gone": cut off with no TCP close.      *)
(***************************************************************************)
EndStates == {"none", "shook", "checked", "live", "deaf", "shut", "gone"}

Over(c, n) == ends[c][n] \in {"none", "shut", "gone"}

\* The other end of n's connection c.
Link(c, n, m) == n # m /\ ends[c][n] # "none" /\ ends[c][m] # "none"

\* Mutant: only a closed stream counts; a powered-off peer is not noticed.
Silent_closed(c, m) == ends[c][m] = "shut"

\* m's end writes nothing any more; any other end is heard every second.
Silent(c, m) == ends[c][m] \in {"shut", "gone"}

SetEnd(c, n, s) == ends' = [ends EXCEPT ![c][n] = s]

-----------------------------------------------------------------------------

Init ==
  /\ ends = [c \in Conns |-> [n \in Nodes |-> "none"]]
  /\ peers = [n \in Nodes |-> [m \in Nodes |-> NoConn]]
  /\ faults = 0

\* maintain_links_from_consensus and the guard dialer: dial a relay that the
\* table has no link to; connect and handle_incoming complete the handshake.
Dial(n, m, c) ==
  /\ n \in Dialers /\ n # m
  /\ peers[n][m] = NoConn
  /\ \A k \in Nodes : Over(c, k)
  /\ ends' = [ends EXCEPT ![c] = [k \in Nodes |->
                IF k \in {n, m} THEN "shook" ELSE "none"]]
  /\ UNCHANGED <<peers, faults>>

\* The dialling end goes away after the handshake: probe_relay drops its
\* stream, a bounded dial times out before register_peer.
Abandon(n, c) ==
  /\ n \in Dialers /\ ends[c][n] = "shook"
  /\ faults < MaxFaults /\ faults' = faults + 1
  /\ SetEnd(c, n, "shut")
  /\ UNCHANGED peers

\* register_peer, "reject already-connected peers": return, dropping the stream.
CheckDuplicate(n, m, c) ==
  /\ Link(c, n, m) /\ ends[c][n] = "shook"
  /\ SetEnd(c, n, IF peers[n][m] # NoConn THEN "shut" ELSE "checked")
  /\ UNCHANGED <<peers, faults>>

\* register_peer, the insertion; writer, padding and reader tasks start.
Register(n, m, c) ==
  /\ Link(c, n, m) /\ ends[c][n] = "checked"
  /\ SetEnd(c, n, "live")
  /\ peers' = [peers EXCEPT ![n][m] = c]
  /\ UNCHANGED faults

\* Mutant: the reader task leaves its entry behind.
ReaderEnds_stays(n, m, c) ==
  /\ SetEnd(c, n, "deaf")
  /\ UNCHANGED peers

\* The end of the reader task: peers.remove(&peer_id), whichever connection
\* the table holds for that peer by now.
ReaderEnds(n, m, c) ==
  /\ SetEnd(c, n, "deaf")
  /\ peers' = [peers EXCEPT ![n][m] = NoConn]

\* A link cell does not open (or parse): recv_session returns an error.
ReadError(n, m, c) ==
  /\ Link(c, n, m) /\ ends[c][n] = "live"
  /\ ends[c][m] \in {"live", "deaf"}
  /\ faults < MaxFaults /\ faults' = faults + 1
  /\ ReaderEnds(n, m, c)

\* The stream is closed by the far end, or TCP gives up on a far end that
\* went without closing it.
ReadClosed(n, m, c) ==
  /\ Link(c, n, m) /\ ends[c][n] = "live"
  /\ Silent(c, m)
  /\ ReaderEnds(n, m, c)
  /\ UNCHANGED faults

\* The writer's next write fails; with the reader gone too, the stream goes.
WriteFails(n, m, c) ==
  /\ Link(c, n, m) /\ ends[c][n] = "deaf"
  /\ Silent(c, m)
  /\ SetEnd(c, n, "shut")
  /\ UNCHANGED <<peers, faults>>

\* reap_dead_peers: nothing heard for STALE_PEER_SECS.  Only the table entry
\* goes; the end's tasks are not told.
Reap(n, m) ==
  LET c == peers[n][m] IN
  /\ c # NoConn
  /\ Silent(c, m)
  /\ peers' = [peers EXCEPT ![n][m] = NoConn]
  /\ UNCHANGED <<ends, faults>>

\* Hard power-off and restart: an empty table, and no TCP close is sent.
Crash(n) ==
  /\ faults < MaxFaults /\ faults' = faults + 1
  /\ ends' = [c \in Conns |-> [ends[c] EXCEPT ![n] = IF @ = "none" THEN @ ELSE "gone"]]
  /\ peers' = [peers EXCEPT ![n] = [m \in Nodes |-> NoConn]]

-----------------------------------------------------------------------------

Progress(n, m) ==
  \/ Reap(n, m)
  \/ \E c \in Conns : \/ CheckDuplicate(n, m, c) \/ Register(n, m, c)
                      \/ ReadClosed(n, m, c) \/ WriteFails(n, m, c)

Next ==
  \/ \E n, m \in Nodes : \/ Progress(n, m)
                         \/ \E c \in Conns : Dial(n, m, c) \/ ReadError(n, m, c)
  \/ \E n \in Nodes : Crash(n) \/ \E c \in Conns : Abandon(n, c)

Spec == Init /\ [][Next]_vars

\* Every task of a running node is eventually scheduled, timers included; a
\* lost link is re-dialled every minute.
Fairness ==
  /\ \A n, m \in Nodes : WF_vars(Reap(n, m))
  /\ \A n, m \in Nodes, c \in Conns :
       /\ WF_vars(CheckDuplicate(n, m, c)) /\ WF_vars(Register(n, m, c))
       /\ WF_vars(ReadClosed(n, m, c)) /\ WF_vars(WriteFails(n, m, c))
  /\ \A n, m \in Nodes : WF_vars(\E c \in Conns : Dial(n, m, c))

FairSpec == Spec /\ Fairness

-----------------------------------------------------------------------------

TypeOK ==
  /\ ends \in [Conns -> [Nodes -> EndStates]]
  /\ peers \in [Nodes -> [Nodes -> Conns \cup {NoConn}]]
  /\ faults \in 0 .. MaxFaults

(***************************************************************************)
(* A table entry is a link somebody reads: whatever order duplicate        *)
(* connections, read errors, reaps and crashes come in, the connection a   *)
(* node's table holds for a peer has its reader task running at that node. *)
(***************************************************************************)
RegisteredHasReader ==
  \A n, m \in Nodes : peers[n][m] # NoConn =>
    /\ ends[peers[n][m]][n] = "live"
    /\ Link(peers[n][m], n, m)

\* n's table holds a link to m whose far end is gone.
Ghost(n, m) ==
  peers[n][m] # NoConn /\ ends[peers[n][m]][m] \in {"shut", "gone"}

(***************************************************************************)
(* A far end that vanished (crashed, or dropped the stream) does not stay  *)
(* in the table as a ghost: the reaper or the reader takes it out.         *)
(***************************************************************************)
SilentPeerRemoved ==
  \A n, m \in Nodes : n # m => []<>~ Ghost(n, m)
=============================================================================

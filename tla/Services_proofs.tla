-------------------------- MODULE Services_proofs ---------------------------
(***************************************************************************)
(* What the peers of a node, the fetches over a rendezvous and the         *)
(* messages of its users keep, each on its own and for any number of       *)
(* nodes, connections, fetches, chunks, messages and faults.               *)
(***************************************************************************)
EXTENDS PeerRegistry, Rendezvous, Messaging, SeqLemmas, FunctionTheorems, SequenceTheorems

(* The peer table never holds a link without a reader. *)

(***************************************************************************)
(* A connection has two ends.  It is what lets a node forget a peer when a *)
(* reader ends: no other peer's entry can hold the same connection.        *)
(***************************************************************************)
TwoEnds ==
  \A c \in Conns : \A n, m, k \in Nodes :
    (n # m /\ n # k /\ m # k) => \E e \in {n, m, k} : ends[c][e] = "none"

RegistryInv == TypeOK /\ TwoEnds /\ RegisteredHasReader

\* Giving a connected node's end another state leaves the others as they are.
LEMMA SetEndKeepsShape ==
  ASSUME TypeOK, TwoEnds, NEW c \in Conns, NEW n \in Nodes, NEW s \in EndStates \ {"none"},
         ends[c][n] # "none", SetEnd(c, n, s)
  PROVE  /\ ends' \in [Conns -> [Nodes -> EndStates]]
         /\ TwoEnds'
         /\ \A d \in Conns, m \in Nodes :
              ends'[d][m] = IF d = c /\ m = n THEN s ELSE ends[d][m]
<1>1. ends \in [Conns -> [Nodes -> EndStates]] BY DEF TypeOK
<1>2. \A d \in Conns, m \in Nodes :
        ends'[d][m] = IF d = c /\ m = n THEN s ELSE ends[d][m]
  BY <1>1 DEF SetEnd
<1>3. ends' \in [Conns -> [Nodes -> EndStates]] BY <1>1 DEF SetEnd
<1>4. \A d \in Conns, m \in Nodes : ends[d][m] = "none" => ends'[d][m] = "none"
  BY <1>2
<1>5. TwoEnds' BY <1>4 DEF TwoEnds
<1>. QED BY <1>2, <1>3, <1>5

LEMMA InitRegistryInv == ASSUME Init PROVE RegistryInv
<1>1. "none" \in EndStates BY DEF EndStates
<1>2. TypeOK BY <1>1, FaultsAssumption DEF Init, TypeOK
<1>3. TwoEnds BY DEF Init, TwoEnds
<1>4. RegisteredHasReader BY DEF Init, RegisteredHasReader
<1>. QED BY <1>2, <1>3, <1>4 DEF RegistryInv

LEMMA DialKeepsInv ==
  ASSUME RegistryInv, NEW n \in Nodes, NEW m \in Nodes, NEW c \in Conns, Dial(n, m, c)
  PROVE  RegistryInv'
<1>1. ends \in [Conns -> [Nodes -> EndStates]] BY DEF RegistryInv, TypeOK
<1>2. \A d \in Conns, k \in Nodes :
        ends'[d][k] = IF d # c THEN ends[d][k]
                      ELSE IF k \in {n, m} THEN "shook" ELSE "none"
  BY <1>1 DEF Dial
<1>3. TypeOK'
  <2>1. {"shook", "none"} \subseteq EndStates BY DEF EndStates
  <2>2. ends' \in [Conns -> [Nodes -> EndStates]] BY <1>1, <2>1 DEF Dial
  <2>. QED BY <2>2 DEF RegistryInv, TypeOK, Dial
<1>4. TwoEnds' BY <1>2 DEF RegistryInv, TwoEnds
<1>5. RegisteredHasReader'
  <2> SUFFICES ASSUME NEW a \in Nodes, NEW b \in Nodes, peers[a][b] # NoConn
               PROVE  /\ ends'[peers[a][b]][a] = "live"
                      /\ Link(peers[a][b], a, b)'
    BY DEF RegisteredHasReader, Dial, Link
  <2>1. /\ peers[a][b] \in Conns /\ ends[peers[a][b]][a] = "live"
        /\ Link(peers[a][b], a, b)
    BY DEF RegistryInv, TypeOK, RegisteredHasReader
  <2>2. peers[a][b] # c BY <2>1 DEF Dial, Over
  <2>. QED BY <2>1, <2>2, <1>2 DEF Link, Dial
<1>. QED BY <1>3, <1>4, <1>5 DEF RegistryInv

\* An end that is not "live" moves on; the table stays.
LEMMA UnregisteredEndMoves ==
  ASSUME RegistryInv, NEW c \in Conns, NEW n \in Nodes, NEW s \in EndStates \ {"none"},
         ends[c][n] \notin {"none", "live"}, SetEnd(c, n, s),
         peers' = peers, faults' \in 0 .. MaxFaults
  PROVE  RegistryInv'
<1>1. /\ ends' \in [Conns -> [Nodes -> EndStates]]
      /\ TwoEnds'
      /\ \A d \in Conns, m \in Nodes :
           ends'[d][m] = IF d = c /\ m = n THEN s ELSE ends[d][m]
  BY SetEndKeepsShape DEF RegistryInv
<1>2. TypeOK' BY <1>1 DEF RegistryInv, TypeOK
<1>3. RegisteredHasReader'
  <2> SUFFICES ASSUME NEW a \in Nodes, NEW b \in Nodes, peers[a][b] # NoConn
               PROVE  /\ ends'[peers[a][b]][a] = "live"
                      /\ Link(peers[a][b], a, b)'
    BY DEF RegisteredHasReader, Link
  <2>1. /\ peers[a][b] \in Conns /\ ends[peers[a][b]][a] = "live"
        /\ Link(peers[a][b], a, b)
    BY DEF RegistryInv, TypeOK, RegisteredHasReader
  <2>. QED BY <2>1, <1>1 DEF Link
<1>. QED BY <1>1, <1>2, <1>3 DEF RegistryInv

LEMMA RegisterKeepsInv ==
  ASSUME RegistryInv, NEW n \in Nodes, NEW m \in Nodes, NEW c \in Conns, Register(n, m, c)
  PROVE  RegistryInv'
<1>1. /\ ends' \in [Conns -> [Nodes -> EndStates]]
      /\ TwoEnds'
      /\ \A d \in Conns, k \in Nodes :
           ends'[d][k] = IF d = c /\ k = n THEN "live" ELSE ends[d][k]
  <2>1. "live" \in EndStates \ {"none"} BY DEF EndStates
  <2>2. ends[c][n] # "none" /\ SetEnd(c, n, "live") BY DEF Register
  <2>. QED BY <2>1, <2>2, SetEndKeepsShape DEF RegistryInv
<1>2. peers' \in [Nodes -> [Nodes -> Conns \cup {NoConn}]]
      /\ \A a, b \in Nodes : peers'[a][b] = IF a = n /\ b = m THEN c ELSE peers[a][b]
  BY DEF RegistryInv, TypeOK, Register
<1>3. TypeOK' BY <1>1, <1>2 DEF RegistryInv, TypeOK, Register
<1>4. RegisteredHasReader'
  <2> SUFFICES ASSUME NEW a \in Nodes, NEW b \in Nodes, peers'[a][b] # NoConn
               PROVE  /\ ends'[peers'[a][b]][a] = "live"
                      /\ a # b /\ ends'[peers'[a][b]][b] # "none"
    BY DEF RegisteredHasReader, Link
  <2>1. CASE a = n /\ b = m BY <2>1, <1>1, <1>2 DEF Register, Link
  <2>2. CASE ~ (a = n /\ b = m)
    <3>1. peers'[a][b] = peers[a][b] BY <2>2, <1>2
    <3>2. /\ peers[a][b] \in Conns /\ ends[peers[a][b]][a] = "live"
          /\ Link(peers[a][b], a, b)
      BY <3>1 DEF RegistryInv, TypeOK, RegisteredHasReader
    <3>. QED BY <3>1, <3>2, <1>1 DEF Link
  <2>. QED BY <2>1, <2>2
<1>. QED BY <1>1, <1>3, <1>4 DEF RegistryInv

LEMMA ReaderEndsKeepsInv ==
  ASSUME RegistryInv, NEW n \in Nodes, NEW m \in Nodes, NEW c \in Conns,
         Link(c, n, m), ends[c][n] = "live", ReaderEnds(n, m, c),
         faults' \in 0 .. MaxFaults
  PROVE  RegistryInv'
<1>1. /\ ends' \in [Conns -> [Nodes -> EndStates]]
      /\ TwoEnds'
      /\ \A d \in Conns, k \in Nodes :
           ends'[d][k] = IF d = c /\ k = n THEN "deaf" ELSE ends[d][k]
  <2>1. "deaf" \in EndStates \ {"none"} BY DEF EndStates
  <2>2. ends[c][n] # "none" /\ SetEnd(c, n, "deaf") BY DEF ReaderEnds
  <2>. QED BY <2>1, <2>2, SetEndKeepsShape DEF RegistryInv
<1>2. peers' \in [Nodes -> [Nodes -> Conns \cup {NoConn}]]
      /\ \A a, b \in Nodes : peers'[a][b] = IF a = n /\ b = m THEN NoConn ELSE peers[a][b]
  BY DEF RegistryInv, TypeOK, ReaderEnds
<1>3. TypeOK' BY <1>1, <1>2 DEF RegistryInv, TypeOK
<1>4. RegisteredHasReader'
  <2> SUFFICES ASSUME NEW a \in Nodes, NEW b \in Nodes, peers'[a][b] # NoConn
               PROVE  /\ ends'[peers'[a][b]][a] = "live"
                      /\ a # b /\ ends'[peers'[a][b]][b] # "none"
    BY DEF RegisteredHasReader, Link
  <2>1. peers'[a][b] = peers[a][b] /\ ~ (a = n /\ b = m) BY <1>2
  <2>2. /\ peers[a][b] \in Conns /\ ends[peers[a][b]][a] = "live"
        /\ Link(peers[a][b], a, b)
    BY <2>1 DEF RegistryInv, TypeOK, RegisteredHasReader
  \* Were it this connection, it would have three ends: n, m and b.
  <2>3. ~ (a = n /\ peers[a][b] = c)
    <3> SUFFICES ASSUME a = n, peers[a][b] = c PROVE FALSE
      OBVIOUS
    <3>1. b # m /\ n # m /\ n # b BY <2>1, <2>2 DEF Link
    <3>2. ends[c][n] # "none" /\ ends[c][m] # "none" /\ ends[c][b] # "none"
      BY <2>2 DEF Link
    <3>. QED BY <3>1, <3>2 DEF RegistryInv, TwoEnds
  <2>. QED BY <2>1, <2>2, <2>3, <1>1 DEF Link
<1>. QED BY <1>1, <1>3, <1>4 DEF RegistryInv

LEMMA ReapKeepsInv ==
  ASSUME RegistryInv, NEW n \in Nodes, NEW m \in Nodes, Reap(n, m)
  PROVE  RegistryInv'
<1>1. /\ peers' \in [Nodes -> [Nodes -> Conns \cup {NoConn}]]
      /\ \A a, b \in Nodes : peers'[a][b] = IF a = n /\ b = m THEN NoConn ELSE peers[a][b]
      /\ ends' = ends /\ faults' = faults
  BY DEF RegistryInv, TypeOK, Reap
<1>2. TypeOK' BY <1>1 DEF RegistryInv, TypeOK
<1>3. TwoEnds' BY <1>1 DEF RegistryInv, TwoEnds
<1>4. RegisteredHasReader' BY <1>1 DEF RegistryInv, RegisteredHasReader, Link
<1>. QED BY <1>2, <1>3, <1>4 DEF RegistryInv

LEMMA CrashKeepsInv ==
  ASSUME RegistryInv, NEW n \in Nodes, Crash(n)
  PROVE  RegistryInv'
<1>1. ends \in [Conns -> [Nodes -> EndStates]] BY DEF RegistryInv, TypeOK
<1>2. \A d \in Conns, k \in Nodes :
        ends'[d][k] = IF k = n /\ ends[d][k] # "none" THEN "gone" ELSE ends[d][k]
  BY <1>1 DEF Crash
<1>3. ends' \in [Conns -> [Nodes -> EndStates]]
  <2>1. "gone" \in EndStates BY DEF EndStates
  <2>. QED BY <1>1, <2>1 DEF Crash
<1>4. /\ peers' \in [Nodes -> [Nodes -> Conns \cup {NoConn}]]
      /\ \A a, b \in Nodes : peers'[a][b] = IF a = n THEN NoConn ELSE peers[a][b]
  BY DEF RegistryInv, TypeOK, Crash
<1>5. TypeOK'
  <2>1. faults' \in 0 .. MaxFaults BY FaultsAssumption DEF RegistryInv, TypeOK, Crash
  <2>. QED BY <1>3, <1>4, <2>1 DEF TypeOK
<1>6. TwoEnds' BY <1>2 DEF RegistryInv, TwoEnds
<1>7. RegisteredHasReader'
  <2> SUFFICES ASSUME NEW a \in Nodes, NEW b \in Nodes, peers'[a][b] # NoConn
               PROVE  /\ ends'[peers'[a][b]][a] = "live"
                      /\ a # b /\ ends'[peers'[a][b]][b] # "none"
    BY DEF RegisteredHasReader, Link
  <2>1. peers'[a][b] = peers[a][b] /\ a # n BY <1>4
  <2>2. /\ peers[a][b] \in Conns /\ ends[peers[a][b]][a] = "live"
        /\ Link(peers[a][b], a, b)
    BY <2>1 DEF RegistryInv, TypeOK, RegisteredHasReader
  <2>. QED BY <2>1, <2>2, <1>2 DEF Link
<1>. QED BY <1>5, <1>6, <1>7 DEF RegistryInv

LEMMA RegistrySafe == Spec => []RegistryInv
<1>1. Init => RegistryInv BY InitRegistryInv
<1>2. RegistryInv /\ [Next]_vars => RegistryInv'
  <2> SUFFICES ASSUME RegistryInv, [Next]_vars PROVE RegistryInv'
    OBVIOUS
  <2>0. /\ {"shut", "checked"} \subseteq EndStates \ {"none"}
        /\ faults \in 0 .. MaxFaults /\ MaxFaults \in Nat
    BY FaultsAssumption DEF EndStates, RegistryInv, TypeOK
  <2>1. ASSUME NEW n \in Nodes, NEW m \in Nodes, NEW c \in Conns, Dial(n, m, c)
        PROVE  RegistryInv'
    BY <2>1, DialKeepsInv
  <2>2. ASSUME NEW n \in Nodes, NEW m \in Nodes, NEW c \in Conns, CheckDuplicate(n, m, c)
        PROVE  RegistryInv'
    <3>1. /\ ends[c][n] \notin {"none", "live"} /\ peers' = peers
          /\ faults' \in 0 .. MaxFaults
          /\ \E s \in {"shut", "checked"} : SetEnd(c, n, s)
      BY <2>0, <2>2 DEF CheckDuplicate
    <3>. QED BY <3>1, <2>0, UnregisteredEndMoves
  <2>3. ASSUME NEW n \in Nodes, NEW c \in Conns, Abandon(n, c) PROVE RegistryInv'
    <3>1. /\ ends[c][n] \notin {"none", "live"} /\ peers' = peers
          /\ faults' \in 0 .. MaxFaults /\ SetEnd(c, n, "shut")
      BY <2>0, <2>3 DEF Abandon
    <3>. QED BY <3>1, <2>0, UnregisteredEndMoves
  <2>4. ASSUME NEW n \in Nodes, NEW m \in Nodes, NEW c \in Conns, Register(n, m, c)
        PROVE  RegistryInv'
    BY <2>4, RegisterKeepsInv
  <2>5. ASSUME NEW n \in Nodes, NEW m \in Nodes, NEW c \in Conns,
               ReadError(n, m, c) \/ ReadClosed(n, m, c)
        PROVE  RegistryInv'
    <3>1. /\ Link(c, n, m) /\ ends[c][n] = "live" /\ ReaderEnds(n, m, c)
          /\ faults' \in 0 .. MaxFaults
      BY <2>0, <2>5 DEF ReadError, ReadClosed
    <3>. QED BY <3>1, ReaderEndsKeepsInv
  <2>6. ASSUME NEW n \in Nodes, NEW m \in Nodes, NEW c \in Conns, WriteFails(n, m, c)
        PROVE  RegistryInv'
    <3>1. /\ ends[c][n] \notin {"none", "live"} /\ peers' = peers
          /\ faults' \in 0 .. MaxFaults /\ SetEnd(c, n, "shut")
      BY <2>0, <2>6 DEF WriteFails
    <3>. QED BY <3>1, <2>0, UnregisteredEndMoves
  <2>7. ASSUME NEW n \in Nodes, NEW m \in Nodes, Reap(n, m) PROVE RegistryInv'
    BY <2>7, ReapKeepsInv
  <2>8. ASSUME NEW n \in Nodes, Crash(n) PROVE RegistryInv'
    BY <2>8, CrashKeepsInv
  <2>9. CASE UNCHANGED vars
    BY <2>9 DEF vars, RegistryInv, TypeOK, TwoEnds, RegisteredHasReader, Link
  <2>. QED BY <2>1, <2>2, <2>3, <2>4, <2>5, <2>6, <2>7, <2>8, <2>9 DEF Next, Progress
<1>. QED BY <1>1, <1>2, PTL DEF Spec

(***************************************************************************)
(* The link a node's table holds for a peer has its reader task running    *)
(* (register_peer), in any network, through any interleaving of dials,     *)
(* duplicates, read errors, reaps and crashes.                             *)
(***************************************************************************)
THEOREM RegisteredAlwaysHasReader == Spec => []RegisteredHasReader
<1>1. RegistryInv => RegisteredHasReader BY DEF RegistryInv
<1>. QED BY <1>1, RegistrySafe, PTL

(***************************************************************************)
(* Type correctness of the registry.                                       *)
(***************************************************************************)
THEOREM RegistryTypeCorrect == Spec => []TypeOK
<1>1. RegistryInv => TypeOK BY DEF RegistryInv
<1>. QED BY <1>1, RegistrySafe, PTL

-----------------------------------------------------------------------------
(* A fetch over a rendezvous ends whole. *)

\* The cells of the paths.
RdvCells == {"est", "req", "estok", "r2", "r1", "chunk", "end"}
Occurs(s, cell) == Cardinality({i \in DOMAIN s : s[i] = cell})

\* The paths carry those cells.
RdvTyped ==
    /\ RdvTypeOK
    /\ up \in [Fetch -> Seq(RdvCells)] /\ down \in [Fetch -> Seq(RdvCells)]
    /\ hup \in [Fetch -> Seq(RdvCells)] /\ hdown \in [Fetch -> Seq(RdvCells)]

\* What a phase of hs_fetch holds at the client.
Holding(f) ==
    /\ fetch[f] \in {"idle", "rpDial", "rpBuild"} => (f \notin origin /\ rdr[f] = "idle")
    /\ fetch[f] = "failed" => f \notin origin
    /\ rdvWaiter[f] # "none" => fetch[f] \in {"armed", "awaiting"}
    /\ f \in collector => fetch[f] \in {"open", "reading"}
    /\ fetch[f] = "open" => f \in collector
    /\ "err" \in {rdr[f], rdvWaiter[f]} => f \notin origin
    /\ ("ok" \in {rdr[f], rdvWaiter[f]} \/ fetch[f] \in {"ready", "open", "reading"}) =>
         (f \in origin => f \in keysC)

\* What else of a fetch is in `origins`: its introduction circuit, from its build to
\* INTRODUCE1, and what a failed build left of a fetch that failed.
SpareHeld(f) ==
    /\ <<f, "intro">> \in spare => fetch[f] \in {"intro", "est", "armed"}
    /\ <<f, "half">> \in spare => fetch[f] \in {"clean", "failed"}

\* A path that was cut carries nothing.
CutIsEmpty(f) == f \in cut => /\ up[f] = <<>> /\ down[f] = <<>>
                             /\ hup[f] = <<>> /\ hdown[f] = <<>>

\* Requests under way; chunks of the response under way or taken; ends of it under way.
Requests(f) == Occurs(up[f], "req") + Occurs(hdown[f], "req")
Sent(f) == got[f] + Occurs(down[f], "chunk") + Occurs(hup[f], "chunk")
Ends(f) == Occurs(down[f], "end") + Occurs(hup[f], "end")
EndIsLast(s) == \A i, j \in DOMAIN s : (s[i] = "end" /\ s[j] = "chunk") => j < i

\* Before the request there is no response.
AskedLater(f) ==
    fetch[f] \notin {"reading", "clean", "done", "failed"} =>
        (Requests(f) = 0 /\ serving[f] = 0 /\ Sent(f) = 0 /\ Ends(f) = 0)

\* While the client reads, every chunk of the one response is accounted for.
Answering(f) ==
    (fetch[f] = "reading" /\ f \in collector /\ f \in origin /\ f \notin cut) =>
        /\ Requests(f) <= 1
        /\ Occurs(hdown[f], "req") > 0 => f \in bridged
        /\ Requests(f) > 0 => (serving[f] = 0 /\ Ends(f) = 0)
        /\ (serving[f] = 0 /\ Ends(f) = 0) => Sent(f) = 0
        /\ serving[f] > 0 => (Ends(f) = 0 /\ Sent(f) = serving[f] - 1 /\ f \in bridged)
        /\ Ends(f) > 0 => (Sent(f) = Chunks /\ f \in bridged)
        /\ EndIsLast(down[f]) /\ EndIsLast(hup[f])
        /\ Occurs(down[f], "end") > 0 => Occurs(hup[f], "chunk") = 0

\* The collector is taken away by the end of the response, and then all of it is there.
Whole(f) == (fetch[f] = "done" \/ (fetch[f] = "reading" /\ f \notin collector)) => got[f] = Chunks

\* What holds of a fetch.
RdvGood(f) == Holding(f) /\ CutIsEmpty(f) /\ AskedLater(f) /\ Answering(f) /\ Whole(f)
(***************************************************************************)
(* Why a fetch ends whole. A response is only as good as what of it is     *)
(* still under way, so the invariant counts: while the client reads on a   *)
(* path that is not cut, the chunks it has and those on the service's leg  *)
(* and on its own are those the service has sent, and no end is ahead of a *)
(* chunk. Whole alone would not be inductive: the end of a response says   *)
(* nothing of the chunks still behind it.                                  *)
(***************************************************************************)
RdvInv == RdvTyped /\ \A f \in Fetch : RdvGood(f)

-----------------------------------------------------------------------------
\* The occurrences of a cell on a path are a number, more than 0 if there is one.
LEMMA OccursIs ==
  ASSUME NEW s \in Seq(RdvCells), NEW cell
  PROVE  /\ IsFiniteSet({i \in DOMAIN s : s[i] = cell}) /\ Occurs(s, cell) \in Nat
         /\ Occurs(s, cell) > 0 <=> \E i \in DOMAIN s : s[i] = cell
<1> DEFINE I == {i \in DOMAIN s : s[i] = cell}
<1>1. IsFiniteSet(I)
  <2>1. Len(s) \in Nat /\ I \in SUBSET (1 .. Len(s))
    OBVIOUS
  <2>2. IsFiniteSet(1 .. Len(s))
    BY <2>1, FS_Interval
  <2>3. QED BY <2>1, <2>2, FS_Subset
<1>2. Cardinality(I) \in Nat /\ (Cardinality(I) = 0 <=> I = {})
  BY <1>1, FS_CardinalityType, FS_EmptySet
<1>3. I # {} <=> \E i \in DOMAIN s : s[i] = cell
  OBVIOUS
<1> HIDE DEF I
<1>4. Cardinality(I) > 0 <=> \E i \in DOMAIN s : s[i] = cell
  BY <1>2, <1>3
<1>5. QED BY <1>1, <1>2, <1>4 DEF Occurs, I

\* A path that was cut has none.
LEMMA OccursEmpty == \A cell : Occurs(<<>>, cell) = 0
BY FS_EmptySet DEF Occurs

\* A cell put on a path is one more of its kind, and is after the others.
LEMMA OccursAppend ==
  ASSUME NEW s \in Seq(RdvCells), NEW c \in RdvCells
  PROVE  /\ \A cell : Occurs(Append(s, c), cell) = Occurs(s, cell) + (IF c = cell THEN 1 ELSE 0)
         /\ (EndIsLast(s) /\ (c = "chunk" => Occurs(s, "end") = 0)) => EndIsLast(Append(s, c))
<1> DEFINE more == Append(s, c)
<1>1. /\ Len(s) \in Nat /\ DOMAIN s = 1 .. Len(s) /\ DOMAIN more = 1 .. Len(s) + 1
      /\ more[Len(s) + 1] = c /\ \A i \in 1 .. Len(s) : more[i] = s[i]
  OBVIOUS
<1>2. ASSUME NEW cell PROVE Occurs(more, cell) = Occurs(s, cell) + (IF c = cell THEN 1 ELSE 0)
  <2> DEFINE I == {i \in DOMAIN s : s[i] = cell}
             J == {i \in DOMAIN more : more[i] = cell}
  <2>1. IsFiniteSet(I) /\ Len(s) + 1 \notin I
    <3>1. IsFiniteSet(I)
      BY OccursIs
    <3>2. Len(s) + 1 \notin DOMAIN s
      BY <1>1
    <3>3. QED BY <3>1, <3>2
  <2> HIDE DEF more
  <2>2. J = IF c = cell THEN I \cup {Len(s) + 1} ELSE I
    BY <1>1
  <2>3. Cardinality(I \cup {Len(s) + 1}) = Cardinality(I) + 1
    BY <2>1, FS_AddElement
  <2>4. Cardinality(I) \in Nat
    BY <2>1, FS_CardinalityType
  <2> HIDE DEF I, J
  <2>5. Cardinality(J) = Cardinality(I) + (IF c = cell THEN 1 ELSE 0)
    BY <2>2, <2>3, <2>4
  <2>6. QED BY <2>5 DEF Occurs, I, J, more
<1>3. ASSUME EndIsLast(s), c = "chunk" => Occurs(s, "end") = 0 PROVE EndIsLast(more)
  <2>1. c = "chunk" => \A i \in 1 .. Len(s) : s[i] # "end"
    <3>1. Occurs(s, "end") > 0 <=> \E i \in DOMAIN s : s[i] = "end"
      BY OccursIs
    <3>2. QED BY <1>1, <1>3, <3>1
  <2> HIDE DEF more
  <2>2. SUFFICES ASSUME NEW i \in 1 .. Len(s) + 1, NEW j \in 1 .. Len(s) + 1, more[i] = "end", more[j] = "chunk"
                 PROVE  j < i
    BY <1>1 DEF EndIsLast
  <2>3. CASE i = Len(s) + 1
    <3>1. j # Len(s) + 1
      BY <1>1, <2>2, <2>3
    <3>2. QED BY <1>1, <2>3, <3>1
  <2>4. CASE i # Len(s) + 1
    <3>1. i \in 1 .. Len(s) /\ s[i] = "end"
      BY <1>1, <2>2, <2>4
    <3>2. j # Len(s) + 1
      BY <1>1, <2>1, <2>2, <3>1
    <3>3. j \in 1 .. Len(s) /\ s[j] = "chunk"
      BY <1>1, <2>2, <3>2
    <3>4. QED BY <1>1, <1>3, <3>1, <3>3 DEF EndIsLast
  <2>5. QED BY <2>3, <2>4
<1>4. QED BY <1>2, <1>3

\* The cell taken off a path is one less of its kind; after an end come no chunks.
LEMMA OccursTail ==
  ASSUME NEW s \in Seq(RdvCells), s # <<>>
  PROVE  /\ \A cell : Occurs(Tail(s), cell) = Occurs(s, cell) - (IF Head(s) = cell THEN 1 ELSE 0)
         /\ Occurs(s, Head(s)) > 0
         /\ EndIsLast(s) => EndIsLast(Tail(s))
         /\ (EndIsLast(s) /\ Head(s) = "end") => Occurs(s, "chunk") = 0
<1> DEFINE rest == Tail(s)
<1>1. /\ Len(s) \in Nat /\ Len(s) > 0 /\ DOMAIN s = 1 .. Len(s) /\ DOMAIN rest = 1 .. Len(s) - 1
      /\ Head(s) = s[1] /\ \A i \in 1 .. Len(s) - 1 : rest[i] = s[i + 1]
  OBVIOUS
<1>2. ASSUME NEW cell PROVE Occurs(rest, cell) = Occurs(s, cell) - (IF Head(s) = cell THEN 1 ELSE 0)
  <2> DEFINE I == {i \in DOMAIN s : s[i] = cell}
             J == {i \in DOMAIN rest : rest[i] = cell}
             shift == [i \in I \ {1} |-> i - 1]
  <2>1. IsFiniteSet(I)
    BY OccursIs
  <2> HIDE DEF rest
  <2>2. \A i \in I \ {1} : i \in 2 .. Len(s) /\ i - 1 \in J
    BY <1>1
  <2>3. \A j \in J : j + 1 \in I \ {1} /\ (j + 1) - 1 = j
    BY <1>1
  <2>4. I \ {1} \subseteq Nat
    BY <1>1
  <2>5. shift \in Bijection(I \ {1}, J)
    <3> HIDE DEF I, J
    <3>1. shift \in [I \ {1} -> J] /\ \A a, b \in I \ {1} : shift[a] = shift[b] => a = b
      BY <2>2, <2>4
    <3>2. \A j \in J : \E i \in I \ {1} : shift[i] = j
      BY <2>3
    <3> HIDE DEF shift
    <3>3. QED BY <3>1, <3>2, Fun_IsBij
  <2>6. IsFiniteSet(I \ {1}) /\ Cardinality(I \ {1}) = IF 1 \in I THEN Cardinality(I) - 1 ELSE Cardinality(I)
    BY <2>1, FS_RemoveElement
  <2>7. Cardinality(J) = Cardinality(I \ {1})
    BY <2>5, <2>6, FS_Bijection, Fun_ExistsBij
  <2>8. 1 \in I <=> Head(s) = cell
    BY <1>1
  <2>9. Cardinality(I) \in Nat
    BY <2>1, FS_CardinalityType
  <2> HIDE DEF I, J
  <2>10. Cardinality(J) = Cardinality(I) - (IF Head(s) = cell THEN 1 ELSE 0)
    BY <2>6, <2>7, <2>8, <2>9
  <2>11. QED BY <2>10 DEF Occurs, I, J, rest
<1> HIDE DEF rest
<1>3. Occurs(s, Head(s)) > 0
  <2>1. 1 \in DOMAIN s
    BY <1>1
  <2>2. QED BY <1>1, <2>1, OccursIs
<1>4. ASSUME EndIsLast(s) PROVE EndIsLast(rest)
  <2>1. SUFFICES ASSUME NEW i \in 1 .. Len(s) - 1, NEW j \in 1 .. Len(s) - 1, rest[i] = "end", rest[j] = "chunk"
                 PROVE  j < i
    BY <1>1 DEF EndIsLast
  <2>2. i + 1 \in 1 .. Len(s) /\ j + 1 \in 1 .. Len(s)
    BY <1>1
  <2>3. s[i + 1] = "end" /\ s[j + 1] = "chunk"
    BY <1>1, <2>1
  <2>4. j + 1 < i + 1
    BY <1>1, <1>4, <2>2, <2>3 DEF EndIsLast
  <2>5. QED BY <2>4, <1>1
<1>5. ASSUME EndIsLast(s), Head(s) = "end" PROVE Occurs(s, "chunk") = 0
  <2>1. ASSUME NEW j \in DOMAIN s, s[j] = "chunk" PROVE FALSE
    <3>1. 1 \in DOMAIN s /\ s[1] = "end"
      BY <1>1, <1>5
    <3>2. j < 1
      BY <3>1, <2>1, <1>5 DEF EndIsLast
    <3>3. QED BY <3>2, <2>1, <1>1
  <2>2. Occurs(s, "chunk") \in Nat /\ ~ Occurs(s, "chunk") > 0
    BY <2>1, OccursIs
  <2>3. QED BY <2>2
<1>6. QED BY <1>2, <1>3, <1>4, <1>5 DEF rest

-----------------------------------------------------------------------------
\* A cell put on a path.
LEMMA PutIs ==
  ASSUME NEW path \in [Fetch -> Seq(RdvCells)], NEW f \in Fetch, NEW cell \in RdvCells
  PROVE  /\ Put(path, f, cell) \in [Fetch -> Seq(RdvCells)]
         /\ \A g \in Fetch \ {f} : Put(path, f, cell)[g] = path[g]
         /\ f \in cut => Put(path, f, cell)[f] = path[f]
         /\ f \notin cut => Put(path, f, cell)[f] = Append(path[f], cell)
<1>1. path[f] \in Seq(RdvCells) /\ Append(path[f], cell) \in Seq(RdvCells)
  OBVIOUS
<1>2. QED BY <1>1 DEF Put

\* A cell taken off a path.
LEMMA TakeIs ==
  ASSUME NEW path \in [Fetch -> Seq(RdvCells)], NEW f \in Fetch, path[f] # <<>>
  PROVE  /\ Take(path, f) \in [Fetch -> Seq(RdvCells)]
         /\ \A g \in Fetch \ {f} : Take(path, f)[g] = path[g]
         /\ Take(path, f)[f] = Tail(path[f])
<1>1. path[f] \in Seq(RdvCells) /\ Tail(path[f]) \in Seq(RdvCells)
  OBVIOUS
<1>2. QED BY <1>1 DEF Take

\* What is counted are numbers.
LEMMA CountsTyped ==
  ASSUME RdvTyped, NEW f \in Fetch
  PROVE  /\ \A cell : /\ Occurs(up[f], cell) \in Nat /\ Occurs(down[f], cell) \in Nat
                      /\ Occurs(hup[f], cell) \in Nat /\ Occurs(hdown[f], cell) \in Nat
         /\ got[f] \in Nat /\ got[f] <= Chunks /\ serving[f] \in Nat /\ serving[f] <= Chunks + 1
         /\ Chunks \in Nat /\ Chunks > 0
<1>1. /\ up[f] \in Seq(RdvCells) /\ down[f] \in Seq(RdvCells)
      /\ hup[f] \in Seq(RdvCells) /\ hdown[f] \in Seq(RdvCells)
  BY DEF RdvTyped
<1>2. Chunks \in Nat /\ Chunks > 0
  BY RendezvousAssumption
<1>3. got[f] \in 0 .. Chunks /\ serving[f] \in 0 .. Chunks + 1
  BY DEF RdvTyped, RdvTypeOK
<1>4. ASSUME NEW cell
      PROVE  /\ Occurs(up[f], cell) \in Nat /\ Occurs(down[f], cell) \in Nat
             /\ Occurs(hup[f], cell) \in Nat /\ Occurs(hdown[f], cell) \in Nat
  BY <1>1, OccursIs
<1>5. QED BY <1>2, <1>3, <1>4

\* A fetch that a step leaves alone, but for a bridge built for it.
Rests(g) ==
  /\ fetch'[g] = fetch[g] /\ rdvWaiter'[g] = rdvWaiter[g] /\ rdr'[g] = rdr[g] /\ got'[g] = got[g]
  /\ serving'[g] = serving[g]
  /\ (g \in origin' <=> g \in origin) /\ (g \in keysC' <=> g \in keysC)
  /\ (g \in collector' <=> g \in collector) /\ (g \in cut' <=> g \in cut)
  /\ g \in bridged => g \in bridged'
  /\ up'[g] = up[g] /\ down'[g] = down[g] /\ hup'[g] = hup[g] /\ hdown'[g] = hdown[g]

\* Nothing of a fetch that rests changes,
LEMMA RestingStaysGood == ASSUME NEW g, RdvGood(g), Rests(g) PROVE RdvGood(g)'
<1> USE DEF Rests
<1>1. Holding(g)'
  BY DEF RdvGood, Holding
<1>2. CutIsEmpty(g)'
  BY DEF RdvGood, CutIsEmpty
<1>3. Requests(g)' = Requests(g) /\ Sent(g)' = Sent(g) /\ Ends(g)' = Ends(g)
  BY DEF Requests, Sent, Ends
<1>4. AskedLater(g)'
  BY <1>3 DEF RdvGood, AskedLater
<1>5. Answering(g)'
  BY <1>3 DEF RdvGood, Answering
<1>6. Whole(g)'
  BY DEF RdvGood, Whole
<1>7. QED BY <1>1, <1>2, <1>4, <1>5, <1>6 DEF RdvGood

\* so that a step is judged by the fetch it is of.
LEMMA OneMoves ==
  ASSUME RdvInv, RdvTyped', NEW f \in Fetch, RdvGood(f)', \A g \in Fetch \ {f} : Rests(g)
  PROVE  RdvInv'
<1>1. ASSUME NEW g \in Fetch, g # f PROVE RdvGood(g)'
  BY <1>1, RestingStaysGood DEF RdvInv
<1>2. QED BY <1>1 DEF RdvInv

\* A step at which every fetch rests keeps the invariant.
LEMMA NoneMoves ==
  ASSUME RdvInv, RdvTyped', \A g \in Fetch : Rests(g)
  PROVE  RdvInv'
<1>1. ASSUME NEW g \in Fetch PROVE RdvGood(g)'
  BY <1>1, RestingStaysGood DEF RdvInv
<1>2. QED BY <1>1 DEF RdvInv

\* The counts of a fetch whose paths, chunks and server a step leaves alone.
LEMMA CountsRest ==
  ASSUME NEW f, up'[f] = up[f], down'[f] = down[f], hup'[f] = hup[f], hdown'[f] = hdown[f],
         got'[f] = got[f]
  PROVE  Requests(f)' = Requests(f) /\ Sent(f)' = Sent(f) /\ Ends(f)' = Ends(f)
BY DEF Requests, Sent, Ends

-----------------------------------------------------------------------------
\* The invariant holds at the start.
LEMMA RdvInitially == RdvInit => RdvInv
<1> SUFFICES ASSUME RdvInit PROVE RdvInv
  OBVIOUS
<1> USE DEF RdvInit
<1>1. <<>> \in Seq(RdvCells) /\ <<>> \in Seq(Fetch) /\ Len(<<>>) = 0
  OBVIOUS
<1>2. RdvTyped
  BY <1>1, RendezvousAssumption DEF RdvTyped, RdvTypeOK, Phases, Idle
<1>3. ASSUME NEW f \in Fetch PROVE RdvGood(f)
  <2>1. \A cell : Occurs(up[f], cell) = 0 /\ Occurs(down[f], cell) = 0
                  /\ Occurs(hup[f], cell) = 0 /\ Occurs(hdown[f], cell) = 0
    BY OccursEmpty
  <2>2. Requests(f) = 0 /\ Sent(f) = 0 /\ Ends(f) = 0
    BY <2>1 DEF Requests, Sent, Ends
  <2>3. Holding(f) /\ CutIsEmpty(f) /\ Answering(f) /\ Whole(f)
    BY DEF Holding, CutIsEmpty, Answering, Whole
  <2>4. QED BY <2>2, <2>3 DEF RdvGood, AskedLater
<1>4. QED BY <1>2, <1>3 DEF RdvInv

\* hs_fetch up to its request, and after it: the paths and the far ends are left alone.
LEMMA QuietStepKeeps ==
  ASSUME RdvInv, NEW f \in Fetch,
         \/ TakeRp(f) \/ BuildRp(f) \/ ChooseIntro(f) \/ BuildIntro(f) \/ DialReturns(f) \/ SpareGoes(f)
         \/ AwaitRendezvous(f) \/ SendIntroduce1(f) \/ Woken(f)
         \/ RendezvousTimeout(f) \/ OpenCollector(f) \/ ResponseEnds(f) \/ ResponseTimeout(f)
         \/ Teardown(f) \/ SignalRendezvous(f) \/ CompleteRendezvous(f) \/ RecvDestroy(f)
  PROVE  RdvInv'
<1> USE DEF TakeRp, BuildRp, ChooseIntro, BuildIntro, DialReturns, SpareGoes, AwaitRendezvous,
        SendIntroduce1, Woken, RendezvousTimeout, OpenCollector, ResponseEnds, ResponseTimeout, Teardown, SignalRendezvous, CompleteRendezvous, RecvDestroy,
        To, client, point, service, wires, remote
<1>1. RdvTyped
  BY DEF RdvInv
<1>2. RdvTyped'
  <2>1. /\ fetch' \in [Fetch -> Phases] /\ rdvWaiter' \in [Fetch -> {"none", "open", "ok", "err"}]
        /\ rdr' \in [Fetch -> {"idle", "r2", "ok", "err"}] /\ rdvFaults' \in 0 .. RdvFaults
    <3>1. fetch' \in [Fetch -> Phases]
      <4>1. fetch \in [Fetch -> Phases]
        BY <1>1 DEF RdvTyped, RdvTypeOK
      <4>2. fetch' = fetch \/ \E p \in Phases : fetch' = [fetch EXCEPT ![f] = p]
        BY DEF Phases
      <4>3. QED BY <4>1, <4>2
    <3>2. rdvWaiter' \in [Fetch -> {"none", "open", "ok", "err"}]
      <4>1. rdvWaiter \in [Fetch -> {"none", "open", "ok", "err"}] /\ rdr[f] \in {"idle", "r2", "ok", "err"}
        BY <1>1 DEF RdvTyped, RdvTypeOK
      <4>2. rdvWaiter' = rdvWaiter \/ \E v \in {"none", "open", "ok", "err"} : rdvWaiter' = [rdvWaiter EXCEPT ![f] = v]
        <5>1. CASE SignalRendezvous(f)
          <6>1. rdr[f] \in {"none", "open", "ok", "err"} /\ rdvWaiter[f] \in {"none", "open", "ok", "err"}
            BY <4>1, <5>1
          <6>2. rdvWaiter' = [rdvWaiter EXCEPT ![f] = IF rdvWaiter[f] = "open" THEN rdr[f] ELSE rdvWaiter[f]]
            BY <4>1, <5>1
          <6>3. QED BY <6>1, <6>2
        <5>2. CASE ~ SignalRendezvous(f)
          BY <5>2
        <5>3. QED BY <5>1, <5>2
      <4>3. QED BY <4>1, <4>2
    <3>3. rdr' \in [Fetch -> {"idle", "r2", "ok", "err"}]
      BY <1>1 DEF RdvTyped, RdvTypeOK
    <3>4. rdvFaults' \in 0 .. RdvFaults
      BY <1>1, RendezvousAssumption DEF RdvTyped, RdvTypeOK
    <3>5. QED BY <3>1, <3>2, <3>3, <3>4
  <2>2. /\ origin' \subseteq Fetch /\ pending' \subseteq Fetch /\ keysC' \subseteq Fetch
        /\ collector' \subseteq Fetch
    BY <1>1 DEF RdvTyped, RdvTypeOK
  <2>5. spare' \subseteq Fetch \X {"intro", "half"}
    <3>1. spare \subseteq Fetch \X {"intro", "half"}
      BY <1>1 DEF RdvTyped, RdvTypeOK
    <3>2. spare' \subseteq spare \union {<<f, "intro">>, <<f, "half">>}
      BY DEF MayLeave, LetIntroGo
    <3>3. <<f, "intro">> \in Fetch \X {"intro", "half"} /\ <<f, "half">> \in Fetch \X {"intro", "half"}
      OBVIOUS
    <3>4. QED BY ONLY <3>1, <3>2, <3>3
  <2>3. /\ got' = got /\ cookies' = cookies /\ bridged' = bridged /\ keysH' = keysH /\ cut' = cut
        /\ queue' = queue /\ drain' = drain /\ serving' = serving
        /\ up' = up /\ down' = down /\ hup' = hup /\ hdown' = hdown
    OBVIOUS
  <2>4. QED BY <1>1, <2>1, <2>2, <2>3, <2>5 DEF RdvTyped, RdvTypeOK
<1>3. \A g \in Fetch \ {f} : Rests(g)
  BY <1>1 DEF Rests, RdvTyped, RdvTypeOK
<1>4. Requests(f)' = Requests(f) /\ Sent(f)' = Sent(f) /\ Ends(f)' = Ends(f)
  BY CountsRest
<1>5. RdvGood(f)'
  <2>1. Holding(f) /\ CutIsEmpty(f) /\ AskedLater(f) /\ Answering(f) /\ Whole(f)
    BY DEF RdvInv, RdvGood
  <2>2. Holding(f)'
    BY <1>1, <2>1 DEF Holding, RdvTyped, RdvTypeOK
  <2>3. CutIsEmpty(f)'
    BY <2>1 DEF CutIsEmpty
  <2>4. AskedLater(f)'
    BY <1>1, <1>4, <2>1 DEF AskedLater, RdvTyped, RdvTypeOK
  <2>5. Answering(f)'
    BY <1>1, <1>4, <2>1 DEF Answering, RdvTyped, RdvTypeOK
  <2>6. Whole(f)'
    BY <1>1, <2>1, CountsTyped DEF Whole, Holding, RdvTyped, RdvTypeOK
  <2>7. QED BY <2>2, <2>3, <2>4, <2>5, <2>6 DEF RdvGood
<1>6. QED BY <1>2, <1>3, <1>5, OneMoves

-----------------------------------------------------------------------------
\* The variables a step leaves alone keep their types.
LEMMA ClientRests == ASSUME RdvTyped, UNCHANGED <<fetch, origin, spare, pending, rdvWaiter, keysC, rdr>>
                     PROVE  /\ fetch' \in [Fetch -> Phases]
                            /\ rdvWaiter' \in [Fetch -> {"none", "open", "ok", "err"}]
                            /\ rdr' \in [Fetch -> {"idle", "r2", "ok", "err"}]
                            /\ origin' \subseteq Fetch /\ pending' \subseteq Fetch /\ keysC' \subseteq Fetch
BY DEF RdvTyped, RdvTypeOK

\* The types of what the service and the faults keep, when a step leaves them alone.
LEMMA ServiceRests == ASSUME RdvTyped, UNCHANGED <<queue, drain, keysH, cut, rdvFaults>>
                      PROVE  /\ queue' \in Seq(Fetch) /\ Len(queue') <= QueueCap /\ keysH' \subseteq Fetch
                             /\ \/ drain' = Idle
                                \/ drain' \in [at : {"dial", "build", "send", "install"}, fetch : Fetch]
                             /\ cut' \subseteq Fetch /\ rdvFaults' \in 0 .. RdvFaults
BY DEF RdvTyped, RdvTypeOK

\* What the invariant says of a fetch whose phase, keys and reader a step leaves alone.
LEMMA HoldingRests ==
  ASSUME NEW f, Holding(f), UNCHANGED <<fetch, origin, rdvWaiter, keysC, rdr, collector>>
  PROVE  Holding(f)'
BY DEF Holding

\* The client sends ESTABLISH_RENDEZVOUS.
LEMMA EstablishKeeps == ASSUME RdvInv, NEW f \in Fetch, EstablishRendezvous(f) PROVE RdvInv'
<1> USE DEF EstablishRendezvous, To, point, service
<1>1. RdvTyped /\ up \in [Fetch -> Seq(RdvCells)] /\ "est" \in RdvCells
  BY DEF RdvInv, RdvTyped, RdvCells
<1>2. /\ up' = up \/ up' = Put(up, f, "est")
      /\ up' \in [Fetch -> Seq(RdvCells)] /\ \A g \in Fetch \ {f} : up'[g] = up[g]
      /\ f \in cut => up'[f] = up[f]
      /\ up'[f] = up[f] \/ up'[f] = Append(up[f], "est")
  <2>1. /\ Put(up, f, "est") \in [Fetch -> Seq(RdvCells)]
        /\ \A g \in Fetch \ {f} : Put(up, f, "est")[g] = up[g]
        /\ f \in cut => Put(up, f, "est")[f] = up[f]
        /\ f \notin cut => Put(up, f, "est")[f] = Append(up[f], "est")
    BY <1>1, PutIs
  <2>2. up' = up \/ up' = Put(up, f, "est")
    OBVIOUS
  <2>3. QED BY <1>1, <2>1, <2>2
<1>3. RdvTyped'
  <2>1. fetch' \in [Fetch -> Phases]
    <3>1. fetch \in [Fetch -> Phases]
      BY <1>1 DEF RdvTyped, RdvTypeOK
    <3>2. \E p \in Phases : fetch' = [fetch EXCEPT ![f] = p]
      BY DEF Phases
    <3>3. QED BY <3>1, <3>2
  <2>2. spare' \subseteq Fetch \X {"intro", "half"}
    BY <1>1 DEF RdvTyped, RdvTypeOK, LetIntroGo
  <2>3. QED BY <1>1, <1>2, <2>1, <2>2 DEF RdvTyped, RdvTypeOK
<1>4. \A g \in Fetch \ {f} : Rests(g)
  BY <1>1, <1>2 DEF Rests, RdvTyped, RdvTypeOK
<1>5. Requests(f)' = Requests(f) /\ Sent(f)' = Sent(f) /\ Ends(f)' = Ends(f)
  <2>1. up[f] \in Seq(RdvCells)
    BY <1>1
  <2>2. Occurs(Append(up[f], "est"), "req") = Occurs(up[f], "req")
    <3>1. Occurs(Append(up[f], "est"), "req") = Occurs(up[f], "req") + (IF "est" = "req" THEN 1 ELSE 0)
      BY <1>1, <2>1, OccursAppend
    <3>2. Occurs(up[f], "req") \in Nat
      BY <2>1, OccursIs
    <3>3. QED BY <3>1, <3>2
  <2>3. QED BY <1>2, <2>2 DEF Requests, Sent, Ends
<1>6. RdvGood(f)'
  <2>1. Holding(f) /\ CutIsEmpty(f) /\ AskedLater(f) /\ Answering(f) /\ Whole(f)
    BY DEF RdvInv, RdvGood
  <2>2. Holding(f)'
    BY <1>1, <2>1 DEF Holding, RdvTyped, RdvTypeOK
  <2>3. CutIsEmpty(f)'
    BY <1>2, <2>1 DEF CutIsEmpty
  <2>4. AskedLater(f)' /\ Answering(f)' /\ Whole(f)'
    BY <1>1, <1>5, <2>1 DEF AskedLater, Answering, Whole, RdvTyped, RdvTypeOK
  <2>5. QED BY <2>2, <2>3, <2>4 DEF RdvGood
<1>7. QED BY <1>3, <1>4, <1>6, OneMoves

\* The client sends its request: nothing of a response was there before.
LEMMA RequestKeeps == ASSUME RdvInv, NEW f \in Fetch, SendRequest(f) PROVE RdvInv'
<1> USE DEF SendRequest, To, point, service
<1>1. RdvTyped /\ up \in [Fetch -> Seq(RdvCells)] /\ "req" \in RdvCells
  BY DEF RdvInv, RdvTyped, RdvCells
<1>2. /\ up' \in [Fetch -> Seq(RdvCells)] /\ \A g \in Fetch \ {f} : up'[g] = up[g]
      /\ f \in cut => up'[f] = up[f]
      /\ up'[f] = up[f] \/ up'[f] = Append(up[f], "req")
  <2>1. /\ Put(up, f, "req") \in [Fetch -> Seq(RdvCells)]
        /\ \A g \in Fetch \ {f} : Put(up, f, "req")[g] = up[g]
        /\ f \in cut => Put(up, f, "req")[f] = up[f]
        /\ f \notin cut => Put(up, f, "req")[f] = Append(up[f], "req")
    BY <1>1, PutIs
  <2>2. up' = up \/ up' = Put(up, f, "req")
    OBVIOUS
  <2>3. QED BY <1>1, <2>1, <2>2
<1>3. RdvTyped'
  BY <1>1, <1>2 DEF RdvTyped, RdvTypeOK, Phases
<1>4. \A g \in Fetch \ {f} : Rests(g)
  BY <1>1, <1>2 DEF Rests, RdvTyped, RdvTypeOK
<1>5. Holding(f) /\ CutIsEmpty(f) /\ AskedLater(f) /\ Answering(f) /\ Whole(f)
  BY DEF RdvInv, RdvGood
<1>6. fetch[f] = "open" /\ Requests(f) = 0 /\ serving[f] = 0 /\ Sent(f) = 0 /\ Ends(f) = 0
  BY <1>5 DEF AskedLater
<1>7. /\ Occurs(hdown'[f], "req") = 0 /\ Occurs(down'[f], "end") = 0 /\ Occurs(hup'[f], "end") = 0
      /\ Requests(f)' \in {0, 1} /\ Sent(f)' = 0 /\ Ends(f)' = 0
  <2>1. up[f] \in Seq(RdvCells)
    BY <1>1
  <2>2. Occurs(Append(up[f], "req"), "req") = Occurs(up[f], "req") + 1
    BY <1>1, <2>1, OccursAppend
  <2>3. /\ Occurs(up[f], "req") \in Nat /\ Occurs(hdown[f], "req") \in Nat
        /\ Occurs(down[f], "end") \in Nat /\ Occurs(hup[f], "end") \in Nat
    BY <1>1, CountsTyped
  <2>4. Occurs(up[f], "req") = 0 /\ Occurs(hdown[f], "req") = 0 /\ Occurs(down[f], "end") = 0 /\ Occurs(hup[f], "end") = 0
    BY <1>6, <2>3 DEF Requests, Ends
  <2>5. Occurs(up'[f], "req") \in {0, 1}
    <3>1. CASE up'[f] = up[f]
      BY <3>1, <2>4
    <3>2. CASE up'[f] = Append(up[f], "req")
      BY <3>2, <2>2, <2>4
    <3>3. QED BY <1>2, <3>1, <3>2
  <2>6. hdown' = hdown /\ down' = down /\ hup' = hup /\ got' = got
    OBVIOUS
  <2>7. Requests(f)' \in {0, 1}
    BY <2>4, <2>5, <2>6 DEF Requests
  <2>8. QED BY <1>6, <2>4, <2>6, <2>7 DEF Sent, Ends
<1>8. EndIsLast(down[f])' /\ EndIsLast(hup[f])'
  <2>1. down[f] \in Seq(RdvCells) /\ hup[f] \in Seq(RdvCells)
    BY <1>1 DEF RdvTyped
  <2>2. /\ Occurs(down[f], "end") > 0 <=> \E i \in DOMAIN down[f] : down[f][i] = "end"
        /\ Occurs(hup[f], "end") > 0 <=> \E i \in DOMAIN hup[f] : hup[f][i] = "end"
    BY <2>1, OccursIs
  <2>3. QED BY <1>7, <2>2 DEF EndIsLast
<1>9. RdvGood(f)'
  <2>1. Holding(f)'
    BY <1>1, <1>5 DEF Holding, RdvTyped, RdvTypeOK
  <2>2. CutIsEmpty(f)'
    BY <1>2, <1>5 DEF CutIsEmpty
  <2>3. AskedLater(f)' /\ Whole(f)'
    BY <1>1, <1>5, <1>6 DEF AskedLater, Whole, Holding, RdvTyped, RdvTypeOK
  <2>4. Answering(f)'
    BY <1>6, <1>7, <1>8 DEF Answering
  <2>5. QED BY <2>1, <2>2, <2>3, <2>4 DEF RdvGood
<1>10. QED BY <1>3, <1>4, <1>9, OneMoves

-----------------------------------------------------------------------------
\* What a path counts once its first cell is taken off.
LEMMA TakeCounts ==
  ASSUME NEW path \in [Fetch -> Seq(RdvCells)], NEW f \in Fetch, path[f] # <<>>,
         NEW rest, rest = Take(path, f)
  PROVE  /\ rest \in [Fetch -> Seq(RdvCells)] /\ \A g \in Fetch \ {f} : rest[g] = path[g]
         /\ \A c \in RdvCells \ {Head(path[f])} : Occurs(rest[f], c) = Occurs(path[f], c)
         /\ Occurs(rest[f], Head(path[f])) = Occurs(path[f], Head(path[f])) - 1
         /\ Occurs(path[f], Head(path[f])) > 0
         /\ EndIsLast(path[f]) => EndIsLast(rest[f])
         /\ (EndIsLast(path[f]) /\ Head(path[f]) = "end") => Occurs(path[f], "chunk") = 0
<1>1. path[f] \in Seq(RdvCells) /\ Head(path[f]) \in RdvCells
  OBVIOUS
<1>2. /\ \A cell : Occurs(Tail(path[f]), cell) = Occurs(path[f], cell) - (IF Head(path[f]) = cell THEN 1 ELSE 0)
      /\ Occurs(path[f], Head(path[f])) > 0
      /\ EndIsLast(path[f]) => EndIsLast(Tail(path[f]))
      /\ (EndIsLast(path[f]) /\ Head(path[f]) = "end") => Occurs(path[f], "chunk") = 0
  BY <1>1, OccursTail
<1>3. /\ rest \in [Fetch -> Seq(RdvCells)] /\ \A g \in Fetch \ {f} : rest[g] = path[g]
      /\ rest[f] = Tail(path[f])
  BY TakeIs
<1>4. ASSUME NEW c PROVE Occurs(path[f], c) \in Nat
  BY <1>1, OccursIs
<1>5. ASSUME NEW c \in RdvCells \ {Head(path[f])} PROVE Occurs(rest[f], c) = Occurs(path[f], c)
  <2>1. Occurs(rest[f], c) = Occurs(path[f], c) - (IF Head(path[f]) = c THEN 1 ELSE 0)
    BY <1>2, <1>3
  <2>2. Occurs(path[f], c) \in Nat
    BY <1>4
  <2>3. QED BY <2>1, <2>2, <1>5
<1>6. Occurs(rest[f], Head(path[f])) = Occurs(path[f], Head(path[f])) - 1
  BY <1>2, <1>3
<1>7. QED BY <1>2, <1>3, <1>5, <1>6

\* What a path counts once a cell was put on it, unless it was cut.
LEMMA PutCounts ==
  ASSUME NEW path \in [Fetch -> Seq(RdvCells)], NEW f \in Fetch, NEW cell \in RdvCells,
         NEW more, more = Put(path, f, cell)
  PROVE  /\ more \in [Fetch -> Seq(RdvCells)] /\ \A g \in Fetch \ {f} : more[g] = path[g]
         /\ f \in cut => more[f] = path[f]
         /\ \A c \in RdvCells \ {cell} : Occurs(more[f], c) = Occurs(path[f], c)
         /\ Occurs(more[f], cell) = Occurs(path[f], cell) + (IF f \in cut THEN 0 ELSE 1)
         /\ (EndIsLast(path[f]) /\ (cell = "chunk" => Occurs(path[f], "end") = 0)) => EndIsLast(more[f])
<1>1. path[f] \in Seq(RdvCells)
  OBVIOUS
<1>2. /\ \A c : Occurs(Append(path[f], cell), c) = Occurs(path[f], c) + (IF cell = c THEN 1 ELSE 0)
      /\ (EndIsLast(path[f]) /\ (cell = "chunk" => Occurs(path[f], "end") = 0)) => EndIsLast(Append(path[f], cell))
  BY <1>1, OccursAppend
<1>3. /\ more \in [Fetch -> Seq(RdvCells)] /\ \A g \in Fetch \ {f} : more[g] = path[g]
      /\ f \in cut => more[f] = path[f]
      /\ f \notin cut => more[f] = Append(path[f], cell)
  BY PutIs
<1>4. ASSUME NEW c PROVE Occurs(path[f], c) \in Nat
  BY <1>1, OccursIs
<1>5. CASE f \in cut
  <2>1. Occurs(more[f], cell) = Occurs(path[f], cell) + 0
    BY <1>3, <1>4, <1>5
  <2>2. QED BY <1>3, <1>5, <2>1
<1>6. CASE f \notin cut
  <2>1. ASSUME NEW c \in RdvCells \ {cell} PROVE Occurs(more[f], c) = Occurs(path[f], c)
    <3>1. Occurs(more[f], c) = Occurs(path[f], c) + (IF cell = c THEN 1 ELSE 0)
      BY <1>2, <1>3, <1>6
    <3>2. Occurs(path[f], c) \in Nat
      BY <1>4
    <3>3. QED BY <3>1, <3>2, <2>1
  <2>2. Occurs(more[f], cell) = Occurs(path[f], cell) + 1
    BY <1>2, <1>3, <1>6
  <2>3. QED BY <1>2, <1>3, <1>6, <2>1, <2>2
<1>7. QED BY <1>5, <1>6

\* What the invariant says of one fetch, and the numbers it speaks of.
LEMMA GoodIs ==
  ASSUME RdvInv, NEW f \in Fetch
  PROVE  /\ RdvTyped /\ Holding(f) /\ CutIsEmpty(f) /\ AskedLater(f) /\ Answering(f) /\ Whole(f)
         /\ \A c \in RdvCells : /\ Occurs(up[f], c) \in Nat /\ Occurs(down[f], c) \in Nat
                                /\ Occurs(hup[f], c) \in Nat /\ Occurs(hdown[f], c) \in Nat
         /\ got[f] \in Nat /\ got[f] <= Chunks /\ serving[f] \in Nat /\ serving[f] <= Chunks + 1
         /\ Chunks \in Nat /\ Chunks > 0
         /\ up \in [Fetch -> Seq(RdvCells)] /\ down \in [Fetch -> Seq(RdvCells)]
         /\ hup \in [Fetch -> Seq(RdvCells)] /\ hdown \in [Fetch -> Seq(RdvCells)]
         /\ {"est", "req", "estok", "r2", "r1", "chunk", "end"} = RdvCells
<1>1. RdvTyped /\ Holding(f) /\ CutIsEmpty(f) /\ AskedLater(f) /\ Answering(f) /\ Whole(f)
  BY DEF RdvInv, RdvGood
<1>2. QED BY <1>1, CountsTyped DEF RdvTyped, RdvCells

\* The client's reader takes a cell that is no part of a response.
LEMMA OtherCellKeeps ==
  ASSUME RdvInv, NEW f \in Fetch, ClientDiscards(f) \/ RecvRendezvous2(f)
  PROVE  RdvInv'
<1> USE DEF client, point, service
<1>1. RdvTyped /\ Holding(f) /\ CutIsEmpty(f) /\ AskedLater(f) /\ Answering(f) /\ Whole(f)
  BY GoodIs
<1>2. /\ down[f] # <<>> /\ down' = Take(down, f) /\ fetch' = fetch /\ origin' = origin /\ spare' = spare /\ keysC' = keysC
      /\ rdvWaiter' = rdvWaiter /\ collector' = collector /\ got' = got /\ pending' = pending
      /\ cookies' = cookies /\ bridged' = bridged /\ queue' = queue /\ drain' = drain /\ keysH' = keysH
      /\ serving' = serving /\ up' = up /\ hup' = hup /\ hdown' = hdown /\ cut' = cut /\ rdvFaults' = rdvFaults
      /\ rdr' = rdr \/ (rdr' = [rdr EXCEPT ![f] = "r2"] /\ f \in origin /\ rdr[f] = "idle")
      /\ f \notin origin \/ f \notin keysC \/ Head(down[f]) \notin {"chunk", "end"}
  BY DEF ClientDiscards, RecvRendezvous2, Next_
<1>3. /\ down' \in [Fetch -> Seq(RdvCells)] /\ \A g \in Fetch \ {f} : down'[g] = down[g]
      /\ \A c \in RdvCells \ {Head(down[f])} : Occurs(down'[f], c) = Occurs(down[f], c)
      /\ Occurs(down'[f], Head(down[f])) = Occurs(down[f], Head(down[f])) - 1
      /\ Occurs(down[f], Head(down[f])) > 0
      /\ EndIsLast(down[f]) => EndIsLast(down'[f])
  <2>1. down \in [Fetch -> Seq(RdvCells)]
    BY <1>1 DEF RdvTyped
  <2>2. down[f] # <<>> /\ down' = Take(down, f)
    BY <1>2
  <2>3. QED BY <2>1, <2>2, TakeCounts
<1>4. RdvTyped'
  BY <1>1, <1>2, <1>3 DEF RdvTyped, RdvTypeOK
<1>5. \A g \in Fetch \ {f} : Rests(g)
  BY <1>1, <1>2, <1>3 DEF Rests, RdvTyped, RdvTypeOK
<1>6. RdvGood(f)'
  <2>1. Holding(f)'
    BY <1>1, <1>2 DEF Holding, RdvTyped, RdvTypeOK
  <2>2. CutIsEmpty(f)'
    BY <1>1, <1>2 DEF CutIsEmpty
  <2>3. Whole(f)'
    BY <1>1, <1>2 DEF Whole
  <2>4. AskedLater(f)'
    <3>1. SUFFICES ASSUME fetch[f] \notin {"reading", "clean", "done", "failed"}
                   PROVE  (Requests(f) = 0 /\ serving[f] = 0 /\ Sent(f) = 0 /\ Ends(f) = 0)'
      BY <1>2 DEF AskedLater
    <3>2. Requests(f) = 0 /\ serving[f] = 0 /\ Sent(f) = 0 /\ Ends(f) = 0
      BY <1>1, <3>1 DEF AskedLater
    <3>3. /\ got[f] = 0 /\ Occurs(down[f], "chunk") = 0 /\ Occurs(hup[f], "chunk") = 0
          /\ Occurs(down[f], "end") = 0 /\ Occurs(hup[f], "end") = 0
      <4>1. /\ got[f] \in Nat /\ Occurs(down[f], "chunk") \in Nat /\ Occurs(hup[f], "chunk") \in Nat
            /\ Occurs(down[f], "end") \in Nat /\ Occurs(hup[f], "end") \in Nat
        BY <1>1, CountsTyped
      <4>2. got[f] + Occurs(down[f], "chunk") + Occurs(hup[f], "chunk") = 0
        BY <3>2 DEF Sent
      <4>3. Occurs(down[f], "end") + Occurs(hup[f], "end") = 0
        BY <3>2 DEF Ends
      <4>4. QED BY <4>1, <4>2, <4>3
    <3>4. Occurs(down'[f], "chunk") = 0 /\ Occurs(down'[f], "end") = 0
      <4>1. "chunk" \in RdvCells /\ "end" \in RdvCells
        BY DEF RdvCells
      <4>2. Head(down[f]) # "chunk" /\ Head(down[f]) # "end"
        BY <1>3, <3>3
      <4>3. QED BY <1>3, <3>3, <4>1, <4>2
    <3>5. QED BY <1>2, <3>2, <3>3, <3>4 DEF Requests, Sent, Ends
  <2>5. Answering(f)'
    <3>1. SUFFICES ASSUME fetch[f] = "reading", f \in collector, f \in origin, f \notin cut PROVE Answering(f)'
      BY <1>2 DEF Answering
    <3>2. Head(down[f]) \notin {"chunk", "end"}
      BY <1>1, <1>2, <3>1 DEF Holding
    <3>3. Occurs(down'[f], "chunk") = Occurs(down[f], "chunk") /\ Occurs(down'[f], "end") = Occurs(down[f], "end")
      BY <1>3, <3>2, GoodIs
    <3>4. Requests(f)' = Requests(f) /\ Sent(f)' = Sent(f) /\ Ends(f)' = Ends(f)
      BY <1>2, <3>3 DEF Requests, Sent, Ends
    <3>5. QED BY <1>1, <1>2, <1>3, <3>1, <3>3, <3>4 DEF Answering
  <2>6. QED BY <2>1, <2>2, <2>3, <2>4, <2>5 DEF RdvGood
<1>7. QED BY <1>4, <1>5, <1>6, OneMoves

-----------------------------------------------------------------------------
\* A chunk or an end that a fetch takes is of the response it reads.
LEMMA TakenIsAnswer ==
  ASSUME RdvInv, NEW f \in Fetch, f \in collector, f \in origin, NEW cell \in {"chunk", "end"},
         down[f] # <<>>, Head(down[f]) = cell
  PROVE  fetch[f] = "reading" /\ f \notin cut
<1>1. RdvTyped /\ Holding(f) /\ CutIsEmpty(f) /\ AskedLater(f)
  BY GoodIs
<1>2. f \notin cut
  BY <1>1 DEF CutIsEmpty
<1>3. Occurs(down[f], cell) > 0
  <2>1. down[f] \in Seq(RdvCells) /\ down[f] # <<>>
    BY <1>1 DEF RdvTyped
  <2>2. QED BY <2>1, OccursTail
<1>4. fetch[f] # "open"
  <2>1. SUFFICES ASSUME fetch[f] = "open" PROVE FALSE
    OBVIOUS
  <2>2. Sent(f) = 0 /\ Ends(f) = 0
    BY <1>1, <2>1 DEF AskedLater
  <2>3. got[f] + Occurs(down[f], "chunk") + Occurs(hup[f], "chunk") = 0
    BY <2>2 DEF Sent
  <2>4. Occurs(down[f], "end") + Occurs(hup[f], "end") = 0
    BY <2>2 DEF Ends
  <2>5. /\ got[f] \in Nat /\ Occurs(down[f], "chunk") \in Nat /\ Occurs(hup[f], "chunk") \in Nat
        /\ Occurs(down[f], "end") \in Nat /\ Occurs(hup[f], "end") \in Nat
    BY <1>1, CountsTyped
  <2>6. Occurs(down[f], "chunk") = 0 /\ Occurs(down[f], "end") = 0
    BY <2>3, <2>4, <2>5
  <2>7. QED BY <1>3, <2>6
<1>5. QED BY <1>1, <1>2, <1>4 DEF Holding

\* A chunk moves from the path to the fetch's receiver.
LEMMA ChunkKeeps == ASSUME RdvInv, NEW f \in Fetch, RecvChunk(f) PROVE RdvInv'
<1> USE DEF point, service
<1>1. RdvTyped /\ Holding(f) /\ CutIsEmpty(f) /\ AskedLater(f) /\ Answering(f) /\ Whole(f)
  BY GoodIs
<1>2. /\ down[f] # <<>> /\ Head(down[f]) = "chunk" /\ down' = Take(down, f) /\ fetch' = fetch /\ origin' = origin /\ spare' = spare
      /\ keysC' = keysC /\ rdvWaiter' = rdvWaiter /\ collector' = collector /\ pending' = pending
      /\ cookies' = cookies /\ bridged' = bridged /\ queue' = queue /\ drain' = drain /\ keysH' = keysH
      /\ serving' = serving /\ up' = up /\ hup' = hup /\ hdown' = hdown /\ cut' = cut /\ rdvFaults' = rdvFaults
      /\ rdr' = rdr /\ f \in origin
      /\ got' = IF f \in collector THEN [got EXCEPT ![f] = got[f] + 1] ELSE got
  BY DEF RecvChunk, Next_
<1>3. /\ down' \in [Fetch -> Seq(RdvCells)] /\ \A g \in Fetch \ {f} : down'[g] = down[g]
      /\ Occurs(down'[f], "end") = Occurs(down[f], "end")
      /\ Occurs(down'[f], "chunk") = Occurs(down[f], "chunk") - 1
      /\ Occurs(down[f], "chunk") > 0
      /\ EndIsLast(down[f]) => EndIsLast(down'[f])
  <2>1. down \in [Fetch -> Seq(RdvCells)] /\ "end" \in RdvCells \ {"chunk"}
    BY <1>1 DEF RdvTyped, RdvCells
  <2>2. QED BY <1>2, <2>1, TakeCounts
<1>4. /\ got[f] \in 0 .. Chunks /\ Chunks \in Nat
      /\ Occurs(down[f], "chunk") \in Nat /\ Occurs(hup[f], "chunk") \in Nat
      /\ Occurs(down[f], "end") \in Nat /\ Occurs(hup[f], "end") \in Nat
      /\ Occurs(up[f], "req") \in Nat /\ Occurs(hdown[f], "req") \in Nat
  BY <1>1, CountsTyped
<1>5. ASSUME f \in collector
      PROVE  /\ fetch[f] = "reading" /\ f \notin cut /\ Requests(f) = 0
             /\ Sent(f) > got[f] /\ Sent(f) <= Chunks
  <2>1. fetch[f] = "reading" /\ f \notin cut
    BY <1>2, <1>5, TakenIsAnswer
  <2>2. Sent(f) > got[f] /\ Sent(f) \in Nat /\ Ends(f) \in Nat /\ Requests(f) \in Nat
    <3>1. /\ \A a, b \in Nat : a + b \in Nat
          /\ \A a, b, c \in Nat : b > 0 => (a + b + c \in Nat /\ a + b + c > a)
      OBVIOUS
    <3>2. got[f] \in Nat
      BY <1>4
    <3>3. Sent(f) \in Nat /\ Sent(f) > got[f]
      BY <1>3, <1>4, <3>1, <3>2 DEF Sent
    <3>4. Ends(f) \in Nat
      BY <1>4, <3>1 DEF Ends
    <3>5. Requests(f) \in Nat
      BY <1>4, <3>1 DEF Requests
    <3>6. QED BY <3>3, <3>4, <3>5
  <2>3. serving[f] \in Nat /\ serving[f] <= Chunks + 1
    BY <1>1, CountsTyped
  <2>4. QED BY <1>1, <1>2, <1>4, <1>5, <2>1, <2>2, <2>3 DEF Answering
<1>6. got' \in [Fetch -> 0 .. Chunks] /\ \A g \in Fetch \ {f} : got'[g] = got[g]
  <2>1. got \in [Fetch -> 0 .. Chunks]
    BY <1>1 DEF RdvTyped, RdvTypeOK
  <2>2. f \in collector => got[f] + 1 \in 0 .. Chunks
    <3>1. Sent(f) \in Nat
      BY <1>4 DEF Sent
    <3>2. QED BY <1>4, <1>5, <3>1
  <2>3. QED BY <1>2, <2>1, <2>2
<1>7. RdvTyped'
  BY <1>1, <1>2, <1>3, <1>6 DEF RdvTyped, RdvTypeOK
<1>8. \A g \in Fetch \ {f} : Rests(g)
  BY <1>1, <1>2, <1>3, <1>6 DEF Rests
<1>9. RdvGood(f)'
  <2>1. Holding(f)'
    BY <1>1, <1>2 DEF Holding
  <2>2. CutIsEmpty(f)'
    BY <1>1, <1>2 DEF CutIsEmpty
  <2>3. Whole(f)'
    BY <1>1, <1>2, <1>5 DEF Whole, Holding
  <2>4. AskedLater(f)'
    <3>1. SUFFICES ASSUME fetch[f] \notin {"reading", "clean", "done", "failed"} PROVE FALSE
      BY <1>2 DEF AskedLater
    <3>2. Sent(f) = 0
      BY <1>1, <3>1 DEF AskedLater
    <3>3. got[f] + Occurs(down[f], "chunk") + Occurs(hup[f], "chunk") = 0
      BY <3>2 DEF Sent
    <3>4. QED BY <1>3, <1>4, <3>3
  <2>5. Answering(f)'
    <3>1. SUFFICES ASSUME fetch[f] = "reading", f \in collector, f \in origin, f \notin cut PROVE Answering(f)'
      BY <1>2 DEF Answering
    <3>2. got'[f] = got[f] + 1
      BY <1>1, <1>2, <3>1 DEF RdvTyped, RdvTypeOK
    <3>3. Requests(f)' = Requests(f) /\ Ends(f)' = Ends(f)
      BY <1>2, <1>3 DEF Requests, Ends
    <3>4. Sent(f)' = Sent(f)
      <4>1. got[f] + 1 + (Occurs(down[f], "chunk") - 1) + Occurs(hup[f], "chunk")
              = got[f] + Occurs(down[f], "chunk") + Occurs(hup[f], "chunk")
        BY <1>4
      <4>2. QED BY <1>2, <1>3, <3>2, <4>1 DEF Sent
    <3>5. QED BY <1>1, <1>2, <1>3, <3>1, <3>3, <3>4 DEF Answering
  <2>6. QED BY <2>1, <2>2, <2>3, <2>4, <2>5 DEF RdvGood
<1>10. QED BY <1>7, <1>8, <1>9, OneMoves

\* The end takes the collector away: all chunks came before it.
LEMMA EndKeeps == ASSUME RdvInv, NEW f \in Fetch, RecvEnd(f) PROVE RdvInv'
<1> USE DEF point, service
<1>1. RdvTyped /\ Holding(f) /\ CutIsEmpty(f) /\ AskedLater(f) /\ Answering(f) /\ Whole(f)
  BY GoodIs
<1>2. /\ down[f] # <<>> /\ Head(down[f]) = "end" /\ down' = Take(down, f) /\ fetch' = fetch /\ origin' = origin /\ spare' = spare
      /\ keysC' = keysC /\ rdvWaiter' = rdvWaiter /\ collector' = collector \ {f} /\ pending' = pending
      /\ cookies' = cookies /\ bridged' = bridged /\ queue' = queue /\ drain' = drain /\ keysH' = keysH
      /\ serving' = serving /\ up' = up /\ hup' = hup /\ hdown' = hdown /\ cut' = cut /\ rdvFaults' = rdvFaults
      /\ rdr' = rdr /\ f \in origin /\ got' = got
  BY DEF RecvEnd, Next_
<1>3. /\ down' \in [Fetch -> Seq(RdvCells)] /\ \A g \in Fetch \ {f} : down'[g] = down[g]
      /\ Occurs(down[f], "end") > 0
      /\ EndIsLast(down[f]) => Occurs(down[f], "chunk") = 0
  <2>1. down \in [Fetch -> Seq(RdvCells)]
    BY <1>1 DEF RdvTyped
  <2>2. QED BY <1>2, <2>1, TakeCounts
<1>4. /\ got[f] \in 0 .. Chunks /\ Chunks \in Nat
      /\ Occurs(down[f], "chunk") \in Nat /\ Occurs(hup[f], "chunk") \in Nat
      /\ Occurs(down[f], "end") \in Nat /\ Occurs(hup[f], "end") \in Nat
  BY <1>1, CountsTyped
<1>5. ASSUME f \in collector PROVE fetch[f] = "reading" /\ got[f] = Chunks
  <2>1. fetch[f] = "reading" /\ f \notin cut
    BY <1>2, <1>5, TakenIsAnswer
  <2>2. Ends(f) > 0
    BY <1>3, <1>4 DEF Ends
  <2>3. Sent(f) = Chunks /\ EndIsLast(down[f]) /\ (Occurs(down[f], "end") > 0 => Occurs(hup[f], "chunk") = 0)
    BY <1>1, <1>2, <1>5, <2>1, <2>2 DEF Answering
  <2>4. Occurs(down[f], "chunk") = 0 /\ Occurs(hup[f], "chunk") = 0
    BY <1>3, <2>3
  <2>5. got[f] + Occurs(down[f], "chunk") + Occurs(hup[f], "chunk") = Chunks
    BY <2>3 DEF Sent
  <2>6. QED BY <1>4, <2>1, <2>4, <2>5
<1>6. f \notin collector => fetch[f] # "open"
  BY <1>1 DEF Holding
<1>7. RdvTyped'
  BY <1>1, <1>2, <1>3 DEF RdvTyped, RdvTypeOK
<1>8. \A g \in Fetch \ {f} : Rests(g)
  BY <1>1, <1>2, <1>3 DEF Rests
<1>9. RdvGood(f)'
  <2>1. Holding(f)'
    BY <1>1, <1>2, <1>5 DEF Holding
  <2>2. CutIsEmpty(f)'
    BY <1>1, <1>2 DEF CutIsEmpty
  <2>3. Whole(f)'
    BY <1>1, <1>2, <1>5 DEF Whole
  <2>4. AskedLater(f)'
    <3>1. SUFFICES ASSUME fetch[f] \notin {"reading", "clean", "done", "failed"} PROVE FALSE
      BY <1>2 DEF AskedLater
    <3>2. Ends(f) = 0
      BY <1>1, <3>1 DEF AskedLater
    <3>3. Occurs(down[f], "end") + Occurs(hup[f], "end") = 0
      BY <3>2 DEF Ends
    <3>4. QED BY <1>3, <1>4, <3>3
  <2>5. Answering(f)'
    BY <1>2 DEF Answering
  <2>6. QED BY <2>1, <2>2, <2>3, <2>4, <2>5 DEF RdvGood
<1>10. QED BY <1>7, <1>8, <1>9, OneMoves

-----------------------------------------------------------------------------
\* A step that leaves the client alone keeps what the invariant says of its phases.
LEMMA ClientKeeps ==
  ASSUME NEW f, Holding(f), Whole(f), UNCHANGED client
  PROVE  Holding(f)' /\ Whole(f)'
BY DEF client, Holding, Whole

\* A setup cell on a path is no part of a request or a response.
LEMMA SetupKeeps ==
  ASSUME RdvInv, RdvTyped', NEW f \in Fetch, UNCHANGED <<client, serving, cut>>, bridged \subseteq bridged',
         \A g \in Fetch \ {f} : Rests(g), CutIsEmpty(f)',
         \A c \in {"req", "chunk", "end"} :
            /\ Occurs(up'[f], c) = Occurs(up[f], c) /\ Occurs(down'[f], c) = Occurs(down[f], c)
            /\ Occurs(hup'[f], c) = Occurs(hup[f], c) /\ Occurs(hdown'[f], c) = Occurs(hdown[f], c),
         EndIsLast(down[f]) => EndIsLast(down'[f]), EndIsLast(hup[f]) => EndIsLast(hup'[f])
  PROVE  RdvInv'
<1>1. Holding(f) /\ AskedLater(f) /\ Answering(f) /\ Whole(f)
  BY GoodIs
<1>2. Holding(f)' /\ Whole(f)'
  BY <1>1, ClientKeeps
<1>3. Requests(f)' = Requests(f) /\ Sent(f)' = Sent(f) /\ Ends(f)' = Ends(f)
  BY DEF Requests, Sent, Ends, client
<1>4. AskedLater(f)' /\ Answering(f)'
  BY <1>1, <1>3 DEF AskedLater, Answering, client
<1>5. RdvGood(f)'
  BY <1>2, <1>4 DEF RdvGood
<1>6. QED BY <1>5, OneMoves

\* The point notes the cookie, or bridges the legs.
LEMMA PointKeeps ==
  ASSUME RdvInv, NEW f \in Fetch, RecvEstablishRendezvous(f) \/ RecvRendezvous1(f)
  PROVE  RdvInv'
<1> USE DEF service
<1>1. RdvTyped /\ CutIsEmpty(f)
  BY GoodIs
<1>2. /\ down \in [Fetch -> Seq(RdvCells)] /\ up \in [Fetch -> Seq(RdvCells)] /\ hup \in [Fetch -> Seq(RdvCells)]
      /\ {"est", "r1", "r2", "estok", "req", "chunk", "end"} \subseteq RdvCells
  BY <1>1 DEF RdvTyped, RdvCells
<1>3. CASE RecvEstablishRendezvous(f)
  <2>1. /\ up[f] # <<>> /\ Head(up[f]) = "est" /\ up' = Take(up, f) /\ cookies' = cookies \cup {f}
        /\ down' = Put(down, f, "estok")
        /\ UNCHANGED <<client, bridged, service, intro, hup, hdown, cut, rdvFaults>>
    BY <1>3 DEF RecvEstablishRendezvous, Next_
  <2>2. /\ up' \in [Fetch -> Seq(RdvCells)] /\ \A g \in Fetch \ {f} : up'[g] = up[g]
        /\ \A c \in RdvCells \ {"est"} : Occurs(up'[f], c) = Occurs(up[f], c)
    <3>1. up[f] # <<>> /\ Head(up[f]) = "est" /\ up' = Take(up, f) /\ up \in [Fetch -> Seq(RdvCells)]
      BY <1>2, <2>1
    <3>2. QED BY <3>1, TakeCounts
  <2>3. /\ down' \in [Fetch -> Seq(RdvCells)] /\ \A g \in Fetch \ {f} : down'[g] = down[g]
        /\ \A c \in RdvCells \ {"estok"} : Occurs(down'[f], c) = Occurs(down[f], c)
        /\ EndIsLast(down[f]) => EndIsLast(down'[f])
    <3>1. "estok" \in RdvCells /\ down' = Put(down, f, "estok") /\ down \in [Fetch -> Seq(RdvCells)]
      BY <1>2, <2>1
    <3>2. QED BY <3>1, PutCounts
  <2>4. RdvTyped'
    BY <1>1, <2>1, <2>2, <2>3 DEF RdvTyped, RdvTypeOK, client
  <2>5. \A g \in Fetch \ {f} : Rests(g)
    BY <2>1, <2>2, <2>3 DEF Rests, client
  <2>6. CutIsEmpty(f)'
    BY <1>1, <2>1 DEF CutIsEmpty
  <2>7. {"req", "chunk", "end"} \subseteq RdvCells \ {"est"} /\ {"req", "chunk", "end"} \subseteq RdvCells \ {"estok"}
    BY DEF RdvCells
  <2>8. \A c \in {"req", "chunk", "end"} :
            /\ Occurs(up'[f], c) = Occurs(up[f], c) /\ Occurs(down'[f], c) = Occurs(down[f], c)
            /\ Occurs(hup'[f], c) = Occurs(hup[f], c) /\ Occurs(hdown'[f], c) = Occurs(hdown[f], c)
    BY <2>1, <2>2, <2>3, <2>7
  <2>9. QED BY <2>1, <2>3, <2>4, <2>5, <2>6, <2>8, SetupKeeps
<1>4. CASE RecvRendezvous1(f)
  <2>1. /\ hup[f] # <<>> /\ Head(hup[f]) = "r1" /\ hup' = Take(hup, f)
        /\ down' = Put(down, f, "r2") \/ down' = down
        /\ bridged' = bridged \cup {f} \/ bridged' = bridged
        /\ cookies' = cookies \ {f} \/ cookies' = cookies
        /\ UNCHANGED <<client, service, intro, up, hdown, cut, rdvFaults>>
    BY <1>4 DEF RecvRendezvous1, Next_
  <2>2. /\ hup' \in [Fetch -> Seq(RdvCells)] /\ \A g \in Fetch \ {f} : hup'[g] = hup[g]
        /\ \A c \in RdvCells \ {"r1"} : Occurs(hup'[f], c) = Occurs(hup[f], c)
        /\ EndIsLast(hup[f]) => EndIsLast(hup'[f])
    BY <1>2, <2>1, TakeCounts
  <2>3. /\ down' \in [Fetch -> Seq(RdvCells)] /\ \A g \in Fetch \ {f} : down'[g] = down[g]
        /\ \A c \in RdvCells \ {"r2"} : Occurs(down'[f], c) = Occurs(down[f], c)
        /\ EndIsLast(down[f]) => EndIsLast(down'[f])
    <3>1. CASE down' = down
      BY <1>2, <3>1
    <3>2. CASE down' = Put(down, f, "r2")
      <4>1. "r2" \in RdvCells /\ down' = Put(down, f, "r2") /\ down \in [Fetch -> Seq(RdvCells)]
        BY <1>2, <3>2
      <4>2. QED BY <4>1, PutCounts
    <3>3. QED BY <2>1, <3>1, <3>2
  <2>4. RdvTyped'
    BY <1>1, <2>1, <2>2, <2>3 DEF RdvTyped, RdvTypeOK, client
  <2>5. \A g \in Fetch \ {f} : Rests(g)
    BY <2>1, <2>2, <2>3 DEF Rests, client
  <2>6. CutIsEmpty(f)'
    BY <1>1, <2>1 DEF CutIsEmpty
  <2>7. {"req", "chunk", "end"} \subseteq RdvCells \ {"r1"} /\ {"req", "chunk", "end"} \subseteq RdvCells \ {"r2"}
    BY DEF RdvCells
  <2>8. \A c \in {"req", "chunk", "end"} :
            /\ Occurs(up'[f], c) = Occurs(up[f], c) /\ Occurs(down'[f], c) = Occurs(down[f], c)
            /\ Occurs(hup'[f], c) = Occurs(hup[f], c) /\ Occurs(hdown'[f], c) = Occurs(hdown[f], c)
    BY <2>1, <2>2, <2>3, <2>7
  <2>9. serving' = serving /\ bridged \subseteq bridged'
    BY <2>1
  <2>10. QED BY <2>1, <2>2, <2>3, <2>4, <2>5, <2>6, <2>8, <2>9, SetupKeeps
<1>5. QED BY <1>3, <1>4

\* Introductions, the queue and the drain loop; RENDEZVOUS1 is no part of a response.
LEMMA QueueKeeps ==
  ASSUME RdvInv,
         \/ \E f \in Fetch : ForwardIntroduce2(f) \/ HandleIntroduce2(f)
         \/ DrainPops \/ DrainBuilds \/ DrainInstalls
  PROVE  RdvInv'
<1> USE DEF ForwardIntroduce2, HandleIntroduce2, DrainPops, DrainBuilds, DrainInstalls
<1>1. RdvTyped
  BY DEF RdvInv
<1>2. queue \in Seq(Fetch) /\ Len(queue) <= QueueCap /\ QueueCap \in Nat
  BY <1>1, RendezvousAssumption DEF RdvTyped, RdvTypeOK
<1>3. queue' \in Seq(Fetch) /\ Len(queue') <= QueueCap
  <2>1. queue' = queue \/ (queue # <<>> /\ queue' = Tail(queue))
        \/ (Len(queue) < QueueCap /\ \E f \in Fetch : queue' = Append(queue, f))
    BY <1>2 DEF service
  <2>2. queue # <<>> => Tail(queue) \in Seq(Fetch) /\ Len(Tail(queue)) <= QueueCap
    BY <1>2
  <2>3. Len(queue) < QueueCap => \A f \in Fetch : Append(queue, f) \in Seq(Fetch) /\ Len(Append(queue, f)) <= QueueCap
    BY <1>2
  <2>4. QED BY <1>2, <2>1, <2>2, <2>3
<1>4. /\ \/ drain' = Idle
         \/ drain' \in [at : {"dial", "build", "send", "install"}, fetch : Fetch]
      /\ keysH' \subseteq Fetch
  <2>1. \/ drain = Idle
        \/ drain \in [at : {"dial", "build", "send", "install"}, fetch : Fetch]
    BY <1>1 DEF RdvTyped, RdvTypeOK
  <2>2. CASE DrainPops
    <3>1. Head(queue) \in Fetch
      BY <1>2, <2>2
    <3>2. QED BY <1>1, <2>2, <3>1 DEF RdvTyped, RdvTypeOK
  <2>3. CASE DrainBuilds
    <3>1. drain \in [at : {"dial", "build", "send", "install"}, fetch : Fetch]
      BY <2>1, <2>3 DEF Idle
    <3>2. QED BY <1>1, <2>3, <3>1 DEF RdvTyped, RdvTypeOK
  <2>4. CASE DrainInstalls
    <3>1. drain \in [at : {"dial", "build", "send", "install"}, fetch : Fetch]
      BY <2>1, <2>4 DEF Idle
    <3>2. QED BY <1>1, <2>4, <3>1 DEF RdvTyped, RdvTypeOK
  <2>5. CASE \E f \in Fetch : ForwardIntroduce2(f) \/ HandleIntroduce2(f)
    BY <1>1, <2>5 DEF RdvTyped, RdvTypeOK, service
  <2>6. QED BY <2>2, <2>3, <2>4, <2>5
<1>5. UNCHANGED <<client, point, serving, up, down, hup, hdown, cut, rdvFaults>>
  BY DEF service, wires
<1>6. RdvTyped'
  BY <1>1, <1>3, <1>4, <1>5 DEF RdvTyped, RdvTypeOK, client, point
<1>7. \A g \in Fetch : Rests(g)
  BY <1>5 DEF Rests, client, point
<1>8. QED BY <1>6, <1>7, NoneMoves

\* The drain loop sends RENDEZVOUS1, on the service's leg.
LEMMA DrainSendsKeeps == ASSUME RdvInv, DrainSends PROVE RdvInv'
<1>1. RdvTyped
  BY DEF RdvInv
<1>f. drain \in [at : {"dial", "build", "send", "install"}, fetch : Fetch]
  BY <1>1 DEF DrainSends, RdvTyped, RdvTypeOK, Idle
<1> PICK f \in Fetch : f = drain.fetch
  BY <1>f
<1>2. /\ drain \in [at : {"dial", "build", "send", "install"}, fetch : Fetch]
      /\ drain' \in [at : {"dial", "build", "send", "install"}, fetch : Fetch] /\ f \in Fetch
      /\ hup' = Put(hup, f, "r1")
      /\ UNCHANGED <<client, point, queue, keysH, serving, intro, up, down, hdown, cut, rdvFaults>>
  BY <1>f DEF DrainSends
<1>3. CutIsEmpty(f)
  BY <1>2, GoodIs
<1>4. /\ hup' \in [Fetch -> Seq(RdvCells)] /\ \A g \in Fetch \ {f} : hup'[g] = hup[g]
      /\ \A c \in RdvCells \ {"r1"} : Occurs(hup'[f], c) = Occurs(hup[f], c)
      /\ f \in cut => hup'[f] = hup[f]
      /\ EndIsLast(hup[f]) => EndIsLast(hup'[f])
  <2>1. hup \in [Fetch -> Seq(RdvCells)] /\ "r1" \in RdvCells /\ hup' = Put(hup, f, "r1")
    BY <1>1, <1>2 DEF RdvTyped, RdvCells
  <2>2. QED BY <2>1, PutCounts
<1>5. RdvTyped'
  BY <1>1, <1>2, <1>4 DEF RdvTyped, RdvTypeOK, client, point
<1>6. \A g \in Fetch \ {f} : Rests(g)
  BY <1>2, <1>4 DEF Rests, client, point
<1>7. CutIsEmpty(f)'
  BY <1>2, <1>3, <1>4 DEF CutIsEmpty
<1>8. {"req", "chunk", "end"} \subseteq RdvCells \ {"r1"}
  BY DEF RdvCells
<1>9. \A c \in {"req", "chunk", "end"} :
            /\ Occurs(up'[f], c) = Occurs(up[f], c) /\ Occurs(down'[f], c) = Occurs(down[f], c)
            /\ Occurs(hup'[f], c) = Occurs(hup[f], c) /\ Occurs(hdown'[f], c) = Occurs(hdown[f], c)
  BY <1>2, <1>4, <1>8
<1>10. bridged \subseteq bridged'
  BY <1>2 DEF point
<1>11. QED BY <1>2, <1>4, <1>5, <1>6, <1>7, <1>9, <1>10, SetupKeeps

-----------------------------------------------------------------------------
\* A step at the far ends, by what becomes of the counts while the client reads.
LEMMA FarStepKeeps ==
  ASSUME RdvInv, RdvTyped', NEW f \in Fetch, UNCHANGED <<client, cut>>,
         \A g \in Fetch \ {f} : Rests(g), CutIsEmpty(f)',
         fetch[f] \notin {"reading", "clean", "done", "failed"} =>
            (Requests(f)' = 0 /\ serving'[f] = 0 /\ Sent(f)' = 0 /\ Ends(f)' = 0),
         (fetch[f] = "reading" /\ f \in collector /\ f \in origin /\ f \notin cut) => Answering(f)'
  PROVE  RdvInv'
<1>1. Holding(f) /\ Whole(f)
  BY GoodIs
<1>2. Holding(f)' /\ Whole(f)'
  BY <1>1, ClientKeeps
<1>3. AskedLater(f)'
  BY DEF AskedLater, client
<1>4. Answering(f)'
  BY DEF Answering, client
<1>5. RdvGood(f)'
  BY <1>2, <1>3, <1>4 DEF RdvGood
<1>6. QED BY <1>5, OneMoves

\* Before the request there is nothing of it or of a response on the paths.
LEMMA NothingAsked ==
  ASSUME RdvInv, NEW f \in Fetch, fetch[f] \notin {"reading", "clean", "done", "failed"}
  PROVE  /\ serving[f] = 0 /\ got[f] = 0
         /\ \A c \in {"req", "chunk", "end"} :
              /\ c = "req" => Occurs(up[f], c) = 0 /\ Occurs(hdown[f], c) = 0
              /\ c # "req" => Occurs(down[f], c) = 0 /\ Occurs(hup[f], c) = 0
<1>1. AskedLater(f) /\ RdvTyped
  BY GoodIs
<1>2. Requests(f) = 0 /\ serving[f] = 0 /\ Sent(f) = 0 /\ Ends(f) = 0
  BY <1>1 DEF AskedLater
<1>3. /\ Occurs(up[f], "req") + Occurs(hdown[f], "req") = 0
      /\ got[f] + Occurs(down[f], "chunk") + Occurs(hup[f], "chunk") = 0
      /\ Occurs(down[f], "end") + Occurs(hup[f], "end") = 0
  BY <1>2 DEF Requests, Sent, Ends
<1>4. /\ Occurs(up[f], "req") \in Nat /\ Occurs(hdown[f], "req") \in Nat /\ got[f] \in Nat
      /\ Occurs(down[f], "chunk") \in Nat /\ Occurs(hup[f], "chunk") \in Nat
      /\ Occurs(down[f], "end") \in Nat /\ Occurs(hup[f], "end") \in Nat
  BY <1>1, CountsTyped
<1>5. /\ Occurs(up[f], "req") = 0 /\ Occurs(hdown[f], "req") = 0 /\ got[f] = 0
      /\ Occurs(down[f], "chunk") = 0 /\ Occurs(hup[f], "chunk") = 0
      /\ Occurs(down[f], "end") = 0 /\ Occurs(hup[f], "end") = 0
  <2>1. \A a, b \in Nat : a + b = 0 => a = 0 /\ b = 0
    OBVIOUS
  <2>2. \A a, b, c \in Nat : a + b + c = 0 => a = 0 /\ b = 0 /\ c = 0
    OBVIOUS
  <2>3. Occurs(up[f], "req") = 0 /\ Occurs(hdown[f], "req") = 0
    BY <1>3, <1>4, <2>1
  <2>4. got[f] = 0 /\ Occurs(down[f], "chunk") = 0 /\ Occurs(hup[f], "chunk") = 0
    <3>1. got[f] \in Nat /\ Occurs(down[f], "chunk") \in Nat /\ Occurs(hup[f], "chunk") \in Nat
      BY <1>4
    <3>2. got[f] + Occurs(down[f], "chunk") + Occurs(hup[f], "chunk") = 0
      BY <1>3
    <3>3. QED BY <3>1, <3>2, <2>2, Zenon
  <2>5. Occurs(down[f], "end") = 0 /\ Occurs(hup[f], "end") = 0
    BY <1>3, <1>4, <2>1
  <2>6. QED BY <2>3, <2>4, <2>5
<1>6. QED BY <1>2, <1>5

\* The numbers of a fetch that reads, as the invariant relates them.
LEMMA ReadingCounts ==
  ASSUME RdvInv, NEW f \in Fetch, fetch[f] = "reading", f \in collector, f \in origin, f \notin cut,
         NEW ur, ur = Occurs(up[f], "req"), NEW hr, hr = Occurs(hdown[f], "req"),
         NEW dc, dc = Occurs(down[f], "chunk"), NEW hc, hc = Occurs(hup[f], "chunk"),
         NEW de, de = Occurs(down[f], "end"), NEW he, he = Occurs(hup[f], "end")
  PROVE  /\ {ur, hr, dc, hc, de, he, got[f], serving[f]} \subseteq Nat /\ Chunks \in Nat /\ Chunks > 0
         /\ serving[f] <= Chunks + 1
         /\ ur + hr <= 1 /\ (hr > 0 => f \in bridged)
         /\ (ur + hr > 0) => (serving[f] = 0 /\ de + he = 0)
         /\ (serving[f] = 0 /\ de + he = 0) => got[f] + dc + hc = 0
         /\ serving[f] > 0 => (de + he = 0 /\ got[f] + dc + hc = serving[f] - 1 /\ f \in bridged)
         /\ de + he > 0 => (got[f] + dc + hc = Chunks /\ f \in bridged)
         /\ EndIsLast(down[f]) /\ EndIsLast(hup[f]) /\ (de > 0 => hc = 0)
<1>1. Answering(f) /\ RdvTyped
  BY GoodIs
<1>2. /\ {ur, hr, dc, hc, de, he, got[f], serving[f]} \subseteq Nat /\ Chunks \in Nat /\ Chunks > 0
      /\ serving[f] <= Chunks + 1
  BY <1>1, CountsTyped
<1>3. Requests(f) = ur + hr /\ Sent(f) = got[f] + dc + hc /\ Ends(f) = de + he
  BY DEF Requests, Sent, Ends
<1>4. QED BY <1>1, <1>2, <1>3 DEF Answering

\* and the other way: numbers so related are as the invariant has them.
LEMMA AnsweringNext ==
  ASSUME NEW f \in Fetch, UNCHANGED client,
         NEW ur, ur = Occurs(up'[f], "req"), NEW hr, hr = Occurs(hdown'[f], "req"),
         NEW dc, dc = Occurs(down'[f], "chunk"), NEW hc, hc = Occurs(hup'[f], "chunk"),
         NEW de, de = Occurs(down'[f], "end"), NEW he, he = Occurs(hup'[f], "end"),
         ur + hr <= 1, hr > 0 => f \in bridged',
         ur + hr > 0 => (serving'[f] = 0 /\ de + he = 0),
         (serving'[f] = 0 /\ de + he = 0) => got[f] + dc + hc = 0,
         serving'[f] > 0 => (de + he = 0 /\ got[f] + dc + hc = serving'[f] - 1 /\ f \in bridged'),
         de + he > 0 => (got[f] + dc + hc = Chunks /\ f \in bridged'),
         EndIsLast(down'[f]), EndIsLast(hup'[f]), de > 0 => hc = 0
  PROVE  Answering(f)'
<1>1. got'[f] = got[f]
  BY DEF client
<1>2. Requests(f)' = ur + hr /\ Sent(f)' = got[f] + dc + hc /\ Ends(f)' = de + he
  BY <1>1 DEF Requests, Sent, Ends
<1>3. QED BY <1>2 DEF Answering

\* A request crosses the bridge, or is dropped before there is one.
LEMMA SpliceUpKeeps ==
  ASSUME RdvInv, NEW f \in Fetch, up[f] # <<>>, Head(up[f]) = "req", up' = Take(up, f),
         hdown' = IF f \in bridged THEN Put(hdown, f, "req") ELSE hdown,
         UNCHANGED <<client, point, service, intro, down, hup, cut, rdvFaults>>
  PROVE  RdvInv'
<1>1. RdvTyped /\ CutIsEmpty(f)
  BY GoodIs
<1>2. /\ up' \in [Fetch -> Seq(RdvCells)] /\ \A g \in Fetch \ {f} : up'[g] = up[g]
      /\ Occurs(up'[f], "req") = Occurs(up[f], "req") - 1 /\ Occurs(up[f], "req") > 0
  <2>1. up \in [Fetch -> Seq(RdvCells)]
    BY <1>1 DEF RdvTyped
  <2>2. QED BY <2>1, TakeCounts
<1>3. /\ hdown' \in [Fetch -> Seq(RdvCells)] /\ \A g \in Fetch \ {f} : hdown'[g] = hdown[g]
      /\ f \in cut => hdown'[f] = hdown[f]
      /\ \/ Occurs(hdown'[f], "req") = Occurs(hdown[f], "req")
         \/ Occurs(hdown'[f], "req") = Occurs(hdown[f], "req") + 1 /\ f \in bridged
  <2>1. hdown \in [Fetch -> Seq(RdvCells)] /\ "req" \in RdvCells
    BY <1>1 DEF RdvTyped, RdvCells
  <2>2. CASE f \notin bridged
    BY <2>1, <2>2
  <2>3. CASE f \in bridged
    <3>1. hdown' = Put(hdown, f, "req")
      BY <2>3
    <3>2. /\ hdown' \in [Fetch -> Seq(RdvCells)] /\ \A g \in Fetch \ {f} : hdown'[g] = hdown[g]
          /\ f \in cut => hdown'[f] = hdown[f]
          /\ Occurs(hdown'[f], "req") = Occurs(hdown[f], "req") + (IF f \in cut THEN 0 ELSE 1)
      BY <2>1, <3>1, PutCounts
    <3>3. f \notin cut
      BY <1>1 DEF CutIsEmpty
    <3>4. QED BY <2>3, <3>2, <3>3
  <2>4. QED BY <2>2, <2>3
<1>4. RdvTyped'
  BY <1>1, <1>2, <1>3 DEF RdvTyped, RdvTypeOK, client, point, service
<1>5. \A g \in Fetch \ {f} : Rests(g)
  BY <1>2, <1>3 DEF Rests, client, point, service
<1>6. CutIsEmpty(f)'
  BY <1>1, <1>3 DEF CutIsEmpty
<1>7. ASSUME fetch[f] \notin {"reading", "clean", "done", "failed"} PROVE FALSE
  <2>1. Occurs(up[f], "req") = 0
    BY <1>7, NothingAsked
  <2>2. QED BY <1>2, <2>1
<1>8. ASSUME fetch[f] = "reading", f \in collector, f \in origin, f \notin cut PROVE Answering(f)'
  <2> DEFINE ur == Occurs(up[f], "req")
             hr == Occurs(hdown[f], "req")
             dc == Occurs(down[f], "chunk")
             hc == Occurs(hup[f], "chunk")
             de == Occurs(down[f], "end")
             he == Occurs(hup[f], "end")
             ur2 == Occurs(up'[f], "req")
             hr2 == Occurs(hdown'[f], "req")
  <2>1. /\ {ur, hr, dc, hc, de, he, got[f], serving[f]} \subseteq Nat /\ Chunks \in Nat
        /\ ur + hr <= 1 /\ (hr > 0 => f \in bridged)
        /\ (ur + hr > 0) => (serving[f] = 0 /\ de + he = 0)
        /\ (serving[f] = 0 /\ de + he = 0) => got[f] + dc + hc = 0
        /\ EndIsLast(down[f]) /\ EndIsLast(hup[f]) /\ (de > 0 => hc = 0)
    BY <1>8, ReadingCounts
  <2>2. ur2 = ur - 1 /\ ur > 0 /\ (hr2 = hr \/ (hr2 = hr + 1 /\ f \in bridged))
    BY <1>2, <1>3
  <2>3. /\ serving' = serving /\ bridged' = bridged /\ got' = got
        /\ dc = Occurs(down'[f], "chunk") /\ hc = Occurs(hup'[f], "chunk")
        /\ de = Occurs(down'[f], "end") /\ he = Occurs(hup'[f], "end")
        /\ EndIsLast(down'[f]) /\ EndIsLast(hup'[f])
    BY <2>1 DEF service, point, client
  <2> HIDE DEF ur, hr, dc, hc, de, he, ur2, hr2
  <2>a. ur \in Nat /\ hr \in Nat /\ ur + hr = 1 /\ ur = 1 /\ hr = 0
    <3>1. ur \in Nat /\ hr \in Nat
      BY <2>1
    <3>2. QED BY <2>1, <2>2, <3>1
  <2>b. ur2 = 0 /\ (hr2 = 0 \/ (hr2 = 1 /\ f \in bridged))
    BY <2>2, <2>a
  <2>c. serving[f] = 0 /\ de + he = 0 /\ got[f] + dc + hc = 0
    BY <2>1, <2>a
  <2>4. /\ ur2 + hr2 <= 1 /\ (hr2 > 0 => f \in bridged')
        /\ ur2 + hr2 > 0 => (serving'[f] = 0 /\ de + he = 0)
        /\ (serving'[f] = 0 /\ de + he = 0) => got[f] + dc + hc = 0
        /\ serving'[f] = 0 /\ de + he = 0
    BY <2>3, <2>b, <2>c
  <2>5. ur2 = Occurs(up'[f], "req") /\ hr2 = Occurs(hdown'[f], "req")
    BY DEF ur2, hr2
  <2>6. /\ serving'[f] > 0 => (de + he = 0 /\ got[f] + dc + hc = serving'[f] - 1 /\ f \in bridged')
        /\ de + he > 0 => (got[f] + dc + hc = Chunks /\ f \in bridged')
        /\ de > 0 => hc = 0
    BY <2>1, <2>4
  <2>7. QED BY <2>3, <2>4, <2>5, <2>6, AnsweringNext
<1>9. QED BY <1>4, <1>5, <1>6, <1>7, <1>8, FarStepKeeps

\* A cell of the response crosses the bridge that the request crossed.
LEMMA SpliceDownKeeps ==
  ASSUME RdvInv, NEW f \in Fetch, NEW c \in {"chunk", "end"}, hup[f] # <<>>, Head(hup[f]) = c,
         down' = IF f \in bridged THEN Put(down, f, c) ELSE down, hup' = Take(hup, f),
         UNCHANGED <<client, point, service, intro, up, hdown, cut, rdvFaults>>
  PROVE  RdvInv'
<1>1. RdvTyped /\ CutIsEmpty(f)
  BY GoodIs
<1>2. /\ hup' \in [Fetch -> Seq(RdvCells)] /\ \A g \in Fetch \ {f} : hup'[g] = hup[g]
      /\ \A x \in RdvCells \ {c} : Occurs(hup'[f], x) = Occurs(hup[f], x)
      /\ Occurs(hup'[f], c) = Occurs(hup[f], c) - 1 /\ Occurs(hup[f], c) > 0
      /\ EndIsLast(hup[f]) => EndIsLast(hup'[f])
      /\ (EndIsLast(hup[f]) /\ c = "end") => Occurs(hup[f], "chunk") = 0
  <2>1. hup \in [Fetch -> Seq(RdvCells)]
    BY <1>1 DEF RdvTyped
  <2>2. QED BY <2>1, TakeCounts
<1>3. f \notin cut
  BY <1>1 DEF CutIsEmpty
<1>4. /\ down' \in [Fetch -> Seq(RdvCells)] /\ \A g \in Fetch \ {f} : down'[g] = down[g]
      /\ f \in bridged =>
           /\ \A x \in RdvCells \ {c} : Occurs(down'[f], x) = Occurs(down[f], x)
           /\ Occurs(down'[f], c) = Occurs(down[f], c) + 1
           /\ (EndIsLast(down[f]) /\ (c = "chunk" => Occurs(down[f], "end") = 0)) => EndIsLast(down'[f])
  <2>1. down \in [Fetch -> Seq(RdvCells)] /\ c \in RdvCells
    BY <1>1 DEF RdvTyped, RdvCells
  <2>2. CASE f \notin bridged
    BY <2>1, <2>2
  <2>3. CASE f \in bridged
    <3>1. down' = Put(down, f, c)
      BY <2>3
    <3>2. QED BY <1>3, <2>1, <3>1, PutCounts
  <2>4. QED BY <2>2, <2>3
<1>5. RdvTyped'
  BY <1>1, <1>2, <1>4 DEF RdvTyped, RdvTypeOK, client, point, service
<1>6. \A g \in Fetch \ {f} : Rests(g)
  BY <1>2, <1>4 DEF Rests, client, point, service
<1>7. CutIsEmpty(f)'
  BY <1>3 DEF CutIsEmpty
<1>8. ASSUME fetch[f] = "reading", f \in collector, f \in origin, f \notin cut PROVE Answering(f)'
  <2> DEFINE ur == Occurs(up[f], "req")
             hr == Occurs(hdown[f], "req")
             dc == Occurs(down[f], "chunk")
             hc == Occurs(hup[f], "chunk")
             de == Occurs(down[f], "end")
             he == Occurs(hup[f], "end")
             dc2 == Occurs(down'[f], "chunk")
             hc2 == Occurs(hup'[f], "chunk")
             de2 == Occurs(down'[f], "end")
             he2 == Occurs(hup'[f], "end")
  <2>1. /\ ur \in Nat /\ hr \in Nat /\ dc \in Nat /\ hc \in Nat /\ de \in Nat /\ he \in Nat
        /\ got[f] \in Nat /\ serving[f] \in Nat /\ Chunks \in Nat /\ Chunks > 0 /\ serving[f] <= Chunks + 1
        /\ ur + hr <= 1 /\ (hr > 0 => f \in bridged)
        /\ (ur + hr > 0) => (serving[f] = 0 /\ de + he = 0)
        /\ (serving[f] = 0 /\ de + he = 0) => got[f] + dc + hc = 0
        /\ serving[f] > 0 => (de + he = 0 /\ got[f] + dc + hc = serving[f] - 1 /\ f \in bridged)
        /\ de + he > 0 => (got[f] + dc + hc = Chunks /\ f \in bridged)
        /\ EndIsLast(down[f]) /\ EndIsLast(hup[f]) /\ (de > 0 => hc = 0)
    <3>1. /\ {ur, hr, dc, hc, de, he, got[f], serving[f]} \subseteq Nat /\ Chunks \in Nat /\ Chunks > 0
          /\ serving[f] <= Chunks + 1
          /\ ur + hr <= 1 /\ (hr > 0 => f \in bridged)
          /\ (ur + hr > 0) => (serving[f] = 0 /\ de + he = 0)
          /\ (serving[f] = 0 /\ de + he = 0) => got[f] + dc + hc = 0
          /\ serving[f] > 0 => (de + he = 0 /\ got[f] + dc + hc = serving[f] - 1 /\ f \in bridged)
          /\ de + he > 0 => (got[f] + dc + hc = Chunks /\ f \in bridged)
          /\ EndIsLast(down[f]) /\ EndIsLast(hup[f]) /\ (de > 0 => hc = 0)
      BY <1>8, ReadingCounts
    <3> HIDE DEF ur, hr, dc, hc, de, he
    <3>2. QED BY <3>1
  <2>2. "chunk" \in RdvCells /\ "end" \in RdvCells
    BY DEF RdvCells
  <2>3. f \in bridged /\ (c = "chunk" => de = 0)
    <3>1. c = "chunk" => hc > 0
      BY <1>2
    <3>2. c = "end" => he > 0
      BY <1>2
    <3> HIDE DEF ur, hr, dc, hc, de, he
    <3>3. CASE c = "chunk"
      <4>1. hc > 0 /\ de = 0
        BY <2>1, <3>1, <3>3
      <4>2. serving[f] > 0 \/ de + he > 0
        BY <2>1, <4>1
      <4>3. QED BY <2>1, <4>1, <4>2
    <3>4. CASE c = "end"
      <4>1. de + he > 0
        BY <2>1, <3>2, <3>4
      <4>2. QED BY <2>1, <4>1, <3>4
    <3>5. QED BY <3>3, <3>4
  <2>4. EndIsLast(down'[f]) /\ EndIsLast(hup'[f])
    BY <1>2, <1>4, <2>1, <2>3
  <2>5. \/ c = "chunk" /\ dc2 = dc + 1 /\ hc2 = hc - 1 /\ de2 = de /\ he2 = he /\ de = 0
        \/ c = "end" /\ de2 = de + 1 /\ he2 = he - 1 /\ dc2 = dc /\ hc2 = hc /\ hc = 0
    <3>1. CASE c = "chunk"
      BY <1>2, <1>4, <2>2, <2>3, <3>1
    <3>2. CASE c = "end"
      BY <1>2, <1>4, <2>1, <2>2, <2>3, <3>2
    <3>3. QED BY <3>1, <3>2
  <2>6. serving' = serving /\ bridged' = bridged /\ ur = Occurs(up'[f], "req") /\ hr = Occurs(hdown'[f], "req")
    BY DEF service, point
  <2>7. hc2 \in Nat /\ he2 \in Nat
    <3>1. hup'[f] \in Seq(RdvCells)
      BY <1>2
    <3>2. QED BY <3>1, OccursIs
  <2>8. dc2 = Occurs(down'[f], "chunk") /\ hc2 = Occurs(hup'[f], "chunk") /\ de2 = Occurs(down'[f], "end")
        /\ he2 = Occurs(hup'[f], "end")
    OBVIOUS
  <2> HIDE DEF ur, hr, dc, hc, de, he, dc2, hc2, de2, he2
  <2>9. de2 + he2 = de + he /\ got[f] + dc2 + hc2 = got[f] + dc + hc /\ (de2 > 0 => hc2 = 0)
    <3>1. CASE dc2 = dc + 1 /\ hc2 = hc - 1 /\ de2 = de /\ he2 = he /\ de = 0
      <4>1. /\ dc \in Nat /\ hc \in Nat /\ got[f] \in Nat
            /\ \A a, b, d \in Nat : a + (b + 1) + (d - 1) = a + b + d
        BY <2>1
      <4>2. got[f] + dc2 + hc2 = got[f] + dc + hc
        BY <3>1, <4>1
      <4>3. de2 + he2 = de + he /\ ~ (de2 > 0)
        BY <3>1
      <4>4. QED BY <4>2, <4>3
    <3>2. CASE de2 = de + 1 /\ he2 = he - 1 /\ dc2 = dc /\ hc2 = hc /\ hc = 0
      BY <2>1, <2>7, <3>2
    <3>3. QED BY ONLY <2>5, <3>1, <3>2
  <2>10. /\ ur + hr <= 1 /\ (hr > 0 => f \in bridged')
         /\ ur + hr > 0 => (serving'[f] = 0 /\ de2 + he2 = 0)
         /\ (serving'[f] = 0 /\ de2 + he2 = 0) => got[f] + dc2 + hc2 = 0
         /\ serving'[f] > 0 => (de2 + he2 = 0 /\ got[f] + dc2 + hc2 = serving'[f] - 1 /\ f \in bridged')
         /\ de2 + he2 > 0 => (got[f] + dc2 + hc2 = Chunks /\ f \in bridged')
         /\ de2 > 0 => hc2 = 0
    BY ONLY <2>1, <2>3, <2>6, <2>9
  <2>11. f \in Fetch /\ UNCHANGED client
    OBVIOUS
  <2>12. QED BY ONLY <2>4, <2>6, <2>8, <2>10, <2>11, AnsweringNext
<1>9. ASSUME fetch[f] \notin {"reading", "clean", "done", "failed"} PROVE FALSE
  <2>1. Occurs(hup[f], c) = 0
    BY <1>9, NothingAsked
  <2>2. QED BY <1>2, <2>1
<1>10. QED BY <1>5, <1>6, <1>7, <1>8, <1>9, FarStepKeeps

\* The service takes a request: the response begins at its first chunk.
LEMMA RecvRequestKeeps == ASSUME RdvInv, NEW f \in Fetch, RecvRequest(f) PROVE RdvInv'
<1>1. RdvTyped /\ CutIsEmpty(f)
  BY GoodIs
<1>2. /\ serving[f] = 0 /\ hdown[f] # <<>> /\ Head(hdown[f]) = "req" /\ hdown' = Take(hdown, f)
      /\ serving' = serving \/ serving' = [serving EXCEPT ![f] = 1]
      /\ UNCHANGED <<client, point, queue, drain, keysH, intro, up, down, hup, cut, rdvFaults>>
  BY DEF RecvRequest, Next_
<1>3. /\ hdown' \in [Fetch -> Seq(RdvCells)] /\ \A g \in Fetch \ {f} : hdown'[g] = hdown[g]
      /\ Occurs(hdown'[f], "req") = Occurs(hdown[f], "req") - 1 /\ Occurs(hdown[f], "req") > 0
  <2>1. hdown \in [Fetch -> Seq(RdvCells)]
    BY <1>1 DEF RdvTyped
  <2>2. QED BY <1>2, <2>1, TakeCounts
<1>4. /\ serving' \in [Fetch -> 0 .. Chunks + 1] /\ \A g \in Fetch \ {f} : serving'[g] = serving[g]
      /\ serving'[f] \in {0, 1}
  <2>1. serving \in [Fetch -> 0 .. Chunks + 1] /\ 1 \in 0 .. Chunks + 1
    BY <1>1, RendezvousAssumption DEF RdvTyped, RdvTypeOK
  <2>2. QED BY <1>2, <2>1
<1>5. RdvTyped'
  BY <1>1, <1>2, <1>3, <1>4 DEF RdvTyped, RdvTypeOK, client, point
<1>6. \A g \in Fetch \ {f} : Rests(g)
  BY <1>2, <1>3, <1>4 DEF Rests, client, point
<1>7. CutIsEmpty(f)'
  BY <1>1, <1>2 DEF CutIsEmpty
<1>8. ASSUME fetch[f] = "reading", f \in collector, f \in origin, f \notin cut PROVE Answering(f)'
  <2> DEFINE ur == Occurs(up[f], "req")
             hr == Occurs(hdown[f], "req")
             dc == Occurs(down[f], "chunk")
             hc == Occurs(hup[f], "chunk")
             de == Occurs(down[f], "end")
             he == Occurs(hup[f], "end")
             hr2 == Occurs(hdown'[f], "req")
  <2>1. /\ ur \in Nat /\ hr \in Nat /\ dc \in Nat /\ hc \in Nat /\ de \in Nat /\ he \in Nat
        /\ got[f] \in Nat /\ serving[f] \in Nat /\ Chunks \in Nat /\ Chunks > 0 /\ serving[f] <= Chunks + 1
        /\ ur + hr <= 1 /\ (hr > 0 => f \in bridged)
        /\ (ur + hr > 0) => (serving[f] = 0 /\ de + he = 0)
        /\ (serving[f] = 0 /\ de + he = 0) => got[f] + dc + hc = 0
        /\ serving[f] > 0 => (de + he = 0 /\ got[f] + dc + hc = serving[f] - 1 /\ f \in bridged)
        /\ de + he > 0 => (got[f] + dc + hc = Chunks /\ f \in bridged)
        /\ EndIsLast(down[f]) /\ EndIsLast(hup[f]) /\ (de > 0 => hc = 0)
    <3>1. /\ {ur, hr, dc, hc, de, he, got[f], serving[f]} \subseteq Nat /\ Chunks \in Nat /\ Chunks > 0
          /\ serving[f] <= Chunks + 1
          /\ ur + hr <= 1 /\ (hr > 0 => f \in bridged)
          /\ (ur + hr > 0) => (serving[f] = 0 /\ de + he = 0)
          /\ (serving[f] = 0 /\ de + he = 0) => got[f] + dc + hc = 0
          /\ serving[f] > 0 => (de + he = 0 /\ got[f] + dc + hc = serving[f] - 1 /\ f \in bridged)
          /\ de + he > 0 => (got[f] + dc + hc = Chunks /\ f \in bridged)
          /\ EndIsLast(down[f]) /\ EndIsLast(hup[f]) /\ (de > 0 => hc = 0)
      BY <1>8, ReadingCounts
    <3> HIDE DEF ur, hr, dc, hc, de, he
    <3>2. QED BY <3>1
  <2>2. hr2 = hr - 1 /\ hr > 0
    BY <1>3
  <2>3. /\ bridged' = bridged /\ ur = Occurs(up'[f], "req") /\ hr2 = Occurs(hdown'[f], "req")
        /\ dc = Occurs(down'[f], "chunk") /\ hc = Occurs(hup'[f], "chunk")
        /\ de = Occurs(down'[f], "end") /\ he = Occurs(hup'[f], "end")
        /\ EndIsLast(down'[f]) /\ EndIsLast(hup'[f])
    BY <1>2, <2>1 DEF point
  <2> HIDE DEF ur, hr, dc, hc, de, he, hr2
  <2>4. ur + hr2 = 0 /\ hr2 = 0 /\ de + he = 0 /\ got[f] + dc + hc = 0 /\ f \in bridged
    <3>0. ur \in Nat /\ hr \in Nat /\ ur + hr <= 1 /\ hr > 0
      BY <2>1, <2>2
    <3>1. hr = 1 /\ ur = 0
      BY <3>0
    <3>2. ur + hr2 = 0 /\ hr2 = 0 /\ ur + hr > 0
      BY <2>2, <3>1
    <3>3. serving[f] = 0 /\ de + he = 0 /\ f \in bridged
      BY <2>1, <2>2, <3>2
    <3>4. QED BY <2>1, <3>2, <3>3
  <2>5. /\ ur + hr2 <= 1 /\ (hr2 > 0 => f \in bridged')
        /\ ur + hr2 > 0 => (serving'[f] = 0 /\ de + he = 0)
        /\ (serving'[f] = 0 /\ de + he = 0) => got[f] + dc + hc = 0
        /\ serving'[f] > 0 => (de + he = 0 /\ got[f] + dc + hc = serving'[f] - 1 /\ f \in bridged')
        /\ de + he > 0 => (got[f] + dc + hc = Chunks /\ f \in bridged')
        /\ de > 0 => hc = 0
    <3>1. de \in Nat /\ he \in Nat /\ de + he = 0 /\ ~ de > 0 /\ ~ de + he > 0
      BY <2>1, <2>4
    <3>2. ~ ur + hr2 > 0 /\ ur + hr2 <= 1 /\ ~ hr2 > 0 /\ got[f] + dc + hc = 0 /\ f \in bridged'
      BY <2>3, <2>4
    <3>3. serving'[f] > 0 => serving'[f] = 1
      BY <1>4
    <3>4. serving'[f] > 0 => got[f] + dc + hc = serving'[f] - 1
      BY <3>2, <3>3
    <3>5. QED BY <3>1, <3>2, <3>4
  <2>6. QED BY <1>2, <2>3, <2>5, AnsweringNext
<1>9. ASSUME fetch[f] \notin {"reading", "clean", "done", "failed"} PROVE FALSE
  <2>1. Occurs(hdown[f], "req") = 0
    BY <1>9, NothingAsked
  <2>2. QED BY <1>3, <2>1
<1>10. QED BY <1>2, <1>5, <1>6, <1>7, <1>8, <1>9, FarStepKeeps

\* The service sends the next chunk, or the end after the last of them.
LEMMA ServeKeeps == ASSUME RdvInv, NEW f \in Fetch, ServeChunk(f) \/ ServeEnd(f) PROVE RdvInv'
<1>1. RdvTyped /\ CutIsEmpty(f)
  BY GoodIs
<1>2. PICK c \in {"chunk", "end"} :
      /\ hup' = Put(hup, f, c)
      /\ \/ c = "chunk" /\ serving[f] \in 1 .. Chunks /\ serving' = [serving EXCEPT ![f] = serving[f] + 1]
         \/ c = "end" /\ serving[f] = Chunks + 1 /\ serving' = [serving EXCEPT ![f] = 0]
      /\ UNCHANGED <<client, point, queue, drain, keysH, intro, up, down, hdown, cut, rdvFaults>>
  BY DEF ServeChunk, ServeEnd
<1>3. /\ hup' \in [Fetch -> Seq(RdvCells)] /\ \A g \in Fetch \ {f} : hup'[g] = hup[g]
      /\ f \in cut => hup'[f] = hup[f]
      /\ \A x \in RdvCells \ {c} : Occurs(hup'[f], x) = Occurs(hup[f], x)
      /\ Occurs(hup'[f], c) = Occurs(hup[f], c) + (IF f \in cut THEN 0 ELSE 1)
      /\ (EndIsLast(hup[f]) /\ (c = "chunk" => Occurs(hup[f], "end") = 0)) => EndIsLast(hup'[f])
  <2>1. hup \in [Fetch -> Seq(RdvCells)] /\ c \in RdvCells
    BY <1>1 DEF RdvTyped, RdvCells
  <2>2. QED BY <1>2, <2>1, PutCounts
<1>4. /\ serving' \in [Fetch -> 0 .. Chunks + 1] /\ \A g \in Fetch \ {f} : serving'[g] = serving[g]
      /\ c = "chunk" => serving'[f] = serving[f] + 1
      /\ c = "end" => serving'[f] = 0
      /\ serving[f] > 0 /\ Chunks \in Nat
  <2>1. serving \in [Fetch -> 0 .. Chunks + 1] /\ Chunks \in Nat
    BY <1>1, RendezvousAssumption DEF RdvTyped, RdvTypeOK
  <2>2. serving[f] > 0
    BY <1>2, <2>1
  <2>3. CASE c = "chunk"
    BY <1>2, <2>1, <2>2, <2>3
  <2>4. CASE c = "end"
    BY <1>2, <2>1, <2>2, <2>4
  <2>5. QED BY <2>3, <2>4
<1>5. RdvTyped'
  BY <1>1, <1>2, <1>3, <1>4 DEF RdvTyped, RdvTypeOK, client, point
<1>6. \A g \in Fetch \ {f} : Rests(g)
  BY <1>2, <1>3, <1>4 DEF Rests, client, point
<1>7. CutIsEmpty(f)'
  BY <1>1, <1>2, <1>3 DEF CutIsEmpty
<1>8. ASSUME fetch[f] = "reading", f \in collector, f \in origin, f \notin cut PROVE Answering(f)'
  <2> DEFINE ur == Occurs(up[f], "req")
             hr == Occurs(hdown[f], "req")
             dc == Occurs(down[f], "chunk")
             hc == Occurs(hup[f], "chunk")
             de == Occurs(down[f], "end")
             he == Occurs(hup[f], "end")
             hc2 == Occurs(hup'[f], "chunk")
             he2 == Occurs(hup'[f], "end")
  <2>1. /\ ur \in Nat /\ hr \in Nat /\ dc \in Nat /\ hc \in Nat /\ de \in Nat /\ he \in Nat
        /\ got[f] \in Nat /\ serving[f] \in Nat /\ Chunks \in Nat /\ Chunks > 0 /\ serving[f] <= Chunks + 1
        /\ ur + hr <= 1 /\ (hr > 0 => f \in bridged)
        /\ (ur + hr > 0) => (serving[f] = 0 /\ de + he = 0)
        /\ (serving[f] = 0 /\ de + he = 0) => got[f] + dc + hc = 0
        /\ serving[f] > 0 => (de + he = 0 /\ got[f] + dc + hc = serving[f] - 1 /\ f \in bridged)
        /\ de + he > 0 => (got[f] + dc + hc = Chunks /\ f \in bridged)
        /\ EndIsLast(down[f]) /\ EndIsLast(hup[f]) /\ (de > 0 => hc = 0)
    <3>1. /\ {ur, hr, dc, hc, de, he, got[f], serving[f]} \subseteq Nat /\ Chunks \in Nat /\ Chunks > 0
          /\ serving[f] <= Chunks + 1
          /\ ur + hr <= 1 /\ (hr > 0 => f \in bridged)
          /\ (ur + hr > 0) => (serving[f] = 0 /\ de + he = 0)
          /\ (serving[f] = 0 /\ de + he = 0) => got[f] + dc + hc = 0
          /\ serving[f] > 0 => (de + he = 0 /\ got[f] + dc + hc = serving[f] - 1 /\ f \in bridged)
          /\ de + he > 0 => (got[f] + dc + hc = Chunks /\ f \in bridged)
          /\ EndIsLast(down[f]) /\ EndIsLast(hup[f]) /\ (de > 0 => hc = 0)
      BY <1>8, ReadingCounts
    <3> HIDE DEF ur, hr, dc, hc, de, he
    <3>2. QED BY <3>1
  <2>2. "chunk" \in RdvCells /\ "end" \in RdvCells
    BY DEF RdvCells
  <2>3. /\ ur + hr = 0 /\ de + he = 0 /\ de = 0 /\ he = 0
        /\ got[f] + dc + hc = serving[f] - 1 /\ f \in bridged
    <3> HIDE DEF ur, hr, dc, hc, de, he
    <3>1. de + he = 0 /\ got[f] + dc + hc = serving[f] - 1 /\ f \in bridged
      BY <1>4, <2>1
    <3>2. ~ ur + hr > 0
      BY <1>4, <2>1
    <3>3. QED BY <2>1, <3>1, <3>2
  <2>4. \/ c = "chunk" /\ hc2 = hc + 1 /\ he2 = he
        \/ c = "end" /\ he2 = he + 1 /\ hc2 = hc
    <3>1. CASE c = "chunk"
      BY <1>3, <1>8, <2>2, <3>1
    <3>2. CASE c = "end"
      BY <1>3, <1>8, <2>2, <3>2
    <3>3. QED BY <3>1, <3>2
  <2>5. EndIsLast(down'[f]) /\ EndIsLast(hup'[f])
    BY <1>2, <1>3, <2>1, <2>3
  <2>6. /\ bridged' = bridged /\ ur = Occurs(up'[f], "req") /\ hr = Occurs(hdown'[f], "req")
        /\ dc = Occurs(down'[f], "chunk") /\ hc2 = Occurs(hup'[f], "chunk")
        /\ de = Occurs(down'[f], "end") /\ he2 = Occurs(hup'[f], "end")
    BY <1>2 DEF point
  <2>7. c = "end" => serving[f] = Chunks + 1
    BY <1>2
  <2> HIDE DEF ur, hr, dc, hc, de, he, hc2, he2
  <2>8. /\ ur + hr <= 1 /\ (hr > 0 => f \in bridged')
        /\ ur + hr > 0 => (serving'[f] = 0 /\ de + he2 = 0)
        /\ (serving'[f] = 0 /\ de + he2 = 0) => got[f] + dc + hc2 = 0
        /\ serving'[f] > 0 => (de + he2 = 0 /\ got[f] + dc + hc2 = serving'[f] - 1 /\ f \in bridged')
        /\ de + he2 > 0 => (got[f] + dc + hc2 = Chunks /\ f \in bridged')
        /\ de > 0 => hc2 = 0
    <3>1. CASE c = "chunk"
      <4>1. got[f] + dc + hc2 = serving'[f] - 1 /\ de + he2 = 0 /\ serving'[f] > 0
        BY <1>4, <2>1, <2>3, <2>4, <3>1
      <4>2. ~ ur + hr > 0 /\ ur + hr <= 1 /\ ~ de > 0 /\ ~ de + he2 > 0 /\ ~ serving'[f] = 0
        BY <2>3, <4>1
      <4>3. (hr > 0 => f \in bridged') /\ f \in bridged'
        BY <2>3, <2>6
      <4>4. QED BY <4>1, <4>2, <4>3
    <3>2. CASE c = "end"
      <4>1. got[f] + dc + hc2 = Chunks /\ de + he2 = 1 /\ serving'[f] = 0
        BY <1>4, <2>1, <2>3, <2>4, <2>7, <3>2
      <4>2. ~ ur + hr > 0 /\ ur + hr <= 1 /\ ~ de > 0 /\ ~ serving'[f] > 0 /\ ~ (serving'[f] = 0 /\ de + he2 = 0)
        BY <2>3, <4>1
      <4>3. (hr > 0 => f \in bridged') /\ f \in bridged'
        BY <2>3, <2>6
      <4>4. QED BY <4>1, <4>2, <4>3
    <3>3. QED BY <3>1, <3>2
  <2>9. QED BY <1>2, <2>5, <2>6, <2>8, AnsweringNext
<1>9. ASSUME fetch[f] \notin {"reading", "clean", "done", "failed"} PROVE FALSE
  <2>1. serving[f] = 0
    BY <1>9, NothingAsked
  <2>2. QED BY <1>4, <2>1
<1>10. QED BY <1>2, <1>5, <1>6, <1>7, <1>8, <1>9, FarStepKeeps

\* A path cut loses what was on it, and no response is owed on it any more.
LEMMA CutKeeps == ASSUME RdvInv, NEW f \in Fetch, PathCut(f) PROVE RdvInv'
<1>1. RdvTyped /\ Holding(f) /\ Whole(f)
  BY GoodIs
<1>2. RdvTyped'
  <2>1. <<>> \in Seq(RdvCells) /\ rdvFaults' \in 0 .. RdvFaults
    BY <1>1, RendezvousAssumption DEF RdvTyped, RdvTypeOK, PathCut
  <2>2. QED BY <1>1, <2>1 DEF RdvTyped, RdvTypeOK, PathCut, client, point, service
<1>3. /\ up'[f] = <<>> /\ down'[f] = <<>> /\ hup'[f] = <<>> /\ hdown'[f] = <<>> /\ f \in cut'
      /\ UNCHANGED <<client, point, service>>
  BY <1>1 DEF RdvTyped, PathCut
<1>4. \A g \in Fetch \ {f} : Rests(g)
  BY <1>1 DEF Rests, RdvTyped, PathCut, client, point, service
<1>5. Holding(f)' /\ Whole(f)'
  BY <1>1, <1>3, ClientKeeps
<1>6. CutIsEmpty(f)' /\ Answering(f)'
  BY <1>3 DEF CutIsEmpty, Answering
<1>7. AskedLater(f)'
  <2>1. SUFFICES ASSUME fetch[f] \notin {"reading", "clean", "done", "failed"}
                 PROVE  (Requests(f) = 0 /\ serving[f] = 0 /\ Sent(f) = 0 /\ Ends(f) = 0)'
    BY <1>3 DEF AskedLater, client
  <2>2. serving'[f] = 0 /\ got'[f] = 0
    BY <1>3, <2>1, NothingAsked DEF client, service
  <2>3. \A c : Occurs(up'[f], c) = 0 /\ Occurs(down'[f], c) = 0 /\ Occurs(hup'[f], c) = 0 /\ Occurs(hdown'[f], c) = 0
    BY <1>3, OccursEmpty
  <2>4. QED BY <2>2, <2>3 DEF Requests, Sent, Ends
<1>8. RdvGood(f)'
  BY <1>5, <1>6, <1>7 DEF RdvGood
<1>9. QED BY <1>2, <1>4, <1>8, OneMoves

-----------------------------------------------------------------------------
\* Every step keeps the invariant.
LEMMA RdvStepKeeps == RdvInv /\ [RdvNext]_rdvVars => RdvInv'
<1> SUFFICES ASSUME RdvInv, [RdvNext]_rdvVars PROVE RdvInv'
  OBVIOUS
<1>1. CASE UNCHANGED rdvVars
  <2>1. RdvTyped'
    BY <1>1 DEF RdvInv, RdvTyped, RdvTypeOK, rdvVars, client, remote, point, service, wires
  <2>2. \A g \in Fetch : Rests(g)
    BY <1>1 DEF Rests, rdvVars, client, remote, point, service, wires
  <2>3. QED BY <2>1, <2>2, NoneMoves
<1>2. CASE DrainStep
  BY <1>2, QueueKeeps, DrainSendsKeeps DEF DrainStep
<1>3. ASSUME NEW f \in Fetch, FetchStep(f) PROVE RdvInv'
  BY <1>3, QuietStepKeeps, EstablishKeeps, RequestKeeps DEF FetchStep
<1>8. ASSUME NEW f \in Fetch, DialReturns(f) \/ SpareGoes(f) PROVE RdvInv'
  BY <1>8, QuietStepKeeps
<1>4. ASSUME NEW f \in Fetch, ClientReads(f) PROVE RdvInv'
  BY <1>4, OtherCellKeeps, QuietStepKeeps, ChunkKeeps, EndKeeps DEF ClientReads
<1>5. ASSUME NEW f \in Fetch, Splice(f) PROVE RdvInv'
  <2>1. CASE /\ Next_(up, f, "req")
             /\ up' = Take(up, f)
             /\ hdown' = IF f \in bridged THEN Put(hdown, f, "req") ELSE hdown
             /\ UNCHANGED <<client, point, service, intro, down, hup, cut, rdvFaults>>
    BY <2>1, SpliceUpKeeps DEF Next_
  <2>2. ASSUME NEW c \in {"chunk", "end"}, Next_(hup, f, c),
               down' = IF f \in bridged THEN Put(down, f, c) ELSE down, hup' = Take(hup, f),
               UNCHANGED <<client, point, service, intro, up, hdown, cut, rdvFaults>>
        PROVE  RdvInv'
    BY <2>2, SpliceDownKeeps DEF Next_
  <2>3. QED BY <1>5, <2>1, <2>2 DEF Splice
<1>6. ASSUME NEW f \in Fetch, ServiceStep(f) PROVE RdvInv'
  BY <1>6, QueueKeeps, RecvRequestKeeps, ServeKeeps DEF ServiceStep
<1>7. ASSUME NEW f \in Fetch,
             RecvEstablishRendezvous(f) \/ RecvRendezvous1(f) \/ RecvDestroy(f) \/ PathCut(f)
      PROVE  RdvInv'
  BY <1>7, PointKeeps, QuietStepKeeps, CutKeeps
<1> QED BY <1>1, <1>2, <1>3, <1>4, <1>5, <1>6, <1>7, <1>8 DEF RdvNext

\* The other circuits of a fetch: a build adds them, and the step that needs the
\* introduction circuit no more takes it away.
LEMMA SpareStaysHeld ==
  ASSUME RdvInv, \A g \in Fetch : SpareHeld(g), [RdvNext]_rdvVars, NEW f \in Fetch
  PROVE  SpareHeld(f)'
<1>1. fetch \in [Fetch -> Phases] /\ spare \subseteq Fetch \X {"intro", "half"} /\ SpareHeld(f)
  BY DEF RdvInv, RdvTyped, RdvTypeOK
<1>2. CASE fetch' = fetch /\ spare' \subseteq spare
  BY <1>1, <1>2 DEF SpareHeld
<1>3. ASSUME NEW g \in Fetch, g # f, FetchStep(g) \/ DialReturns(g) PROVE SpareHeld(f)'
  <2>1. \E p \in Phases : fetch' = [fetch EXCEPT ![g] = p]
    BY <1>3 DEF FetchStep, DialReturns, TakeRp, BuildRp, ChooseIntro, BuildIntro, EstablishRendezvous,
        AwaitRendezvous, SendIntroduce1, Woken, RendezvousTimeout, OpenCollector, SendRequest,
        ResponseEnds, ResponseTimeout, Teardown, To, Phases
  <2>2. spare' \subseteq spare \union {<<g, "intro">>, <<g, "half">>}
    BY <1>3 DEF FetchStep, DialReturns, TakeRp, BuildRp, ChooseIntro, BuildIntro, EstablishRendezvous,
        AwaitRendezvous, SendIntroduce1, Woken, RendezvousTimeout, OpenCollector, SendRequest,
        ResponseEnds, ResponseTimeout, Teardown, MayLeave, LetIntroGo
  <2>3. fetch'[f] = fetch[f]
    BY <1>1, <1>3, <2>1
  <2>4. /\ <<f, "intro">> \in spare' => <<f, "intro">> \in spare
        /\ <<f, "half">> \in spare' => <<f, "half">> \in spare
    BY <1>3, <2>2
  <2>5. QED BY <1>1, <2>3, <2>4 DEF SpareHeld
<1>4. ASSUME FetchStep(f) \/ DialReturns(f) PROVE SpareHeld(f)'
  <2>1. CASE TakeRp(f) \/ ChooseIntro(f) \/ DialReturns(f)
    BY <1>1, <2>1 DEF SpareHeld, TakeRp, ChooseIntro, DialReturns, To
  <2>2. CASE BuildRp(f) \/ BuildIntro(f)
    BY <1>1, <2>2 DEF SpareHeld, BuildRp, BuildIntro, To, MayLeave
  <2>3. CASE EstablishRendezvous(f) \/ AwaitRendezvous(f) \/ SendIntroduce1(f)
    BY <1>1, <2>3 DEF SpareHeld, EstablishRendezvous, AwaitRendezvous, SendIntroduce1, To, LetIntroGo
  <2>4. CASE Woken(f) \/ RendezvousTimeout(f) \/ OpenCollector(f) \/ SendRequest(f)
    BY <1>1, <2>4 DEF SpareHeld, Woken, RendezvousTimeout, OpenCollector, SendRequest, To
  <2>5. CASE ResponseEnds(f) \/ ResponseTimeout(f) \/ Teardown(f)
    BY <1>1, <2>5 DEF SpareHeld, ResponseEnds, ResponseTimeout, Teardown, To
  <2>6. QED BY <1>4, <2>1, <2>2, <2>3, <2>4, <2>5 DEF FetchStep
<1>5. ASSUME NEW g \in Fetch, ClientReads(g) \/ RecvDestroy(g) \/ PathCut(g) \/ SpareGoes(g)
      PROVE  fetch' = fetch /\ spare' \subseteq spare
  BY <1>5 DEF ClientReads, ClientDiscards, RecvRendezvous2, CompleteRendezvous, SignalRendezvous, RecvChunk,
      RecvEnd, RecvDestroy, PathCut, SpareGoes, client
<1>6. ASSUME NEW g \in Fetch, RecvEstablishRendezvous(g) \/ RecvRendezvous1(g) \/ Splice(g)
      PROVE  fetch' = fetch /\ spare' = spare
  BY <1>6 DEF RecvEstablishRendezvous, RecvRendezvous1, Splice, client
<1>7. ASSUME NEW g \in Fetch, ServiceStep(g) PROVE fetch' = fetch /\ spare' = spare
  BY <1>7 DEF ServiceStep, ForwardIntroduce2, HandleIntroduce2, RecvRequest, ServeChunk, ServeEnd, client
<1>8. CASE DrainStep \/ UNCHANGED rdvVars
  <2>1. fetch' = fetch /\ spare' = spare
    BY <1>8 DEF DrainStep, DrainPops, DrainBuilds, DrainSends, DrainInstalls, rdvVars, client
  <2>2. QED BY <1>2, <2>1
<1>9. QED BY <1>2, <1>3, <1>4, <1>5, <1>6, <1>7, <1>8 DEF RdvNext

\* However the cells, the timeouts, the faults and the service's queue interleave, a fetch
\* that is over returned every chunk of the response, or left no rendezvous circuit, waiter
\* or collector behind; none keeps its introduction circuit; and all that can stay is what
\* a failed build left (hs_fetch, hs_fetch_request, build_circuit, serve_hs_request).
THEOREM FetchesEndWhole == RdvSpec => [](RdvTypeOK /\ FetchOutcome)
<1> DEFINE RdvKept == RdvInv /\ \A f \in Fetch : SpareHeld(f)
<1>1. RdvInit => RdvKept
  BY RdvInitially DEF RdvInit, SpareHeld
<1>2. RdvKept /\ [RdvNext]_rdvVars => RdvKept'
  <2> SUFFICES ASSUME RdvKept, [RdvNext]_rdvVars PROVE RdvKept'
    OBVIOUS
  <2>1. RdvInv'
    BY RdvStepKeeps
  <2>2. ASSUME NEW f \in Fetch PROVE SpareHeld(f)'
    BY SpareStaysHeld
  <2>3. QED BY <2>1, <2>2
<1>3. RdvKept => RdvTypeOK /\ FetchOutcome
  <2>1. SUFFICES ASSUME RdvKept PROVE RdvTypeOK /\ FetchOutcome
    OBVIOUS
  <2>2. ASSUME NEW f \in Fetch PROVE RdvGood(f) /\ SpareHeld(f)
    BY <2>1 DEF RdvInv
  <2>3. RdvTypeOK
    BY <2>1 DEF RdvInv, RdvTyped
  <2>4. CircuitsReleased
    BY <2>2 DEF CircuitsReleased, RdvGood, Holding, SpareHeld
  <2>5. AnswerIsWhole
    BY <2>2 DEF AnswerIsWhole, RdvGood, Whole
  <2>6. QED BY <2>3, <2>4, <2>5 DEF FetchOutcome
<1> HIDE DEF Held
<1>4. QED BY <1>1, <1>2, <1>3, PTL DEF RdvSpec

-----------------------------------------------------------------------------
(* Messages that were unsent stay away. *)

\* What is sealed.
Envelopes ==
    {e \in [id : MsgId, from : User, blinded : (User \cup Group) \X Nat, sealedIn : Nat,
            kind : {"chat", "delete", "invite", "group"}, about : MsgId \cup Group \cup {0},
            group : GroupState] :
        /\ e.kind = "delete" => e.about \in MsgId
        /\ e.kind = "invite" => e.about \in Group
        /\ e.kind = "group" => Whose(e) \in Group}

\* A node's state, when the envelopes its mailbox holds are in S; the messages on a link.
ComStates(S) ==
    [contacts : SUBSET User, seen : SUBSET MsgId, messages : SUBSET MsgId,
     groups : [Group -> GroupState], known : SUBSET MsgId, box : Seq([at : Nat, env : S])]
MailOf(S) == [type : {"store"}, env : S] \cup [type : {"mail"}, envs : Seq(S)]

\* What is on the links and circuits was sealed.
WiresTyped ==
    /\ sent \in Seq(Envelopes)
    /\ mailWire \in [User \X User -> Seq(MailOf(Range(sent)))]
    /\ injected \subseteq User \X Range(sent)

\* The ids in U have been seen, and are not among the messages.
Gone(s, U) == U \subseteq s.seen /\ U \cap s.messages = {}

(***************************************************************************)
(* Why a message a process was told to delete stays away. Its id is kept   *)
(* among those seen, so that Inbox::record turns away every later copy.    *)
(* That UnsentStaysUnsent is not inductive alone is the reason for both    *)
(* parts of Gone: an id that is no longer among the messages must also     *)
(* have been seen, or the next copy would be recorded.                     *)
(***************************************************************************)
MailInv == ComTypeOK /\ WiresTyped /\ \A n \in User : Gone(com[n], unsent[n])

-----------------------------------------------------------------------------
\* Reading an envelope brings back no message seen before, and a marker takes its own away.
LEMMA ReadIs ==
  ASSUME NEW S, NEW s \in ComStates(S), NEW env \in Envelopes
  PROVE  /\ Read(s, env) \in ComStates(S)
         /\ s.seen \subseteq Read(s, env).seen
         /\ Read(s, env).messages \cap s.seen \subseteq s.messages
         /\ env.kind = "delete" => Gone(Read(s, env), {env.about})
<1>1. /\ env.id \in MsgId /\ env.from \in User /\ env.kind \in {"chat", "delete", "invite", "group"}
      /\ env.group \in GroupState
  BY DEF Envelopes
<1>2. ASSUME NEW t \in ComStates(S), NEW id \in MsgId
      PROVE  /\ Record(t, id) \in ComStates(S) /\ t.seen \subseteq Record(t, id).seen
             /\ Record(t, id).messages \cap t.seen \subseteq t.messages
  BY DEF ComStates, Record
<1>3. ASSUME NEW t \in ComStates(S), NEW id \in MsgId
      PROVE  /\ RemoveMsg(t, id) \in ComStates(S) /\ t.seen \subseteq RemoveMsg(t, id).seen
             /\ RemoveMsg(t, id).messages \subseteq t.messages /\ Gone(RemoveMsg(t, id), {id})
  BY DEF ComStates, RemoveMsg, Gone
<1> DEFINE known == [s EXCEPT !.contacts = @ \cup {env.from}]
<1>4. known \in ComStates(S) /\ known.seen = s.seen /\ known.messages = s.messages /\ known.groups = s.groups
  BY <1>1 DEF ComStates
<1>5. CASE env.kind = "group"
  <2>1. Whose(env) \in Group /\ Read(s, env) = FileGroupMsg(s, env)
    BY <1>5 DEF Envelopes, Read
  <2>2. CASE ~s.groups[Whose(env)].joined
    BY <1>5, <2>1, <2>2 DEF FileGroupMsg
  <2>3. CASE s.groups[Whose(env)].joined
    <3> DEFINE t == [s EXCEPT !.groups[Whose(env)].signers = @ \cup {env.from}]
    <3>1. t \in ComStates(S) /\ t.seen = s.seen /\ t.messages = s.messages
      <4>1. s.groups \in [Group -> GroupState] /\ s.groups[Whose(env)] \in GroupState
        BY <2>1 DEF ComStates
      <4>2. [s.groups[Whose(env)] EXCEPT !.signers = @ \cup {env.from}] \in GroupState
        BY <1>1, <4>1 DEF GroupState
      <4>3. t = [s EXCEPT !.groups = [s.groups EXCEPT ![Whose(env)] = [s.groups[Whose(env)] EXCEPT !.signers = @ \cup {env.from}]]]
        BY <2>1, <4>1 DEF ComStates, GroupState
      <4>4. [s.groups EXCEPT ![Whose(env)] = [s.groups[Whose(env)] EXCEPT !.signers = @ \cup {env.from}]] \in [Group -> GroupState]
        BY <4>1, <4>2
      <4>5. QED BY <4>3, <4>4 DEF ComStates
    <3>2. FileGroupMsg(s, env) = Record(t, env.id)
      BY <2>3 DEF FileGroupMsg
    <3> HIDE DEF t
    <3>3. QED BY <1>1, <1>2, <1>5, <2>1, <3>1, <3>2
  <2>4. QED BY <2>2, <2>3
<1>6. ASSUME env.kind # "group" PROVE Read(s, env) = HandleCom(s, env)
  BY <1>6 DEF Read
<1>7. CASE env.kind = "chat"
  <2>1. Read(s, env) = Record(known, env.id)
    BY <1>6, <1>7 DEF HandleCom
  <2> HIDE DEF known
  <2>2. QED BY <1>1, <1>2, <1>4, <1>7, <2>1
<1>8. CASE env.kind = "delete"
  <2>1. Read(s, env) = RemoveMsg(known, env.about) /\ env.about \in MsgId
    BY <1>6, <1>8 DEF HandleCom, Envelopes
  <2> HIDE DEF known
  <2>2. QED BY <1>3, <1>4, <2>1
<1>9. CASE env.kind = "invite"
  <2>1. Read(s, env) = [known EXCEPT !.groups[env.about] = env.group] /\ env.about \in Group
    BY <1>6, <1>9 DEF HandleCom, Envelopes
  <2> HIDE DEF known
  <2>2. [known.groups EXCEPT ![env.about] = env.group] \in [Group -> GroupState]
    BY <1>1, <1>4, <2>1 DEF ComStates
  <2>3. Read(s, env) = [known EXCEPT !.groups = [known.groups EXCEPT ![env.about] = env.group]]
    BY <1>4, <2>1 DEF ComStates
  <2>4. QED BY <1>4, <1>9, <2>2, <2>3 DEF ComStates
<1>10. QED BY <1>1, <1>5, <1>7, <1>8, <1>9

\* What is gone stays gone.
LEMMA ReadKeepsGone ==
  ASSUME NEW S, NEW s \in ComStates(S), NEW env \in Envelopes, NEW U, Gone(s, U)
  PROVE  /\ Gone(Read(s, env), U)
         /\ env.kind = "delete" => Gone(Read(s, env), U \cup {env.about})
<1>1. /\ s.seen \subseteq Read(s, env).seen
      /\ Read(s, env).messages \cap s.seen \subseteq s.messages
      /\ env.kind = "delete" => Gone(Read(s, env), {env.about})
  BY ReadIs
<1>2. Gone(Read(s, env), U)
  BY <1>1 DEF Gone
<1>3. QED BY <1>1, <1>2 DEF Gone

\* The markers for n among the first i of envs.
MarkedBy(n, envs, i) == {envs[j].about : j \in {j \in 1..i : envs[j].kind = "delete" /\ AddressedToUs(n, envs[j])}}

\* The step of the loop, and a run of its first i steps.
ReadStep(n, t, env) == IF Opens(n, t, env) THEN Read(t, env) ELSE t
ReadRuns(n, s, envs, i, g) ==
    g = [k \in 0..i |-> IF k = 0 THEN s ELSE ReadStep(n, g[k - 1], envs[k])]

\* The reader's loop runs to its end.
LEMMA ReadAllRuns ==
  ASSUME NEW n, NEW s, NEW T, NEW envs \in Seq(T)
  PROVE  \E g : ReadRuns(n, s, envs, Len(envs), g) /\ ReadAll(n, s, envs) = g[Len(envs)]
<1> DEFINE R == {i \in Nat : \E g : ReadRuns(n, s, envs, i, g)}
<1>1. 0 \in R
  <2> DEFINE g0 == [k \in 0..0 |-> s]
  <2>1. g0 = [k \in 0..0 |-> IF k = 0 THEN s ELSE ReadStep(n, g0[k - 1], envs[k])]
    OBVIOUS
  <2>2. ReadRuns(n, s, envs, 0, g0)
    BY <2>1 DEF ReadRuns
  <2>3. QED BY <2>2
<1>2. ASSUME NEW i \in R PROVE i + 1 \in R
  <2>1. PICK g : ReadRuns(n, s, envs, i, g)
    OBVIOUS
  <2>2. i \in Nat /\ DOMAIN g = 0..i
        /\ \A k \in 0..i : g[k] = IF k = 0 THEN s ELSE ReadStep(n, g[k - 1], envs[k])
    BY <2>1 DEF ReadRuns
  <2> DEFINE h == [k \in 0..i + 1 |-> IF k = i + 1 THEN ReadStep(n, g[i], envs[i + 1]) ELSE g[k]]
  <2>3. \A k \in 0..i + 1 : h[k] = IF k = 0 THEN s ELSE ReadStep(n, h[k - 1], envs[k])
    <3>1. ASSUME NEW k \in 0..i, k # 0 PROVE h[k] = ReadStep(n, h[k - 1], envs[k])
      <4>1. k - 1 \in 0..i /\ k \in 0..i + 1 /\ k # i + 1 /\ k - 1 # i + 1 /\ k - 1 \in 0..i + 1
        BY <2>2, <3>1
      <4>2. h[k] = g[k] /\ h[k - 1] = g[k - 1]
        BY <4>1
      <4>3. QED BY <2>2, <3>1, <4>2
    <3>2. h[0] = s
      BY <2>2
    <3>3. h[i + 1] = ReadStep(n, h[i + 1 - 1], envs[i + 1])
      <4>1. i + 1 - 1 = i /\ i \in 0..i + 1 /\ i # i + 1 /\ i + 1 \in 0..i + 1
        BY <2>2
      <4>2. h[i] = g[i] /\ h[i + 1] = ReadStep(n, g[i], envs[i + 1])
        BY <4>1
      <4>3. QED BY <4>1, <4>2
    <3>4. ASSUME NEW k \in 0..i + 1 PROVE k = i + 1 \/ k \in 0..i
      BY <2>2
    <3> HIDE DEF h
    <3>5. i + 1 # 0
      BY <2>2
    <3>6. QED BY <3>1, <3>2, <3>3, <3>4, <3>5
  <2>4. h = [k \in DOMAIN h |-> h[k]] /\ DOMAIN h = 0..i + 1
    OBVIOUS
  <2> HIDE DEF h
  <2>5. h = [k \in 0..i + 1 |-> IF k = 0 THEN s ELSE ReadStep(n, h[k - 1], envs[k])]
    BY <2>3, <2>4
  <2>6. ReadRuns(n, s, envs, i + 1, h)
    BY <2>5 DEF ReadRuns
  <2>7. QED BY <2>2, <2>6
<1>3. R = Nat
  <2>1. R \in SUBSET Nat
    OBVIOUS
  <2> HIDE DEF R
  <2>2. QED BY <1>1, <1>2, <2>1, SetInduction
<1>4. \E g : ReadRuns(n, s, envs, Len(envs), g)
  <2>1. Len(envs) \in Nat
    OBVIOUS
  <2>2. Len(envs) \in R
    BY ONLY <1>3, <2>1
  <2>3. QED BY <2>2
<1> DEFINE N == Len(envs)
           F == CHOOSE f : f = [i \in 0..N |-> IF i = 0 THEN s
                                 ELSE IF Opens(n, f[i - 1], envs[i]) THEN Read(f[i - 1], envs[i]) ELSE f[i - 1]]
<1>5. ReadAll(n, s, envs) = F[N]
  BY DEF ReadAll
<1>6. ReadRuns(n, s, envs, N, F)
  BY <1>4 DEF ReadRuns, ReadStep
<1>7. QED BY <1>5, <1>6

\* A batch is read to its end: what was gone, and what a marker in it names, is gone then.
LEMMA ReadAllIs ==
  ASSUME NEW n, NEW S, NEW s \in ComStates(S), NEW envs \in Seq(Envelopes), NEW U, Gone(s, U), NEW t
  PROVE  /\ ReadAll(n, s, envs) \in ComStates(S)
         /\ Gone(ReadAll(n, s, envs), U \cup Deletions(Readable(n, t, envs)))
<1>1. PICK g : ReadRuns(n, s, envs, Len(envs), g) /\ ReadAll(n, s, envs) = g[Len(envs)]
  BY ReadAllRuns
<1> DEFINE N == Len(envs)
           Good(i) == g[i] \in ComStates(S) /\ Gone(g[i], U \cup MarkedBy(n, envs, i))
           R == {i \in Nat : i <= N => Good(i)}
<1>2. N \in Nat /\ \A k \in 0..N : g[k] = IF k = 0 THEN s ELSE ReadStep(n, g[k - 1], envs[k])
  <2>1. g = [k \in 0..N |-> IF k = 0 THEN s ELSE ReadStep(n, g[k - 1], envs[k])]
    BY <1>1 DEF ReadRuns
  <2>2. N \in Nat
    OBVIOUS
  <2> HIDE DEF N
  <2>3. QED BY <2>1, <2>2, Zenon
<1>3. 0 \in R
  <2>1. g[0] = s /\ MarkedBy(n, envs, 0) = {}
    BY <1>2 DEF MarkedBy
  <2>2. QED BY <2>1
<1>4. ASSUME NEW i \in R PROVE i + 1 \in R
  <2>1. SUFFICES ASSUME i + 1 <= N PROVE Good(i + 1)
    OBVIOUS
  <2>2. i \in Nat /\ i + 1 \in 0..N /\ i + 1 # 0 /\ i + 1 - 1 = i /\ i + 1 \in 1..N
    BY <1>2, <2>1
  <2>3. Good(i)
    BY <1>2, <2>1, <2>2
  <2> DEFINE env == envs[i + 1]
  <2>4. env \in Envelopes
    BY <2>2
  <2>5. g[i + 1] = ReadStep(n, g[i], env)
    BY <1>2, <2>2
  <2>6. MarkedBy(n, envs, i + 1) =
          MarkedBy(n, envs, i) \cup (IF env.kind = "delete" /\ AddressedToUs(n, env) THEN {env.about} ELSE {})
    <3>1. \A j : j \in 1..i + 1 <=> (j \in 1..i \/ j = i + 1)
      BY <2>2
    <3>2. QED BY <3>1 DEF MarkedBy
  <2> HIDE DEF env
  <2>7. CASE Opens(n, g[i], env)
    <3>1. g[i + 1] = Read(g[i], env)
      BY <2>5, <2>7 DEF ReadStep
    <3>2. Read(g[i], env) \in ComStates(S)
      BY <2>3, <2>4, ReadIs
    <3>3. /\ Gone(Read(g[i], env), U \cup MarkedBy(n, envs, i))
          /\ env.kind = "delete" => Gone(Read(g[i], env), (U \cup MarkedBy(n, envs, i)) \cup {env.about})
      BY <2>3, <2>4, ReadKeepsGone
    <3>4. QED BY <2>6, <3>1, <3>2, <3>3 DEF Gone
  <2>8. CASE ~Opens(n, g[i], env)
    <3>1. g[i + 1] = g[i]
      BY <2>5, <2>8 DEF ReadStep
    <3>2. ~(env.kind = "delete" /\ AddressedToUs(n, env))
      BY <2>8 DEF Opens
    <3>3. QED BY <2>3, <2>6, <3>1, <3>2
  <2>9. QED BY <2>7, <2>8
<1>5. R = Nat
  <2>1. R \in SUBSET Nat
    OBVIOUS
  <2> HIDE DEF R
  <2>2. QED BY <1>3, <1>4, <2>1, SetInduction
<1>6. Good(N)
  <2>1. N \in R
    BY ONLY <1>2, <1>5
  <2>2. N <= N
    BY ONLY <1>2
  <2>3. QED BY <2>1, <2>2
<1>7. Deletions(Readable(n, t, envs)) \subseteq MarkedBy(n, envs, N)
  BY DEF Deletions, Readable, Opens, Range, MarkedBy
<1>8. QED BY <1>1, <1>6, <1>7 DEF Gone

-----------------------------------------------------------------------------
\* Sequences of what was sealed so far are sequences of what is sealed later.
LEMMA SeqGrows == ASSUME NEW S, NEW T, S \subseteq T, NEW s \in Seq(S) PROVE s \in Seq(T)
OBVIOUS

\* A state, and a message on a link, that hold what was sealed so far hold what is sealed later.
LEMMA TypesGrow ==
  ASSUME NEW S, NEW T, S \subseteq T
  PROVE  ComStates(S) \subseteq ComStates(T) /\ MailOf(S) \subseteq MailOf(T)
<1>1. ASSUME NEW s \in ComStates(S) PROVE s \in ComStates(T)
  <2>1. [at : Nat, env : S] \subseteq [at : Nat, env : T] /\ s.box \in Seq([at : Nat, env : S])
    BY DEF ComStates
  <2>2. s.box \in Seq([at : Nat, env : T])
    BY <2>1, SeqGrows
  <2>3. QED BY <2>2 DEF ComStates
<1>2. ASSUME NEW m \in MailOf(S) PROVE m \in MailOf(T)
  <2>1. CASE m \in [type : {"store"}, env : S]
    BY <2>1 DEF MailOf
  <2>2. CASE m \in [type : {"mail"}, envs : Seq(S)]
    <3>1. m.envs \in Seq(T)
      BY <2>2, SeqGrows
    <3>2. QED BY <2>2, <3>1 DEF MailOf
  <2>3. QED BY <2>1, <2>2 DEF MailOf
<1>3. QED BY <1>1, <1>2

\* The wires as they are, and those on which a message is put or lost.
LEMMA WiresGrow ==
  ASSUME NEW S, NEW T, S \subseteq T, NEW w \in [User \X User -> Seq(MailOf(S))]
  PROVE  w \in [User \X User -> Seq(MailOf(T))]
<1>1. \A l \in User \X User : w[l] \in Seq(MailOf(T))
  BY TypesGrow, SeqGrows
<1>2. QED BY <1>1

\* A message put on some of the links.
LEMMA SentToIs ==
  ASSUME NEW S, NEW w \in [User \X User -> Seq(MailOf(S))], NEW n, NEW dests, NEW msg \in MailOf(S)
  PROVE  SentTo(w, n, dests, msg) \in [User \X User -> Seq(MailOf(S))]
<1>1. \A l \in User \X User : w[l] \in Seq(MailOf(S)) /\ Append(w[l], msg) \in Seq(MailOf(S))
  OBVIOUS
<1>2. QED BY <1>1 DEF SentTo

\* Links that lose what is on them.
LEMMA CutIs ==
  ASSUME NEW S, NEW w \in [User \X User -> Seq(MailOf(S))], NEW edges
  PROVE  Cut(w, edges) \in [User \X User -> Seq(MailOf(S))]
<1>1. <<>> \in Seq(MailOf(S))
  OBVIOUS
<1>2. QED BY <1>1 DEF Cut

\* A message taken off a link was on it.
LEMMA TakenIs ==
  ASSUME NEW S, NEW w \in [User \X User -> Seq(MailOf(S))], NEW l \in User \X User, w[l] # <<>>
  PROVE  Head(w[l]) \in MailOf(S) /\ [w EXCEPT ![l] = Tail(@)] \in [User \X User -> Seq(MailOf(S))]
<1>1. w[l] \in Seq(MailOf(S))
  OBVIOUS
<1>2. Head(w[l]) \in MailOf(S) /\ Tail(w[l]) \in Seq(MailOf(S))
  BY <1>1
<1>3. QED BY <1>2

\* What the invariant says, with the types of this module.
LEMMA TypesAre ==
  ASSUME MailInv
  PROVE  /\ com \in [User -> ComStates(Range(sent))] /\ linked \subseteq Edge
         /\ comNow \in 0..ComEnd /\ comFaults \in 0..ComFaults
         /\ opened \in [User -> SUBSET MsgId] /\ unsent \in [User -> SUBSET MsgId]
         /\ sent \in Seq(Envelopes) /\ Range(sent) \subseteq Envelopes
         /\ mailWire \in [User \X User -> Seq(MailOf(Range(sent)))] /\ injected \subseteq User \X Range(sent)
         /\ \A n \in User : com[n] \in ComStates(Range(sent)) /\ Gone(com[n], unsent[n])
         /\ comNow \in Nat
<1>1. /\ com \in [User -> ComStates(Range(sent))] /\ linked \subseteq Edge
      /\ comNow \in 0..ComEnd /\ comFaults \in 0..ComFaults
      /\ opened \in [User -> SUBSET MsgId] /\ unsent \in [User -> SUBSET MsgId]
  BY DEF MailInv, ComTypeOK, ComStates
<1>2. sent \in Seq(Envelopes) /\ mailWire \in [User \X User -> Seq(MailOf(Range(sent)))]
      /\ injected \subseteq User \X Range(sent)
  BY DEF MailInv, WiresTyped
<1>3. Range(sent) \subseteq Envelopes
  BY <1>2 DEF Range
<1>4. \A n \in User : com[n] \in ComStates(Range(sent)) /\ Gone(com[n], unsent[n])
  BY <1>1 DEF MailInv
<1>5. QED BY <1>1, <1>2, <1>3, <1>4

\* The invariant after a step, from the types of the state after it; the state, the ids opened
\* and those told to delete of one node at most have changed.
LEMMA InvFrom ==
  ASSUME MailInv, NEW n \in User, NEW s \in ComStates(Range(sent')),
         com' = [com EXCEPT ![n] = s], Range(sent) \subseteq Range(sent'), sent' \in Seq(Envelopes),
         linked' \subseteq Edge, comNow' \in 0..ComEnd, comFaults' \in 0..ComFaults,
         opened' \in [User -> SUBSET MsgId], unsent' \in [User -> SUBSET MsgId],
         \A m \in User \ {n} : unsent'[m] = unsent[m],
         mailWire' \in [User \X User -> Seq(MailOf(Range(sent')))], injected' \subseteq User \X Range(sent'),
         Gone(s, unsent'[n])
  PROVE  MailInv'
<1>1. com \in [User -> ComStates(Range(sent))] /\ \A m \in User : Gone(com[m], unsent[m])
  BY TypesAre
<1>2. com \in [User -> ComStates(Range(sent'))]
  BY <1>1, TypesGrow
<1>3. com' \in [User -> ComStates(Range(sent'))] /\ \A m \in User : com'[m] = IF m = n THEN s ELSE com[m]
  BY <1>2
<1>4. ComTypeOK'
  BY <1>3 DEF ComTypeOK, ComStates
<1>5. \A m \in User : Gone(com'[m], unsent'[m])
  BY <1>1, <1>3
<1>6. QED BY <1>4, <1>5 DEF MailInv, WiresTyped, Gone

\* The invariant holds at the start.
LEMMA MailInitially == ComInit => MailInv
<1> SUFFICES ASSUME ComInit PROVE MailInv
  OBVIOUS
<1>1. Fresh \in ComStates({}) /\ Range(sent) = {} /\ sent = <<>>
  <2>1. <<>> \in Seq([at : Nat, env : {}]) /\ NoGroup \in GroupState
    BY DEF NoGroup, GroupState
  <2>2. QED BY <2>1 DEF ComInit, Fresh, ComStates, Range
<1>2. ComTypeOK
  BY <1>1, MessagingAssumption DEF ComInit, ComTypeOK, ComStates
<1>3. WiresTyped
  <2>1. <<>> \in Seq(Envelopes) /\ <<>> \in Seq(MailOf({}))
    OBVIOUS
  <2>2. {<<p, q>> : p, q \in User} = User \X User
    OBVIOUS
  <2>3. QED BY <1>1, <2>1, <2>2 DEF ComInit, WiresTyped
<1>4. QED BY <1>2, <1>3 DEF ComInit, MailInv, Gone

-----------------------------------------------------------------------------
\* Epochs are numbers.
LEMMA EpochIs == ASSUME NEW t \in Nat, NEW e \in Nat \ {0} PROVE t \div e \in Nat
OBVIOUS

\* What a node seals is an envelope.
LEMMA SealIs ==
  ASSUME MailInv, Len(sent) < MaxMsgs, NEW n \in User, NEW to \in User \cup Group,
         NEW kind \in {"chat", "delete", "invite", "group"}, NEW about \in MsgId \cup Group \cup {0},
         NEW group \in GroupState, kind = "delete" => about \in MsgId, kind = "invite" => about \in Group,
         kind = "group" => to \in Group
  PROVE  Seal(n, to, kind, about, group) \in Envelopes /\ Seal(n, to, kind, about, group).id \in MsgId
<1>1. Epoch(comNow) \in Nat
  BY TypesAre, EpochIs, MessagingAssumption DEF Epoch
<1>2. Len(sent) + 1 \in MsgId
  <2>1. Len(sent) \in Nat /\ MaxMsgs \in Nat
    BY TypesAre, MessagingAssumption
  <2>2. QED BY <2>1 DEF MsgId
<1>3. QED BY <1>1, <1>2 DEF Seal, Envelopes, Blinded, Whose

\* One more envelope sealed.
LEMMA SentGrows ==
  ASSUME MailInv, NEW env \in Envelopes
  PROVE  /\ Append(sent, env) \in Seq(Envelopes)
         /\ Range(sent) \subseteq Range(Append(sent, env)) /\ env \in Range(Append(sent, env))
<1>1. sent \in Seq(Envelopes) /\ Len(sent) \in Nat
  BY TypesAre
<1>2. \A i \in 1..Len(sent) : Append(sent, env)[i] = sent[i]
  BY <1>1
<1>3. Append(sent, env)[Len(sent) + 1] = env /\ Len(Append(sent, env)) = Len(sent) + 1
  BY <1>1
<1>4. QED BY <1>1, <1>2, <1>3 DEF Range

\* Recording a message brings back none that is gone.
LEMMA RecordIs ==
  ASSUME NEW S, NEW s \in ComStates(S), NEW id \in MsgId, NEW U, Gone(s, U)
  PROVE  Record(s, id) \in ComStates(S) /\ Gone(Record(s, id), U)
BY DEF ComStates, Record, Gone

\* Sending, for whatever the node is told to delete meanwhile.
LEMMA SendKeeps ==
  ASSUME MailInv, NEW n \in User, NEW to \in User, NEW s \in ComStates(Range(sent)),
         NEW kind \in {"chat", "delete", "invite"}, NEW about \in MsgId \cup Group \cup {0},
         NEW group \in GroupState, kind = "delete" => about \in MsgId, kind = "invite" => about \in Group,
         SendAnonymous(n, s, to, kind, about, group),
         unsent' \in [User -> SUBSET MsgId], \A m \in User \ {n} : unsent'[m] = unsent[m],
         Gone(s, unsent'[n])
  PROVE  MailInv'
<1> DEFINE env == Seal(n, to, kind, about, group)
           t == IF kind = "chat" THEN Record(s, env.id) ELSE s
<1>1. /\ Len(sent) < MaxMsgs /\ sent' = Append(sent, env)
      /\ com' = [com EXCEPT ![n] = t]
      /\ mailWire' = SentTo(mailWire, n, Peers(n), [type |-> "store", env |-> env])
      /\ \E exits \in SUBSET Peers(n) : injected' = injected \cup {<<x, env>> : x \in exits}
      /\ UNCHANGED <<linked, comNow, comFaults, opened>>
  BY DEF SendAnonymous
<1>2. env \in Envelopes /\ env.id \in MsgId
  BY <1>1, SealIs
<1> HIDE DEF env
<1>3. sent' \in Seq(Envelopes) /\ Range(sent) \subseteq Range(sent') /\ env \in Range(sent')
  BY <1>1, <1>2, SentGrows
<1>4. t \in ComStates(Range(sent')) /\ Gone(t, unsent'[n])
  <2>1. s \in ComStates(Range(sent'))
    BY <1>3, TypesGrow
  <2>2. QED BY <1>2, <2>1, RecordIs
<1> HIDE DEF t
<1>5. mailWire' \in [User \X User -> Seq(MailOf(Range(sent')))]
  <2>1. mailWire \in [User \X User -> Seq(MailOf(Range(sent')))]
    BY <1>3, TypesAre, WiresGrow
  <2>2. [type |-> "store", env |-> env] \in MailOf(Range(sent'))
    BY <1>3 DEF MailOf
  <2>3. QED BY <1>1, <2>1, <2>2, SentToIs
<1>6. injected' \subseteq User \X Range(sent')
  <2>1. injected \subseteq User \X Range(sent') /\ Peers(n) \subseteq User
    BY <1>3, TypesAre DEF Peers
  <2>2. QED BY <1>1, <1>3, <2>1
<1>7. /\ linked' \subseteq Edge /\ comNow' \in 0..ComEnd /\ comFaults' \in 0..ComFaults
      /\ opened' \in [User -> SUBSET MsgId]
  BY <1>1, TypesAre
<1>8. QED BY <1>1, <1>3, <1>4, <1>5, <1>6, <1>7, InvFrom

\* A step of one node's own state only.
LEMMA OwnStepKeeps ==
  ASSUME MailInv, NEW n \in User, NEW s \in ComStates(Range(sent)), com' = [com EXCEPT ![n] = s],
         UNCHANGED <<linked, mailWire, injected, sent, comNow, comFaults, opened>>,
         unsent' \in [User -> SUBSET MsgId], \A m \in User \ {n} : unsent'[m] = unsent[m],
         Gone(s, unsent'[n])
  PROVE  MailInv'
<1>1. /\ linked' \subseteq Edge /\ comNow' \in 0..ComEnd /\ comFaults' \in 0..ComFaults
      /\ opened' \in [User -> SUBSET MsgId] /\ sent' \in Seq(Envelopes) /\ Range(sent') = Range(sent)
      /\ mailWire' \in [User \X User -> Seq(MailOf(Range(sent')))] /\ injected' \subseteq User \X Range(sent')
  BY TypesAre
<1>2. QED BY <1>1, InvFrom

\* The user's operations.
LEMMA AddContactKeeps == ASSUME MailInv, NEW n \in User, NEW c \in User, AddContact(n, c) PROVE MailInv'
<1>1. com[n] \in ComStates(Range(sent)) /\ Gone(com[n], unsent[n]) /\ com \in [User -> ComStates(Range(sent))]
      /\ unsent \in [User -> SUBSET MsgId]
  BY TypesAre
<1> DEFINE s == [com[n] EXCEPT !.contacts = @ \cup {c}]
<1>2. s \in ComStates(Range(sent)) /\ s.seen = com[n].seen /\ s.messages = com[n].messages
  BY <1>1 DEF ComStates
<1>3. com' = [com EXCEPT ![n] = s]
      /\ UNCHANGED <<linked, mailWire, injected, sent, comNow, comFaults, opened, unsent>>
  BY <1>1 DEF AddContact
<1> HIDE DEF s
<1>4. Gone(s, unsent'[n])
  BY <1>1, <1>2, <1>3 DEF Gone
<1>5. QED BY <1>1, <1>2, <1>3, <1>4, OwnStepKeeps

LEMMA SendToKeeps == ASSUME MailInv, NEW n \in User, NEW to \in User, SendTo(n, to) PROVE MailInv'
<1>1. SendAnonymous(n, com[n], to, "chat", 0, NoGroup) /\ unsent' = unsent
  BY DEF SendTo
<1>2. /\ com[n] \in ComStates(Range(sent)) /\ Gone(com[n], unsent[n]) /\ unsent \in [User -> SUBSET MsgId]
      /\ NoGroup \in GroupState
  BY TypesAre DEF NoGroup, GroupState
<1>3. QED BY <1>1, <1>2, SendKeeps

\* A message its own user deletes is marked as seen, so that a copy of it stays away.
LEMMA DeleteKeeps ==
  ASSUME MailInv, NEW n \in User, NEW to \in User, NEW id \in MsgId, Delete(n, to, id)
  PROVE  MailInv'
<1>1. /\ com[n] \in ComStates(Range(sent)) /\ Gone(com[n], unsent[n]) /\ unsent \in [User -> SUBSET MsgId]
      /\ NoGroup \in GroupState /\ com \in [User -> ComStates(Range(sent))]
  BY TypesAre DEF NoGroup, GroupState
<1> DEFINE s == RemoveMsg(com[n], id)
<1>2. /\ s \in ComStates(Range(sent)) /\ Gone(s, unsent[n] \cup {id})
  BY <1>1 DEF ComStates, RemoveMsg, Gone
<1>3. unsent' = [unsent EXCEPT ![n] = @ \cup {id}]
  BY DEF Delete
<1>4. /\ unsent' \in [User -> SUBSET MsgId] /\ \A m \in User \ {n} : unsent'[m] = unsent[m]
      /\ unsent'[n] = unsent[n] \cup {id}
  BY <1>1, <1>3
<1>5. \/ SendAnonymous(n, s, to, "delete", id, NoGroup)
      \/ /\ com' = [com EXCEPT ![n] = s]
         /\ UNCHANGED <<linked, mailWire, injected, sent, comNow, comFaults, opened>>
  BY <1>1 DEF Delete
<1> HIDE DEF s
<1>6. Gone(s, unsent'[n])
  BY <1>2, <1>4
<1>7. CASE SendAnonymous(n, s, to, "delete", id, NoGroup)
  BY <1>1, <1>2, <1>4, <1>6, <1>7, SendKeeps
<1>8. CASE /\ com' = [com EXCEPT ![n] = s]
           /\ UNCHANGED <<linked, mailWire, injected, sent, comNow, comFaults, opened>>
  BY <1>2, <1>4, <1>6, <1>8, OwnStepKeeps
<1>9. QED BY <1>5, <1>7, <1>8

LEMMA CreateGroupKeeps == ASSUME MailInv, NEW n \in User, NEW g \in Group, CreateGroup(n, g) PROVE MailInv'
<1>1. com[n] \in ComStates(Range(sent)) /\ Gone(com[n], unsent[n]) /\ com \in [User -> ComStates(Range(sent))]
      /\ unsent \in [User -> SUBSET MsgId]
  BY TypesAre
<1> DEFINE gs == [com[n].groups EXCEPT ![g] = [joined |-> TRUE, members |-> {n}, signers |-> {n}]]
           s == [com[n] EXCEPT !.groups = gs]
<1>2. gs \in [Group -> GroupState]
  <2>1. com[n].groups \in [Group -> GroupState] /\ [joined |-> TRUE, members |-> {n}, signers |-> {n}] \in GroupState
    BY <1>1 DEF ComStates, GroupState
  <2>2. QED BY <2>1
<1>3. com' = [com EXCEPT ![n] = s]
      /\ UNCHANGED <<linked, mailWire, injected, sent, comNow, comFaults, opened, unsent>>
  BY <1>1 DEF CreateGroup
<1> HIDE DEF gs
<1>4. s \in ComStates(Range(sent)) /\ s.seen = com[n].seen /\ s.messages = com[n].messages
  BY <1>1, <1>2 DEF ComStates
<1> HIDE DEF s
<1>5. Gone(s, unsent'[n])
  BY <1>1, <1>3, <1>4 DEF Gone
<1>6. QED BY <1>1, <1>3, <1>4, <1>5, OwnStepKeeps

LEMMA InviteKeeps ==
  ASSUME MailInv, NEW n \in User, NEW g \in Group, NEW to \in User, Invite(n, g, to)
  PROVE  MailInv'
<1>1. com[n] \in ComStates(Range(sent)) /\ Gone(com[n], unsent[n]) /\ unsent \in [User -> SUBSET MsgId]
  BY TypesAre
<1> DEFINE group == [com[n].groups[g] EXCEPT !.members = @ \cup {to}]
           s == [com[n] EXCEPT !.groups[g] = group]
<1>2. group \in GroupState /\ com[n].groups \in [Group -> GroupState]
  <2>1. com[n].groups \in [Group -> GroupState] /\ com[n].groups[g] \in GroupState
    BY <1>1 DEF ComStates
  <2>2. QED BY <2>1 DEF GroupState
<1>3. SendAnonymous(n, s, to, "invite", g, group) /\ unsent' = unsent
  BY DEF Invite
<1> HIDE DEF group
<1>4. s = [com[n] EXCEPT !.groups = [com[n].groups EXCEPT ![g] = group]]
  BY <1>1 DEF ComStates
<1>5. s \in ComStates(Range(sent)) /\ s.seen = com[n].seen /\ s.messages = com[n].messages
  <2>1. [com[n].groups EXCEPT ![g] = group] \in [Group -> GroupState]
    BY <1>2
  <2>2. QED BY <1>1, <1>4, <2>1 DEF ComStates
<1> HIDE DEF s
<1>6. Gone(s, unsent'[n])
  BY <1>1, <1>3, <1>5 DEF Gone
<1>7. QED BY <1>1, <1>2, <1>3, <1>5, <1>6, SendKeeps

\* A message to a group.
LEMMA SendGroupKeeps == ASSUME MailInv, NEW n \in User, NEW g \in Group, SendGroup(n, g) PROVE MailInv'
<1>1. /\ com[n] \in ComStates(Range(sent)) /\ Gone(com[n], unsent[n]) /\ unsent \in [User -> SUBSET MsgId]
      /\ com \in [User -> ComStates(Range(sent))] /\ NoGroup \in GroupState
  BY TypesAre DEF NoGroup, GroupState
<1> DEFINE env == SealGroup(n, g)
           s == Record(com[n], env.id)
<1>2. /\ Len(sent) < MaxMsgs /\ sent' = Append(sent, env) /\ com' = [com EXCEPT ![n] = s]
      /\ mailWire' = SentTo(mailWire, n, Peers(n), [type |-> "store", env |-> env])
      /\ UNCHANGED <<linked, injected, comNow, comFaults, opened, unsent>>
  BY <1>1 DEF SendGroup
<1>3. env \in Envelopes /\ env.id \in MsgId
  BY <1>1, <1>2, SealIs DEF SealGroup
<1> HIDE DEF env
<1>4. sent' \in Seq(Envelopes) /\ Range(sent) \subseteq Range(sent') /\ env \in Range(sent')
  BY <1>2, <1>3, SentGrows
<1>5. s \in ComStates(Range(sent')) /\ Gone(s, unsent'[n])
  <2>1. com[n] \in ComStates(Range(sent')) /\ unsent'[n] = unsent[n]
    BY <1>1, <1>2, <1>4, TypesGrow
  <2>2. QED BY <1>1, <1>3, <2>1, RecordIs
<1> HIDE DEF s
<1>6. mailWire' \in [User \X User -> Seq(MailOf(Range(sent')))]
  <2>1. mailWire \in [User \X User -> Seq(MailOf(Range(sent')))]
    BY <1>4, TypesAre, WiresGrow
  <2>2. [type |-> "store", env |-> env] \in MailOf(Range(sent'))
    BY <1>4 DEF MailOf
  <2>3. QED BY <1>2, <2>1, <2>2, SentToIs
<1>7. injected' \subseteq User \X Range(sent')
  BY <1>2, <1>4, TypesAre
<1>8. /\ linked' \subseteq Edge /\ comNow' \in 0..ComEnd /\ comFaults' \in 0..ComFaults
      /\ opened' \in [User -> SUBSET MsgId]
      /\ unsent' \in [User -> SUBSET MsgId] /\ \A m \in User \ {n} : unsent'[m] = unsent[m]
  BY <1>2, TypesAre
<1>9. QED BY <1>2, <1>4, <1>5, <1>6, <1>7, <1>8, InvFrom

\* Each command of the control port.
LEMMA CommandKeeps == ASSUME MailInv, NEW n \in Talker, ControlCommand(n) PROVE MailInv'
<1>1. n \in User /\ Address \subseteq User \X User
  BY MessagingAssumption
<1>2. CASE \E x \in Address : x[1] = n /\ AddContact(n, x[2])
  BY <1>1, <1>2, AddContactKeeps
<1>3. CASE \E to \in User : SendTo(n, to)
  BY <1>1, <1>3, SendToKeeps
<1>4. CASE \E to \in User, id \in MsgId : Delete(n, to, id)
  BY <1>1, <1>4, DeleteKeeps
<1>5. CASE \E g \in Group : CreateGroup(n, g)
  BY <1>1, <1>5, CreateGroupKeeps
<1>6. CASE \E g \in Group, to \in User : Invite(n, g, to)
  BY <1>1, <1>6, InviteKeeps
<1>7. CASE \E g \in Group : SendGroup(n, g)
  BY <1>1, <1>7, SendGroupKeeps
<1>8. QED BY <1>2, <1>3, <1>4, <1>5, <1>6, <1>7 DEF ControlCommand

-----------------------------------------------------------------------------
\* A mailbox holds what it is given, and loses its oldest when it is over its limit.
LEMMA StoreIs ==
  ASSUME NEW S, NEW s \in ComStates(S), NEW env \in S, env.id \in MsgId, comNow \in Nat
  PROVE  /\ Store(s, env) \in ComStates(S)
         /\ Store(s, env).seen = s.seen /\ Store(s, env).messages = s.messages
<1> DEFINE entry == [at |-> comNow, env |-> env]
           added == Append(s.box, entry)
           mine == {i \in 1..Len(added) : added[i].env.blinded = env.blinded}
           oldest == CHOOSE i \in mine : \A j \in mine : i <= j
           box == IF Cardinality(mine) > BoxCap THEN RemoveAt(added, oldest) ELSE added
<1>1. entry \in [at : Nat, env : S] /\ s.box \in Seq([at : Nat, env : S])
  BY DEF ComStates
<1>2. added \in Seq([at : Nat, env : S]) /\ Len(added) = Len(s.box) + 1 /\ Len(s.box) \in Nat
      /\ added[Len(s.box) + 1] = entry
  BY <1>1
<1>3. Len(s.box) + 1 \in mine /\ mine \in SUBSET Nat
  <2>1. Len(s.box) + 1 \in 1..Len(added) /\ entry.env = env
    BY <1>2
  <2>2. QED BY <1>2, <2>1
<1> HIDE DEF mine
<1>4. oldest \in mine
  <2>1. mine # {}
    BY <1>3
  <2>2. \E i \in mine : \A j \in mine : i <= j
    BY <1>3, <2>1, NatMin
  <2>3. QED BY <2>2
<1>5. oldest \in 1..Len(added)
  BY <1>4 DEF mine
<1> HIDE DEF added, oldest
<1>6. box \in Seq([at : Nat, env : S])
  <2>1. Len(added) \in Nat /\ oldest \in Int
    BY <1>2, <1>5
  <2>2. /\ \A i \in 1..oldest - 1 : added[i] \in [at : Nat, env : S]
        /\ \A i \in oldest + 1..Len(added) : added[i] \in [at : Nat, env : S]
    <3>1. \A i \in 1..Len(added) : added[i] \in [at : Nat, env : S]
      BY <1>2, ElementOfSeq
    <3>2. 1..oldest - 1 \subseteq 1..Len(added) /\ oldest + 1..Len(added) \subseteq 1..Len(added)
      BY <1>5, <2>1
    <3>3. QED BY <3>1, <3>2
  <2>3. /\ SubSeq(added, 1, oldest - 1) \in Seq([at : Nat, env : S])
        /\ SubSeq(added, oldest + 1, Len(added)) \in Seq([at : Nat, env : S])
    <3>1. 1 \in Int /\ oldest - 1 \in Int /\ oldest + 1 \in Int /\ Len(added) \in Int
      BY <2>1
    <3>2. QED BY <2>2, <3>1, SubSeqProperties
  <2>4. RemoveAt(added, oldest) \in Seq([at : Nat, env : S])
    BY <2>3 DEF RemoveAt
  <2>5. QED BY <1>2, <2>4
<1>7. Store(s, env) = [s EXCEPT !.known = @ \cup {env.id}, !.box = box]
  BY DEF Store, added, mine, oldest
<1> HIDE DEF box
<1>8. QED BY <1>6, <1>7 DEF ComStates

\* A node that has read envs, with whatever it keeps in its mailbox.
LEMMA ReaderKeeps ==
  ASSUME MailInv, NEW n \in User, NEW envs \in Seq(Range(sent)), NEW s \in ComStates(Range(sent)),
         s.seen = ReadAll(n, com[n], envs).seen, s.messages = ReadAll(n, com[n], envs).messages,
         BecomesAfter(n, s, envs), UNCHANGED <<linked, sent, comNow, comFaults>>,
         mailWire' \in [User \X User -> Seq(MailOf(Range(sent)))], injected' \subseteq User \X Range(sent)
  PROVE  MailInv'
<1> DEFINE read == Readable(n, com[n], envs)
<1>1. /\ com' = [com EXCEPT ![n] = s]
      /\ opened' = [opened EXCEPT ![n] = @ \cup {env.id : env \in read}]
      /\ unsent' = [unsent EXCEPT ![n] = @ \cup Deletions(read)]
  BY DEF BecomesAfter
<1>2. envs \in Seq(Envelopes) /\ com[n] \in ComStates(Range(sent)) /\ Gone(com[n], unsent[n])
      /\ opened \in [User -> SUBSET MsgId] /\ unsent \in [User -> SUBSET MsgId]
  BY TypesAre, SeqGrows
<1>3. \A env \in read : env \in Envelopes
  BY <1>2 DEF Readable, Range
<1>4. {env.id : env \in read} \subseteq MsgId /\ Deletions(read) \subseteq MsgId
  BY <1>3 DEF Deletions, Envelopes
<1>5. Gone(s, unsent[n] \cup Deletions(read))
  <2>1. Gone(ReadAll(n, com[n], envs), unsent[n] \cup Deletions(Readable(n, com[n], envs)))
    BY <1>2, ReadAllIs
  <2>2. QED BY <2>1 DEF Gone
<1> HIDE DEF read
<1>6. /\ opened' \in [User -> SUBSET MsgId] /\ unsent' \in [User -> SUBSET MsgId]
      /\ unsent'[n] = unsent[n] \cup Deletions(read) /\ \A m \in User \ {n} : unsent'[m] = unsent[m]
  BY <1>1, <1>2, <1>4
<1>7. Gone(s, unsent'[n])
  BY <1>5, <1>6
<1>8. /\ linked' \subseteq Edge /\ comNow' \in 0..ComEnd /\ comFaults' \in 0..ComFaults
      /\ sent' \in Seq(Envelopes) /\ Range(sent') = Range(sent)
  BY TypesAre
<1>9. QED BY <1>1, <1>6, <1>7, <1>8, InvFrom

\* An envelope that arrives is read, held or passed on.
LEMMA StoreAndForwardKeeps ==
  ASSUME MailInv, NEW n \in User, NEW env \in Range(sent), NEW dests,
         NEW w \in [User \X User -> Seq(MailOf(Range(sent)))], StoreAndForward(n, env, dests, w),
         injected' \subseteq User \X Range(sent), UNCHANGED <<linked, sent, comNow, comFaults>>
  PROVE  MailInv'
<1> DEFINE read == ReadAll(n, com[n], <<env>>)
           mine == env.kind # "group" /\ AddressedToUs(n, env)
           fresh == ~mine /\ env.id \notin read.known
           s == IF fresh THEN Store(read, env) ELSE read
<1>1. BecomesAfter(n, s, <<env>>)
      /\ mailWire' = IF fresh THEN SentTo(w, n, dests, [type |-> "store", env |-> env]) ELSE w
  BY DEF StoreAndForward
<1>2. /\ env \in Envelopes /\ env.id \in MsgId /\ comNow \in Nat
      /\ com[n] \in ComStates(Range(sent)) /\ Gone(com[n], unsent[n])
  BY TypesAre DEF Envelopes
<1>3. <<env>> \in Seq(Range(sent)) /\ <<env>> \in Seq(Envelopes)
  BY <1>2
<1>4. read \in ComStates(Range(sent))
  BY <1>2, <1>3, ReadAllIs
<1>5. s \in ComStates(Range(sent)) /\ s.seen = read.seen /\ s.messages = read.messages
  <2> HIDE DEF read, fresh
  <2>1. QED BY <1>2, <1>4, StoreIs
<1>6. mailWire' \in [User \X User -> Seq(MailOf(Range(sent)))]
  <2>1. [type |-> "store", env |-> env] \in MailOf(Range(sent))
    BY DEF MailOf
  <2>2. SentTo(w, n, dests, [type |-> "store", env |-> env]) \in [User \X User -> Seq(MailOf(Range(sent)))]
    BY <2>1, SentToIs
  <2> HIDE DEF fresh
  <2>3. QED BY <1>1, <2>2
<1> HIDE DEF s
<1>7. QED BY <1>1, <1>3, <1>5, <1>6, ReaderKeeps

\* What is at the head of a link.
LEMMA DeliverKeeps == ASSUME MailInv, NEW p \in User, NEW n \in User, Deliver(p, n) PROVE MailInv'
<1> DEFINE l == <<p, n>>
           msg == Head(mailWire[l])
           rest == [mailWire EXCEPT ![l] = Tail(@)]
<1>1. /\ mailWire[l] # <<>> /\ UNCHANGED <<linked, injected, sent, comNow, comFaults>>
      /\ \/ msg.type = "store" /\ StoreAndForward(n, msg.env, Peers(n) \ {p}, rest)
         \/ /\ msg.type = "mail" /\ BecomesAfter(n, ReadAll(n, com[n], msg.envs), msg.envs)
            /\ mailWire' = rest
  BY DEF Deliver
<1>2. /\ mailWire \in [User \X User -> Seq(MailOf(Range(sent)))] /\ l \in User \X User
      /\ injected' \subseteq User \X Range(sent)
      /\ com[n] \in ComStates(Range(sent)) /\ Gone(com[n], unsent[n])
  BY <1>1, TypesAre
<1>3. msg \in MailOf(Range(sent)) /\ rest \in [User \X User -> Seq(MailOf(Range(sent)))]
  BY <1>1, <1>2, TakenIs
<1> HIDE DEF msg, rest
<1>4. CASE msg.type = "store" /\ StoreAndForward(n, msg.env, Peers(n) \ {p}, rest)
  <2>1. msg.env \in Range(sent)
    BY <1>3, <1>4 DEF MailOf
  <2>2. QED BY <1>1, <1>2, <1>3, <1>4, <2>1, StoreAndForwardKeeps
<1>5. CASE /\ msg.type = "mail" /\ BecomesAfter(n, ReadAll(n, com[n], msg.envs), msg.envs)
           /\ mailWire' = rest
  <2>1. msg.envs \in Seq(Range(sent))
    BY <1>3, <1>5 DEF MailOf
  <2>2. msg.envs \in Seq(Envelopes)
    BY <2>1, TypesAre, SeqGrows
  <2>3. ReadAll(n, com[n], msg.envs) \in ComStates(Range(sent))
    BY <1>2, <2>2, ReadAllIs
  <2>4. QED BY <1>1, <1>2, <1>3, <1>5, <2>1, <2>3, ReaderKeeps
<1>6. QED BY <1>1, <1>4, <1>5

\* What is injected arrives at the end of the circuit, or is lost with it.
LEMMA InjectKeeps ==
  ASSUME MailInv, NEW x \in injected, InjectArrives(x[1], x[2]) \/ InjectLost(x[1], x[2])
  PROVE  MailInv'
<1>1. /\ x[1] \in User /\ x[2] \in Range(sent) /\ injected \subseteq User \X Range(sent)
      /\ mailWire \in [User \X User -> Seq(MailOf(Range(sent)))]
  BY TypesAre
<1>2. injected' \subseteq User \X Range(sent)
  BY <1>1 DEF InjectArrives, InjectLost
<1>3. CASE InjectArrives(x[1], x[2])
  <2>1. StoreAndForward(x[1], x[2], Peers(x[1]), mailWire) /\ UNCHANGED <<linked, sent, comNow, comFaults>>
    BY <1>3 DEF InjectArrives
  <2>2. QED BY <1>1, <1>2, <2>1, StoreAndForwardKeeps
<1>4. CASE InjectLost(x[1], x[2])
  <2>1. UNCHANGED <<com, linked, mailWire, sent, comNow, comFaults, opened, unsent>>
    BY <1>4 DEF InjectLost
  <2>2. ComTypeOK' /\ WiresTyped' /\ \A n \in User : Gone(com[n], unsent[n])'
    BY <1>2, <2>1 DEF MailInv, ComTypeOK, WiresTyped, Gone
  <2>3. QED BY <2>2 DEF MailInv
<1>5. QED BY <1>3, <1>4

\* A peer answers with what its mailbox holds.
LEMMA PullKeeps == ASSUME MailInv, NEW n \in User, NEW p \in User, Pull(n, p) PROVE MailInv'
<1> DEFINE addrs == PullAddrs({n} \cup {g \in Group : com[n].groups[g].joined})
           box == com[p].box
           I == {i \in 1..Len(box) : box[i].env.blinded \in addrs}
           found == ComMail(p, addrs)
           T == [at : Nat, env : Range(sent)]
<1>1. /\ mailWire' = SentTo(mailWire, p, {n}, [type |-> "mail", envs |-> found])
      /\ UNCHANGED <<com, linked, injected, sent, comNow, comFaults, opened, unsent>>
  BY DEF Pull
<1>2. box \in Seq(T) /\ mailWire \in [User \X User -> Seq(MailOf(Range(sent)))]
  BY TypesAre DEF ComStates
<1>3. Peek(com[p], addrs) = SeqAt(box, I)
  BY DEF Peek
<1>4. I \in SUBSET (1..Len(box))
  OBVIOUS
<1> HIDE DEF I, box
<1>5. SeqAt(box, I) \in Seq(T)
  BY <1>2, <1>4, SeqAtIsTaken DEF Taken
<1>6. found \in Seq(Range(sent))
  <2> DEFINE held == SeqAt(box, I)
  <2>1. found = [i \in 1..Len(held) |-> held[i].env]
    BY <1>3 DEF ComMail
  <2>2. held \in Seq(T)
    BY <1>5
  <2> HIDE DEF held
  <2>3. Len(held) \in Nat /\ \A i \in 1..Len(held) : held[i] \in T
    <3>1. Len(held) \in Nat
      BY <2>2
    <3> HIDE DEF T
    <3>2. \A i \in 1..Len(held) : held[i] \in T
      BY <2>2, ElementOfSeq
    <3>3. QED BY <3>1, <3>2
  <2>4. \A i \in 1..Len(held) : held[i].env \in Range(sent)
    BY <2>3
  <2>5. QED BY <2>1, <2>3, <2>4
<1> HIDE DEF found
<1>7. mailWire' \in [User \X User -> Seq(MailOf(Range(sent)))]
  <2>1. [type |-> "mail", envs |-> found] \in MailOf(Range(sent))
    BY <1>6 DEF MailOf
  <2>2. QED BY <1>1, <1>2, <2>1, SentToIs
<1>8. ComTypeOK' /\ WiresTyped' /\ \A m \in User : Gone(com[m], unsent[m])'
  BY <1>1, <1>7 DEF MailInv, ComTypeOK, WiresTyped, Gone
<1>9. QED BY <1>8 DEF MailInv

\* Mail held for too long is dropped.
LEMMA SweepKeeps == ASSUME MailInv, NEW n \in User, Sweep(n) PROVE MailInv'
<1> DEFINE T == [at : Nat, env : Range(sent)]
           box == com[n].box
           I == {i \in 1..Len(box) : comNow - box[i].at < MailTTL}
           s == Evicted(com[n])
<1>1. com[n] \in ComStates(Range(sent)) /\ Gone(com[n], unsent[n]) /\ com \in [User -> ComStates(Range(sent))]
      /\ unsent \in [User -> SUBSET MsgId]
  BY TypesAre
<1>2. com' = [com EXCEPT ![n] = s]
      /\ UNCHANGED <<linked, mailWire, injected, sent, comNow, comFaults, opened, unsent>>
  BY <1>1 DEF Sweep
<1>3. s = [com[n] EXCEPT !.box = SeqAt(box, I)]
  BY <1>1 DEF Evicted, ComStates
<1>4. box \in Seq(T) /\ I \in SUBSET (1..Len(box))
  BY <1>1 DEF ComStates
<1> HIDE DEF I, box
<1>5. SeqAt(box, I) \in Seq(T)
  BY <1>4, SeqAtIsTaken DEF Taken
<1>6. s \in ComStates(Range(sent)) /\ s.seen = com[n].seen /\ s.messages = com[n].messages
  BY <1>1, <1>3, <1>5 DEF ComStates
<1> HIDE DEF s
<1>7. Gone(s, unsent'[n])
  BY <1>1, <1>2, <1>6 DEF Gone
<1>8. QED BY <1>1, <1>2, <1>6, <1>7, OwnStepKeeps

\* Links come and go.
LEMMA LinkKeeps ==
  ASSUME MailInv, NEW e \in Edge, LinkComesUp(e) \/ LinkGoesDown(e)
  PROVE  MailInv'
<1>1. /\ UNCHANGED <<com, injected, sent, comNow, opened, unsent>> /\ linked' \subseteq Edge
      /\ comFaults' \in 0..ComFaults
      /\ mailWire' = mailWire \/ mailWire' = Cut(mailWire, {e})
  <2>1. linked \subseteq Edge /\ comFaults \in 0..ComFaults /\ ComFaults \in Nat
    BY TypesAre, MessagingAssumption
  <2>2. CASE LinkComesUp(e)
    BY <2>1, <2>2 DEF LinkComesUp
  <2>3. CASE LinkGoesDown(e)
    BY <2>1, <2>3 DEF LinkGoesDown
  <2>4. QED BY <2>2, <2>3
<1>2. mailWire' \in [User \X User -> Seq(MailOf(Range(sent)))]
  <2>1. mailWire \in [User \X User -> Seq(MailOf(Range(sent)))]
    BY TypesAre
  <2>2. Cut(mailWire, {e}) \in [User \X User -> Seq(MailOf(Range(sent)))]
    BY <2>1, CutIs
  <2>3. QED BY <1>1, <2>1, <2>2
<1>3. ComTypeOK' /\ WiresTyped' /\ \A m \in User : Gone(com[m], unsent[m])'
  BY <1>1, <1>2 DEF MailInv, ComTypeOK, WiresTyped, Gone
<1>4. QED BY <1>3 DEF MailInv

\* The clock moves.
LEMMA ComTickKeeps == ASSUME MailInv, ComTick PROVE MailInv'
<1>1. /\ UNCHANGED <<com, linked, mailWire, injected, sent, comFaults, opened, unsent>>
      /\ comNow < ComEnd /\ comNow' = comNow + 1
  BY DEF ComTick
<1>2. comNow' \in 0..ComEnd
  BY <1>1, TypesAre, MessagingAssumption
<1>3. ComTypeOK' /\ WiresTyped' /\ \A m \in User : Gone(com[m], unsent[m])'
  BY <1>1, <1>2 DEF MailInv, ComTypeOK, WiresTyped, Gone
<1>4. QED BY <1>3 DEF MailInv

\* A node that restarts knows of no message, and was told to delete none.
LEMMA RestartKeeps == ASSUME MailInv, NEW n \in User, Restart(n) PROVE MailInv'
<1>1. /\ comFaults < ComFaults /\ comFaults' = comFaults + 1 /\ com' = [com EXCEPT ![n] = Fresh]
      /\ linked' \subseteq linked /\ mailWire' = Cut(mailWire, {e \in linked : n \in e})
      /\ injected' \subseteq injected /\ unsent' = [unsent EXCEPT ![n] = {}]
      /\ UNCHANGED <<sent, comNow, opened>>
  BY DEF Restart
<1>2. Fresh \in ComStates(Range(sent))
  <2>1. <<>> \in Seq([at : Nat, env : Range(sent)]) /\ NoGroup \in GroupState
    BY DEF NoGroup, GroupState
  <2>2. QED BY <2>1 DEF Fresh, ComStates
<1>3. comFaults' \in 0..ComFaults
  BY <1>1, TypesAre, MessagingAssumption
<1>4. mailWire' \in [User \X User -> Seq(MailOf(Range(sent)))]
  BY <1>1, TypesAre, CutIs
<1>5. /\ unsent' \in [User -> SUBSET MsgId] /\ unsent'[n] = {}
      /\ \A m \in User \ {n} : unsent'[m] = unsent[m]
  BY <1>1, TypesAre
<1>6. Gone(Fresh, unsent'[n])
  BY <1>5 DEF Gone, Fresh
<1>7. /\ linked' \subseteq Edge /\ comNow' \in 0..ComEnd /\ opened' \in [User -> SUBSET MsgId]
      /\ injected' \subseteq User \X Range(sent') /\ sent' \in Seq(Envelopes) /\ Range(sent') = Range(sent)
  BY <1>1, TypesAre
<1>8. QED BY <1>1, <1>2, <1>3, <1>4, <1>5, <1>6, <1>7, InvFrom

\* Every step keeps the invariant.
LEMMA MailStepKeeps == MailInv /\ [ComNext]_comVars => MailInv'
<1> SUFFICES ASSUME MailInv, [ComNext]_comVars PROVE MailInv'
  OBVIOUS
<1>1. CASE UNCHANGED comVars
  BY <1>1 DEF comVars, MailInv, ComTypeOK, WiresTyped, Gone
<1>2. ASSUME NEW n \in Talker, ControlCommand(n) \/ WebCommand(n) PROVE MailInv'
  BY <1>2, CommandKeeps DEF WebCommand
<1>3. ASSUME NEW n \in Restarting, Restart(n) PROVE MailInv'
  BY <1>3, RestartKeeps, MessagingAssumption
<1>4. QED
  BY <1>1, <1>2, <1>3, DeliverKeeps, InjectKeeps, PullKeeps, SweepKeeps, LinkKeeps, ComTickKeeps DEF ComNext

\* A message a process was told to delete never comes back to it, over whichever links,
\* circuits and mailboxes copies of it are still on their way, and in whatever order one
\* batch of mail holds the message and the marker (com.rs, Inbox::record and Inbox::remove).
THEOREM UnsentStaysAway == ComSpec => [](ComTypeOK /\ UnsentStaysUnsent)
<1>1. MailInv => ComTypeOK /\ UnsentStaysUnsent
  BY DEF MailInv, UnsentStaysUnsent, Gone
<1>2. QED BY <1>1, MailInitially, MailStepKeeps, PTL DEF ComSpec
=============================================================================

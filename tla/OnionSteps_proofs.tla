------------------------- MODULE OnionSteps_proofs --------------------------
(***************************************************************************)
(* That every step keeps the invariant of the onion layers: the steps that *)
(* extend circuits, bridge them at the rendezvous point and use them.      *)
(***************************************************************************)
EXTENDS OnionCells_proofs

-----------------------------------------------------------------------------
(* What a relay says itself. *)

LEMMA Append1 == ASSUME NEW u, NEW c PROVE Append(<<u>>, c) = <<u, c>>
<1>1. PICK q, a, d : q = <<u>> /\ a = Append(<<u>>, c) /\ d = <<u, c>>
  OBVIOUS
<1>2. IsSeq(q) /\ Len(q) = 1 /\ q[1] = u
  BY <1>1, OneIs
<1>3. IsSeq(a) /\ Len(a) = 2 /\ a[2] = c /\ a[1] = u
  <2>1. a = Append(q, c) /\ 1 \in 1..Len(q)
    BY <1>1, <1>2
  <2>. QED
    <3>1. Len(q) + 1 = 2
      BY <1>2
    <3>2. /\ IsSeq(Append(q, c)) /\ Len(Append(q, c)) = Len(q) + 1 /\ Append(q, c)[Len(q) + 1] = c
          /\ \A i \in 1..Len(q) : Append(q, c)[i] = q[i]
      <4>1. IsSeq(q)
        BY <1>2
      <4>. QED
        BY ONLY <4>1, AppendIs
    <3>. QED
      BY <1>2, <2>1, <3>1, <3>2
<1>4. IsSeq(d) /\ Len(d) = 2 /\ d[1] = u /\ d[2] = c
  BY <1>1, TwoIs
<1>5. \A i \in 1..Len(a) : a[i] = d[i]
  BY <1>3, <1>4
<1>6. a = d
  BY ONLY <1>3, <1>4, <1>5, SeqEq
<1>. QED
  BY <1>1, <1>6

\* What relay m says, it says in its own layer alone.
LEMMA SaidCell ==
  ASSUME NEW H, ChainOK(H), NEW m \in 1..Len(H), NEW hop, NEW cell, IsHop(hop), H[m].k = hop.bk,
         H[m].d = Append(hop.bd, cell), hop.bn + 1 = Len(hop.bd), NEW T, T = hop.bn + H[m].o,
         m < Len(H) => T < H[m + 1].o
  PROVE  CellOK(H, Backward(hop, cell), m, T)
<1>1. hop.bn \in Nat /\ IsSeq(hop.bd) /\ H[m].o \in Nat
  BY DEF IsHop, ChainOK
<1>2. PICK s, d : s = hop.bd /\ d = H[m].d
  OBVIOUS
<1>3. IsSeq(d) /\ Len(d) = Len(s) + 1 /\ d[Len(s) + 1] = cell /\ Len(s) = hop.bn + 1 /\ d = Append(s, cell)
  BY <1>1, <1>2, AppendIs
<1>4. T - H[m].o = hop.bn /\ T - H[m].o + 2 = Len(d) /\ Len(d) = hop.bn + 2
  BY <1>1, <1>3
<1>5. EndsAt(H, m, T)
  BY <1>1, <1>2, <1>4 DEF EndsAt
<1>6. Upto(d, Len(d)) = d
  BY <1>3, UptoAll
<1>7. Coats(H, m, m, T) = {<<hop.bk, hop.bn>>}
  <2>1. m \in Int /\ m..m = {m}
    OBVIOUS
  <2>. QED
    BY <1>4, <2>1 DEF Coats
<1>8. Backward(hop, cell) = [kind |-> "relay", cell |-> cell, digest |-> d, layers |-> {<<hop.bk, hop.bn>>}]
  <2>1. PICK x, g : x = {<<hop.bk, hop.bn>>} /\ g = Append(hop.bd, cell)
    OBVIOUS
  <2>2. Crypt([kind |-> "relay", cell |-> cell, digest |-> g, layers |-> {}], x)
          = [kind |-> "relay", cell |-> cell, digest |-> g, layers |-> ({} \ x) \union (x \ {})]
    BY CryptCell
  <2>3. ({} \ x) \union (x \ {}) = x
    OBVIOUS
  <2>4. Backward(hop, cell) = Crypt([kind |-> "relay", cell |-> cell, digest |-> g, layers |-> {}], x)
    BY <2>1 DEF Backward, StampDigest
  <2>5. g = d
    BY <1>2, <1>3, <2>1
  <2>. QED
    BY <2>1, <2>2, <2>3, <2>4, <2>5
<1>9. CellOf(H, m, m, T) = [kind |-> "relay", cell |-> cell, digest |-> d, layers |-> {<<hop.bk, hop.bn>>}]
  <2>1. d[T - H[m].o + 2] = cell /\ Upto(d, T - H[m].o + 2) = d
    BY <1>3, <1>4, <1>6
  <2>. QED
    BY <1>2, <1>7, <2>1 DEF CellOf
<1>. QED
  BY <1>5, <1>8, <1>9 DEF CellOK

\* The chain with one more cell said by its m-th.
SaidOnto(G, H, m, c) ==
  /\ Len(H) = Len(G) /\ H[m].d = Append(G[m].d, c)
  /\ \A i \in 1..Len(G) : H[i].k = G[i].k /\ H[i].o = G[i].o /\ (i # m => H[i].d = G[i].d)
LEMMA GrowsSaid ==
  ASSUME NEW G, NEW H, NEW m \in 1..Len(G), NEW c, ChainOK(G), SaidOnto(G, H, m, c), NEW b
  PROVE  Grows(G, H, b)
<1>1. ASSUME NEW i \in 1..Len(G)
      PROVE  /\ Len(G[i].d) <= Len(H[i].d) /\ \A q \in 1..Len(G[i].d) : H[i].d[q] = G[i].d[q]
  <2>1. IsSeq(G[i].d)
    BY DEF ChainOK
  <2>2. Len(G[i].d) \in Nat
    BY <2>1, IsSeqShape
  <2>3. CASE i # m
    BY <2>2, <2>3 DEF SaidOnto
  <2>4. CASE i = m
    <3>1. PICK s : s = G[m].d
      OBVIOUS
    <3>2. Len(Append(s, c)) = Len(s) + 1 /\ \A q \in 1..Len(s) : Append(s, c)[q] = s[q]
      BY <2>1, <2>4, <3>1, AppendIs
    <3>3. H[m].d = Append(s, c)
      BY <3>1 DEF SaidOnto
    <3>. QED
      BY <2>2, <2>4, <3>1, <3>2, <3>3
  <2>. QED
    BY <2>3, <2>4
<1>2. Len(H) = Len(G) /\ Len(G) \in Nat /\ \A i \in 1..Len(G) : H[i].k = G[i].k /\ H[i].o = G[i].o
  <2>1. Len(G) \in Nat
    BY IsSeqShape DEF ChainOK
  <2>. QED
    BY <2>1 DEF SaidOnto
<1>. QED
  BY <1>1, <1>2 DEF Grows

LEMMA HeardSaid ==
  ASSUME NEW G, NEW H, NEW m \in 1..Len(G), NEW c, ChainOK(G), SaidOnto(G, H, m, c), NEW i \in 1..Len(G),
         NEW r \in Nat, NEW fd, Heard(G, i, r, fd), i = m => r + 1 <= Len(G[m].d),
         m < Len(G) => Len(G[m].d) + G[m].o <= G[m + 1].o
  PROVE  Heard(H, i, r, fd)
<1>1. Len(G) \in Nat /\ IsSeq(G[m].d) /\ Len(G[m].d) \in Nat
  BY IsSeqShape DEF ChainOK
<1>2. Len(H) = Len(G) /\ (i < Len(G) => H[i + 1].o = G[i + 1].o) /\ H[i].o = G[i].o /\ (i # m => H[i].d = G[i].d)
  BY <1>1 DEF SaidOnto
<1>3. CASE i # m
  BY <1>2, <1>3 DEF Heard
<1>4. CASE i = m
  <2>1. i < Len(G) => ~(r > G[i + 1].o - G[i].o)
    <3>1. i < Len(G) => i + 1 \in 1..Len(G)
      BY <1>1
    <3>2. i < Len(G) => G[i + 1].o \in Nat /\ G[i].o \in Nat
      BY <3>1 DEF ChainOK
    <3>3. ASSUME i < Len(G) PROVE ~(r > G[i + 1].o - G[i].o)
      <4>1. PICK a, o, p : a = Len(G[i].d) /\ o = G[i].o /\ p = G[i + 1].o
        OBVIOUS
      <4>2. a \in Nat /\ o \in Nat /\ p \in Nat /\ r \in Nat
        BY <1>1, <1>4, <3>2, <3>3, <4>1
      <4>3. r + 1 <= a /\ a + o <= p
        BY <1>4, <3>3, <4>1
      <4>4. ~(r > p - o)
        BY ONLY <4>2, <4>3
      <4>. QED
        BY ONLY <4>1, <4>4
    <3>. QED
      BY <3>3
  <2>2. fd = Upto(G[m].d, r + 1)
    BY <1>4, <2>1 DEF Heard
  <2>3. Upto(H[m].d, r + 1) = Upto(G[m].d, r + 1)
    <3>1. PICK s, t : s = G[m].d /\ t = H[m].d
      OBVIOUS
    <3>2. t = Append(s, c)
      BY <3>1 DEF SaidOnto
    <3>3. \A q \in 1..Len(s) : t[q] = s[q]
      BY <1>1, <3>1, <3>2, AppendIs
    <3>4. \A q \in 1..(r + 1) : t[q] = s[q]
      BY <1>1, <1>4, <3>1, <3>3
    <3>5. PICK n \in Nat : n = r + 1
      OBVIOUS
    <3>6. Upto(t, n) = Upto(s, n)
      BY <3>4, <3>5, UptoSame
    <3>. QED
      BY <3>1, <3>5, <3>6
  <2>. QED
    BY <1>2, <1>4, <2>1, <2>2, <2>3 DEF Heard
<1>. QED
  BY <1>3, <1>4

\* How far the client's way back has come at its last relay.
LEMMA BackAtLast ==
  ASSUME Good, Known > 0, NEW k, k = Known, NEW b, b = BackTurn(ChainBack, Read, Relayed, Known)
  PROVE  /\ b = RelayHop(k).bn + (k - 1) /\ RelayHop(k).bn \in Nat /\ b \in Nat /\ Read \in Nat /\ Read <= b
         /\ ChainOK(ChainBack) /\ k \in Nat /\ k >= 1 /\ k <= Len(ChainBack) /\ ChainBack[k].o = k - 1
<1>1. Shape /\ ClientBack
  BY DEF Good
<1>2. BackIs
  BY GoodFacts DEF Facts
<1>3. k \in Nat /\ k >= 1
  BY <1>1, KnownIs
<1>4. PICK G, w, x, y, R, Q :
         /\ G = ChainBack /\ w = Read /\ x = held["clientReader"] /\ y = held["serviceReader"]
         /\ R = Relayed /\ Q = BackQueues
  OBVIOUS
<1>5. ChainOK(G) /\ k <= Len(G) /\ BackLine(G, k, w, x, y, R, Q) /\ G[k].o = k - 1 /\ b = BackTurn(G, w, R, k) /\ k \in 1..k
  BY <1>1, <1>2, <1>3, <1>4 DEF BackIs, ClientBack
<1>6. PICK top : top = b - One(x) - One(y)
  OBVIOUS
<1>7. b \in Nat /\ w \in Nat /\ BackWay(G, k, w, top, R, Q)
  BY ONLY <1>3, <1>5, <1>6, BackLineTop DEF BackLineOK
<1>8. w <= b
  <2>1. BackTurn(G, w, R, 0) = w
    BY <1>3, <1>5, <1>7, BackTurns
  <2>2. 0 \in 0..k /\ k \in 0..k /\ 0 <= k
    BY <1>3
  <2>3. BackTurn(G, w, R, 0) <= BackTurn(G, w, R, k)
    BY ONLY <1>3, <1>5, <1>7, <2>2, BackClimbs
  <2>. QED
    BY <1>5, <2>1, <2>3
<1>9. R[k].bn \in Nat /\ b = R[k].bn + G[k].o
  BY <1>3, <1>5, <1>7, BackTurns DEF BackHop
<1>10. R[k] = RelayHop(k)
  BY <1>3, <1>4, RelayedIs
<1>. QED
  BY <1>3, <1>4, <1>5, <1>7, <1>8, <1>9, <1>10

\* The last relay says more: it is the last in the chain to have spoken to the client, so
\* that nothing the client has heard changes.
LEMMA SaysMore ==
  ASSUME Good, Known > 0, cookie # "used", SameClient, SameService, BackIs', NEW c, NEW k, k = Known,
         RelayHop(k)'.bd = Append(RelayHop(k).bd, c), \A j \in 1..Known : j # k => RelayHop(j)'.bd = RelayHop(j).bd,
         NEW b, b = BackTurn(ChainBack, Read, Relayed, Known)
  PROVE  /\ ClientHears' /\ Grows(ChainBack, ChainBack', b) /\ CellOK(ChainBack', Backward(RelayHop(k), c), k, b)
         /\ ChainOK(ChainBack')
<1>1. Shape /\ RelaysSaid /\ ClientHears /\ Control
  BY DEF Good
<1>2. ClientIs /\ ClientChain /\ BackIs
  BY GoodFacts DEF Facts
<1>3. /\ b = RelayHop(k).bn + (k - 1) /\ RelayHop(k).bn \in Nat /\ b \in Nat /\ Read \in Nat /\ Read <= b
      /\ ChainOK(ChainBack) /\ k \in Nat /\ k >= 1 /\ k <= Len(ChainBack)
  BY BackAtLast
<1>4. Known' = Known /\ ServiceEnd' = ServiceEnd /\ Read' = Read /\ ClientLayers' = ClientLayers /\ PathLen \in Nat /\ k <= PathLen
  BY <1>1, KnownIs DEF SameClient, SameService
<1>5. PICK G, H : G = ChainBack /\ H = ChainBack'
  OBVIOUS
<1>6. IsHop(RelayHop(k)) /\ RelayHop(k).bk = BK(LegTo(k)) /\ RelayHop(k).bn + 1 = Len(RelayHop(k).bd)
  <2>1. LegTo(k) \in DOMAIN relays
    BY <1>1, <1>3, KnownIs
  <2>2. IsHop(RelayHop(k)) /\ RelayHop(k).bk = BK(LegTo(k))
    BY <1>1, <2>1, RelayIs DEF RelayHop
  <2>3. RelayHop(Known).bn + 1 = Len(RelayHop(Known).bd)
    BY <1>1 DEF RelaysSaid
  <2>. QED
    BY <2>2, <2>3
<1>7. /\ ChainOK(H) /\ Len(H) = Len(G) /\ Len(G) \in Nat
      /\ \A i \in 1..k : /\ H[i].k = BK(LegTo(i)) /\ H[i].o = i - 1 /\ H[i].d = RelayHop(i)'.bd
                         /\ G[i].k = BK(LegTo(i)) /\ G[i].o = i - 1 /\ G[i].d = RelayHop(i).bd
      /\ \A i \in 1..Len(G) : i <= k \/ (i = PathLen + 1 /\ k = PathLen /\ ServiceEnd.e2e # <<>>)
      /\ k < Len(G) => k = PathLen /\ ServiceEnd.e2e # <<>>
      /\ ServiceEnd.e2e # <<>> => /\ H[PathLen + 1].k = G[PathLen + 1].k /\ H[PathLen + 1].d = G[PathLen + 1].d
                                  /\ H[PathLen + 1].o = PathLen + 1 /\ G[PathLen + 1].o = PathLen + 1
  <2>1. /\ ChainOK(G) /\ Len(G) \in Nat /\ Len(G) = (IF ServiceEnd.e2e = <<>> THEN k ELSE PathLen + 1)
        /\ ServiceEnd.e2e # <<>> => k = PathLen
        /\ \A i \in 1..k : G[i].k = BK(LegTo(i)) /\ G[i].o = i - 1 /\ G[i].d = RelayHop(i).bd
        /\ ServiceEnd.e2e # <<>> => /\ G[PathLen + 1].k = H2C /\ G[PathLen + 1].o = PathLen + 1
                                    /\ G[PathLen + 1].d = ServiceEnd.e2e[1].fd
    BY <1>2, <1>5 DEF BackIs
  <2>2. /\ ChainOK(H) /\ Len(H) = (IF ServiceEnd'.e2e = <<>> THEN Known' ELSE PathLen + 1)
        /\ \A i \in 1..Known' : H[i].k = BK(LegTo(i)) /\ H[i].o = i - 1 /\ H[i].d = RelayHop(i)'.bd
        /\ ServiceEnd'.e2e # <<>> => /\ H[PathLen + 1].k = H2C /\ H[PathLen + 1].o = PathLen + 1
                                     /\ H[PathLen + 1].d = ServiceEnd'.e2e[1].fd
    BY <1>5 DEF BackIs, BK, LegTo, H2C, Meeting, ServiceKey
  <2>3. Len(H) = Len(G) /\ \A i \in 1..Len(G) : i <= k \/ (i = PathLen + 1 /\ k = PathLen /\ ServiceEnd.e2e # <<>>)
    <3>1. CASE ServiceEnd.e2e = <<>>
      <4>1. Len(G) = k /\ Len(H) = Known' /\ Known' = k
        BY <1>4, <2>1, <2>2, <3>1
      <4>. QED
        <5>1. \A i \in 1..k : i <= k
          BY <1>3
        <5>2. 1..Len(G) = 1..k
          BY <4>1
        <5>. QED
          BY <4>1, <5>1, <5>2
    <3>2. CASE ServiceEnd.e2e # <<>>
      <4>1. Len(G) = PathLen + 1 /\ Len(H) = PathLen + 1 /\ k = PathLen
        BY <1>4, <2>1, <2>2, <3>2
      <4>. QED
        BY <1>3, <3>2, <4>1
    <3>. QED
      BY <3>1, <3>2
  <2>4. k < Len(G) => k = PathLen /\ ServiceEnd.e2e # <<>>
    BY <1>3, <2>1
  <2>. QED
    BY <1>4, <2>1, <2>2, <2>3, <2>4
<1>8. k \in 1..Len(G) /\ k \in 1..k
  BY <1>3, <1>5, <1>7
<1>9. SaidOnto(G, H, k, c)
  <2>1. \A i \in 1..Len(G) : i <= k => i \in 1..k
    BY <1>3
  <2>2. \A i \in 1..Len(G) : H[i].k = G[i].k /\ H[i].o = G[i].o /\ (i # k => H[i].d = G[i].d)
    <3>1. ASSUME NEW i \in 1..Len(G) PROVE H[i].k = G[i].k /\ H[i].o = G[i].o /\ (i # k => H[i].d = G[i].d)
      <4>1. CASE i <= k
        BY <1>7, <2>1, <4>1
      <4>2. CASE ~(i <= k)
        <5>1. i = PathLen + 1 /\ ServiceEnd.e2e # <<>>
          BY <1>7, <4>2
        <5>. QED
          BY <1>7, <5>1
      <4>. QED
        BY <4>1, <4>2
    <3>. QED
      BY <3>1
  <2>. QED
    BY <1>7, <1>8, <2>2 DEF SaidOnto
<1>10. k < Len(G) => Len(G[k].d) <= 2 /\ Len(G[k].d) \in Nat
  <2>1. SUFFICES ASSUME k < Len(G) PROVE Len(SaidAt(k)) <= 2 /\ Len(SaidAt(k)) \in Nat
    <3>1. RelayHop(k).bd = SaidAt(k)
      BY <1>1, <1>8 DEF RelaysSaid
    <3>. QED
      BY <1>7, <1>8, <3>1
  <2>2. SaidAt(k) = <<BK(LegTo(k))>> \/ SaidAt(k) = <<BK(LegTo(k)), Established>>
    BY <1>1, <1>4, <1>7, <2>1 DEF SaidAt, Control
  <2>3. ASSUME NEW a, NEW d PROVE Len(<<a>>) = 1 /\ Len(<<a, d>>) = 2
    BY OneIs, TwoIs
  <2>4. CASE SaidAt(k) = <<BK(LegTo(k))>>
    BY <2>3, <2>4
  <2>5. CASE SaidAt(k) = <<BK(LegTo(k)), Established>>
    BY <2>3, <2>5
  <2>. QED
    BY <2>2, <2>4, <2>5
<1>11. k < Len(G) => G[k + 1].o = k + 1 /\ H[k + 1].o = k + 1
  BY <1>7
<1>12. G[k].o = k - 1 /\ H[k].o = k - 1 /\ H[k].k = RelayHop(k).bk /\ G[k].d = RelayHop(k).bd /\ H[k].d = Append(RelayHop(k).bd, c)
  BY <1>6, <1>7, <1>8
<1>13. Grows(G, H, b)
  BY <1>3, <1>5, <1>8, <1>9, GrowsSaid
<1>14. CellOK(H, Backward(RelayHop(k), c), k, b)
  <2>1. k < Len(H) => b < H[k + 1].o
    <3>1. SUFFICES ASSUME k < Len(H) PROVE b < H[k + 1].o
      OBVIOUS
    <3>2. PICK n, z : n = RelayHop(k).bn /\ z = Len(G[k].d)
      OBVIOUS
    <3>3. n \in Nat /\ n + 1 = z /\ z <= 2 /\ z \in Nat /\ H[k + 1].o = k + 1 /\ b = n + (k - 1)
      BY <1>3, <1>6, <1>7, <1>10, <1>11, <1>12, <3>1, <3>2
    <3>. QED
      BY <1>3, <3>3
  <2>2. PICK hop : hop = RelayHop(k)
    OBVIOUS
  <2>3. /\ IsHop(hop) /\ H[k].k = hop.bk /\ H[k].d = Append(hop.bd, c) /\ hop.bn + 1 = Len(hop.bd)
        /\ b = hop.bn + H[k].o /\ k \in 1..Len(H) /\ ChainOK(H)
    BY <1>3, <1>6, <1>7, <1>8, <1>12, <2>2
  <2>4. CellOK(H, Backward(hop, c), k, b)
    BY ONLY <2>1, <2>3, SaidCell
  <2>. QED
    BY <2>2, <2>4
<1>15. ASSUME NEW i \in 1..Len(ClientLayers), i <= Len(G) PROVE Heard(H, i, ClientLayers[i].bn, ClientLayers[i].bd)
  <2>1. ChainIsFor(ClientLayers, Known)
    BY <1>2 DEF ClientChain
  <2>2. ClientLayers[i].bn \in Nat
    BY <2>1 DEF ChainIsFor, IsHop
  <2>3. ClientLayers[i].bn + Starts(i) = Read /\ Heard(G, i, ClientLayers[i].bn, ClientLayers[i].bd)
    BY <1>1, <1>5, <1>7, <1>15 DEF ClientHears, ClientHeard, Read
  <2>4. PICK r, fd : r = ClientLayers[i].bn /\ fd = ClientLayers[i].bd
    OBVIOUS
  <2>5. i = k => r + 1 <= Len(G[k].d)
    <3>1. i = k => r + (k - 1) = Read
      BY <1>4, <2>3, <2>4 DEF Starts
    <3>2. PICK n, z : n = RelayHop(k).bn /\ z = Len(G[k].d)
      OBVIOUS
    <3>3. n \in Nat /\ n + 1 = z /\ b = n + (k - 1) /\ r \in Nat
      BY <1>3, <1>6, <1>12, <2>2, <2>4, <3>2
    <3>. QED
      <4>1. PICK a : a = Read
        OBVIOUS
      <4>2. a \in Nat /\ a <= b /\ b = n + (k - 1) /\ n + 1 = z /\ (i = k => r + (k - 1) = a) /\ r \in Nat /\ n \in Nat /\ k \in Nat
        BY <1>3, <3>1, <3>3, <4>1
      <4>3. i = k => r + 1 <= z
        BY ONLY <4>2
      <4>. QED
        BY <3>2, <4>3
  <2>6. k < Len(G) => Len(G[k].d) + G[k].o <= G[k + 1].o
    BY <1>3, <1>10, <1>11, <1>12
  <2>7. i \in 1..Len(G) /\ r \in Nat /\ Heard(G, i, r, fd) /\ ChainOK(G)
    BY <1>3, <1>5, <1>7, <1>15, <2>2, <2>3, <2>4
  <2>8. Heard(H, i, r, fd)
    BY ONLY <1>8, <1>9, <2>5, <2>6, <2>7, HeardSaid
  <2>. QED
    BY <2>4, <2>8
<1>16. ClientHears'
  <2>1. ASSUME NEW i \in 1..Len(ClientLayers) PROVE ClientHeard(i)'
    <3>1. ClientLayers[i].bn + Starts(i) = ClientLayers[1].bn /\ (i > Len(G) => ClientLayers[i].bd = <<ClientLayers[i].bk>>)
      BY <1>1, <1>5 DEF ClientHears, ClientHeard
    <3>2. i \in Nat /\ (i <= Len(G) \/ i > Len(G))
      BY <1>7
    <3>. QED
      BY <1>4, <1>5, <1>7, <1>15, <3>1, <3>2 DEF ClientHeard, Starts
  <2>. QED
    BY <1>4, <2>1 DEF ClientHears
<1>. QED
  BY <1>5, <1>7, <1>13, <1>14, <1>16

\* A relay that hears from the next one is the last that the client knows, and waits.
LEMMA CreatedFor ==
  ASSUME Good, NEW leg \in Leg, leg \in DOMAIN relays, NEW next, next = <<leg[1], leg[2] + 1>>, next \in Leg,
         CellArrives(backward, next, "created"), relays[leg].awaiting
  PROVE  /\ leg = LegTo(Known) /\ next = LegTo(Known + 1) /\ Known \in 1..(PathLen - 1)
         /\ Answered(next) /\ Waiting(LastRelay) /\ ClientEnd.pending = next
<1>1. Shape /\ Places /\ Building
  BY GoodFacts DEF Good, Facts
<1>2. PathLen \in Nat /\ Known \in Nat
  BY <1>1, KnownIs
<1>3. leg # Meet
  <2>1. leg = Meet => next = <<"service", 2>>
    BY DEF Meet
  <2>2. <<"service", 2>> \notin Leg
    BY DEF Leg, OriginEnd, Hops
  <2>. QED
    BY <2>1, <2>2
<1>4. PICK i \in 1..PathLen : leg = LegTo(i)
  BY <1>3, LegIs
<1>5. next = LegTo(i + 1)
  BY <1>4 DEF LegTo
<1>6. next # Meet
  BY <1>2, <1>5, LegApart
<1>7. PICK j \in 1..PathLen : next = LegTo(j)
  BY <1>6, LegIs
<1>8. j = i + 1
  BY <1>2, <1>5, <1>7, LegApart
<1>9. j = Known + 1
  BY <1>1, <1>7 DEF Places
<1>10. i = Known /\ Known \in 1..(PathLen - 1)
  BY <1>2, <1>8, <1>9
<1>11. backward[next] # <<>>
  BY DEF CellArrives
<1>12. Extending
  BY <1>1 DEF Building
<1>13. ClientEnd.pending # NoKey /\ ClientEnd.pending = next
  BY <1>7, <1>9, <1>10, <1>11, <1>12 DEF Extending, Quiet, Absent
<1>14. Answered(next) /\ Waiting(LastRelay)
  BY <1>7, <1>9, <1>10, <1>11, <1>12, <1>13 DEF Extending, Quiet, Absent, Asked, Returning
<1>. QED
  BY <1>4, <1>7, <1>9, <1>10, <1>13, <1>14

LEMMA HandleCreatedFromNextGood == ASSUME Good, NEW leg \in Leg, HandleCreatedFromNext(leg) PROVE Good'
<1>1. /\ Shape /\ Building /\ ClientOut /\ ServiceWayOut /\ RelaysSaid /\ ClientHears /\ ClientBack
      /\ Bridged /\ ServiceBack /\ Control /\ Contents /\ Timely
  BY DEF Good
<1>2. ClientIs /\ ServiceIs /\ ClientChain /\ ServiceChain /\ BackIs /\ MeetBackIs
  BY GoodFacts DEF Facts
<1>3. PICK next, reply, c :
        /\ next = <<leg[1], leg[2] + 1>> /\ reply = Head(backward[next])
        /\ c = <<"extended2", reply.y, reply.auth>>
  OBVIOUS
<1>4. /\ CellArrives(backward, next, "created") /\ leg \in DOMAIN relays /\ next \in Leg
      /\ relays[leg].awaiting
      /\ relays' = [relays EXCEPT ![leg].awaiting = FALSE, ![leg].hop = AfterBackward(@, c)]
      /\ backward' = On(Off(backward, next), leg, Backward(relays[leg].hop, c))
      /\ UNCHANGED <<origin, forward, held, tables, ends, ghosts>>
  BY <1>3 DEF HandleCreatedFromNext
<1>5. PICK k : k = Known
  OBVIOUS
<1>6. /\ leg = LegTo(k) /\ next = LegTo(k + 1) /\ k \in 1..(PathLen - 1)
      /\ Answered(next) /\ Waiting(LastRelay) /\ ClientEnd.pending = next
  BY <1>3, <1>4, <1>5, CreatedFor
<1>7. /\ k \in Nat /\ k < PathLen /\ k >= 1 /\ k \in 1..Known /\ PathLen \in Nat
      /\ \A j \in 1..Known : LegTo(j) \in Leg /\ LegTo(j) \in DOMAIN relays /\ j \in Int
  BY <1>1, <1>5, <1>6, KnownIs
<1>8. c = Extended2(k)
  <2>1. backward[next] = <<CreatedBy(next)>>
    BY <1>6 DEF Answered
  <2>2. reply = CreatedBy(next)
    BY <1>3, <2>1
  <2>3. reply.y = next /\ reply.auth = Auth(next, next)
    BY <2>2 DEF CreatedBy
  <2>. QED
    BY <1>3, <1>6, <2>3 DEF Extended2
<1>9. /\ IsHop(RelayHop(k)) /\ RelayHop(k).fk = FK(leg) /\ RelayHop(k).bk = BK(leg) /\ RelayHop(k) = relays[leg].hop
      /\ relays[leg] = [hop |-> relays[leg].hop, next |-> TRUE, awaiting |-> TRUE]
  <2>1. LastRelay = relays[leg]
    BY <1>5, <1>6 DEF LastRelay
  <2>. QED
    BY <1>1, <1>4, <1>6, <2>1, RelayIs DEF RelayHop, Waiting
<1>10. PICK h : h = AfterBackward(RelayHop(k), c)
  OBVIOUS
<1>11. HopAfter(RelayHop(k), h, RelayHop(k).fn, RelayHop(k).fd, RelayHop(k).bn + 1, Append(RelayHop(k).bd, c))
  BY <1>9, <1>10, HopSteps
<1>12. relays' = [relays EXCEPT ![leg] = [hop |-> h, next |-> TRUE, awaiting |-> FALSE]]
  <2>1. relays = [l \in DOMAIN relays |-> relays[l]]
    BY <1>1 DEF Shape
  <2>. QED
    <3>1. PICK r, y, n : r = relays /\ y = TRUE /\ n = FALSE
      OBVIOUS
    <3>2. relays' = [r EXCEPT ![leg].awaiting = n, ![leg].hop = h]
      BY <1>4, <1>9, <1>10, <3>1
    <3>3. r = [l \in DOMAIN r |-> r[l]] /\ r[leg] = [hop |-> r[leg].hop, next |-> y, awaiting |-> y] /\ leg \in DOMAIN r
      BY <1>4, <1>9, <2>1, <3>1
    <3>4. [r EXCEPT ![leg].awaiting = n, ![leg].hop = h] = [r EXCEPT ![leg] = [hop |-> h, next |-> y, awaiting |-> n]]
      <4>1. PICK a, z : /\ a = [r EXCEPT ![leg].awaiting = n, ![leg].hop = h]
                        /\ z = [r EXCEPT ![leg] = [hop |-> h, next |-> y, awaiting |-> n]]
        OBVIOUS
      <4>2. /\ DOMAIN a = DOMAIN r /\ a = [l \in DOMAIN r |-> a[l]] /\ \A l \in DOMAIN r : l # leg => a[l] = r[l]
            /\ a[leg] = [[r[leg] EXCEPT !.awaiting = n] EXCEPT !.hop = h]
        BY ONLY <3>3, <4>1
      <4>3. a[leg] = [hop |-> h, next |-> y, awaiting |-> n]
        <5>1. PICK v, s, t : v = r[leg].hop /\ s = r[leg] /\ t = [s EXCEPT !.awaiting = n]
          OBVIOUS
        <5>2. s = [hop |-> v, next |-> y, awaiting |-> y]
          BY <3>3, <5>1
        <5>3. t = [hop |-> v, next |-> y, awaiting |-> n]
          BY ONLY <5>1, <5>2
        <5>4. [t EXCEPT !.hop = h] = [hop |-> h, next |-> y, awaiting |-> n]
          BY ONLY <5>3
        <5>. QED
          BY <4>2, <5>1, <5>4
      <4>4. /\ DOMAIN z = DOMAIN r /\ z = [l \in DOMAIN r |-> z[l]] /\ \A l \in DOMAIN r : l # leg => z[l] = r[l]
            /\ z[leg] = [hop |-> h, next |-> y, awaiting |-> n]
        BY ONLY <3>3, <4>1
      <4>. QED
        BY ONLY <4>1, <4>2, <4>3, <4>4
    <3>. QED
      BY <3>1, <3>2, <3>4
<1>13. /\ Steps({leg}) /\ relays'[leg].hop = h /\ relays'[leg].next = TRUE /\ relays'[leg].awaiting = FALSE
       /\ \A l \in DOMAIN relays : l # leg => relays'[l] = relays[l]
  <2>1. IsHop(h) /\ h.fk = FK(leg) /\ h.bk = BK(leg) /\ leg \in DOMAIN relays
    BY <1>4, <1>9, <1>11 DEF HopAfter
  <2>. QED
    BY ONLY <1>1, <1>12, <2>1, StepsOne
<1>14. RelayHop(k)' = h
  BY <1>6, <1>13 DEF RelayHop, LegTo
<1>15. /\ next # leg /\ next # Meet /\ Meet # leg /\ Meet \in Leg
       /\ \A j \in 1..Known : j # k => LegTo(j) # leg
       /\ \A j \in 1..Known : LegTo(j) # next
       /\ \A j \in 1..PathLen : j > Known + 1 => LegTo(j) \in Leg /\ LegTo(j) # next /\ LegTo(j) # leg
  <2>1. Meet \in Leg /\ \A j \in 1..PathLen : LegTo(j) \in Leg
    BY LegIs
  <2>2. k + 1 \in Int /\ k \in Int /\ k # k + 1 /\ \A j \in 1..Known : j # k + 1
    BY <1>5, <1>7
  <2>3. next # leg /\ next # Meet /\ Meet # leg
    BY <1>6, <2>2, LegApart
  <2>4. \A j \in 1..Known : (j # k => LegTo(j) # leg) /\ LegTo(j) # next
    BY <1>6, <1>7, <2>2, LegApart
  <2>5. \A j \in 1..PathLen : j \in Int /\ (j > Known + 1 => j # k /\ j # k + 1)
    BY <1>5, <1>7
  <2>6. \A j \in 1..PathLen : j > Known + 1 => LegTo(j) # next /\ LegTo(j) # leg
    BY <1>6, <2>2, <2>5, LegApart
  <2>. QED
    BY <2>1, <2>3, <2>4, <2>6
<1>16. PICK P : P = Backward(relays[leg].hop, c)
  OBVIOUS
<1>17. Moves(backward, backward', next, leg, P)
  <2>1. backward' = On(Off(backward, next), leg, P) /\ backward = [l \in Leg |-> backward[l]]
    BY <1>1, <1>4, <1>16 DEF Shape
  <2>. QED
    BY <2>1, <1>4, <1>15, OffOnIs
<1>18. SameClient /\ SameService
  BY <1>4, SameEnds
<1>19. /\ \A j \in 1..Known : j # k => RelayHop(j)' = RelayHop(j)
       /\ Meet \in DOMAIN relays => MeetHop' = MeetHop
       /\ Len(ServiceEnd.hops) > 0 => MeetHop' = MeetHop
       /\ cookie = "used" => MeetHop' = MeetHop
       /\ Meet \in DOMAIN relays' => Meet \in DOMAIN relays
       /\ (ClientEnd.e2e # <<>> \/ cookie # "none") => Known = PathLen
  BY <1>6, <1>7, <1>13, OthersStill
<1>20. cookie = "none" /\ cookie' = cookie /\ Known' = Known /\ ClientEnd.e2e = <<>> /\ ServiceEnd.e2e = <<>>
  <2>1. cookie = "none" /\ ClientEnd.e2e = <<>>
    BY <1>5, <1>7, <1>19
  <2>2. ServiceEnd.e2e = <<>>
    BY <1>2, <1>5, <1>7 DEF BackIs
  <2>. QED
    BY <1>4, <1>18, <2>1, <2>2 DEF tables, SameClient
<1>21. /\ RelayHop(k)'.fn = RelayHop(k).fn /\ RelayHop(k)'.fd = RelayHop(k).fd
       /\ RelayHop(k)'.bn = RelayHop(k).bn + 1 /\ RelayHop(k)'.bd = Append(RelayHop(k).bd, c)
  BY <1>11, <1>14 DEF HopAfter
<1>22. OutHopsStill
  BY <1>4, <1>19, <1>21 DEF OutHopsStill
<1>23. Shape'
  <2>1. Tables'
    BY <1>1, <1>4, <1>17 DEF Shape, Tables, Moves
  <2>. QED
    BY <1>1, <1>4, <1>13, <2>1, ShapeStays
<1>24. Building'
  <2>1. CircuitsStay
    BY <1>4 DEF CircuitsStay
  <2>2. \A j \in 1..(Known - 1) : j \in 1..Known /\ j # k
    BY <1>5, <1>7
  <2>3. \A j \in 1..(Known - 1) : relays'[LegTo(j)].next = relays[LegTo(j)].next /\ relays'[LegTo(j)].awaiting = relays[LegTo(j)].awaiting
    BY <1>7, <1>13, <1>15, <2>2
  <2>4. DOMAIN relays' = DOMAIN relays
    BY <1>13 DEF Steps
  <2>5. \A j \in 1..PathLen : j > Known + 1 => Quiet(LegTo(j))'
    <3>1. \A j \in 1..PathLen : j > Known + 1 => Quiet(LegTo(j))
      BY <1>1 DEF Building
    <3>2. \A j \in 1..PathLen : j > Known + 1 => backward'[LegTo(j)] = backward[LegTo(j)]
      BY <1>15, <1>17 DEF Moves
    <3>. QED
      BY <1>4, <2>4, <3>1, <3>2 DEF Quiet, Absent, LegTo
  <2>6. backward'[Meet] = backward[Meet] /\ (Meet \in DOMAIN relays => relays'[Meet] = relays[Meet])
    BY <1>13, <1>15, <1>17 DEF Moves
  <2>7. Extending'
    <3>1. LegTo(Known + 1)' = next
      BY <1>5, <1>6, <1>20 DEF LegTo
    <3>2. ClientEnd'.pending = next
      BY <1>6, <1>18 DEF SameClient
    <3>3. next # NoKey
      BY <1>6 DEF NoKey, LegTo
    <3>4. Joined(LastRelay)'
      <4>1. LastRelay' = relays'[leg]
        BY <1>5, <1>6, <1>20 DEF LastRelay, LegTo
      <4>. QED
        BY <1>13, <4>1 DEF Joined
    <3>5. Returning(next)'
      <4>1. forward[next] = <<>> /\ backward[next] = <<CreatedBy(next)>> /\ Fresh(next)
        BY <1>6 DEF Answered
      <4>2. backward'[next] = Tail(backward[next])
        BY <1>17 DEF Moves
      <4>3. \A m : Tail(<<m>>) = <<>>
        OBVIOUS
      <4>4. backward'[next] = <<>>
        BY <4>1, <4>2, <4>3
      <4>5. Fresh(next)'
        <5>1. next \in DOMAIN relays
          BY <4>1 DEF Fresh
        <5>2. relays'[next] = relays[next] /\ next \in DOMAIN relays'
          BY <1>13, <1>15, <2>4, <5>1
        <5>. QED
          BY <4>1, <5>2 DEF Fresh, FK, BK
      <4>. QED
        BY <1>4, <4>1, <4>4, <4>5 DEF Returning
    <3>. QED
      BY <3>1, <3>2, <3>3, <3>4, <3>5 DEF Extending, NoKey
  <2>. QED
    BY <1>1, <1>4, <1>5, <1>6, <2>1, <2>3, <2>4, <2>5, <2>6, <2>7, BuildingExtends
<1>25. SaidAt(k) = <<BK(leg)>> /\ SaidAt(k)' = <<BK(leg), c>> /\ \A j \in 1..Known : j # k => SaidAt(j)' = SaidAt(j)
  <2>1. ~(k < Known) /\ k < PathLen /\ relays[LegTo(k)].awaiting /\ ~relays'[LegTo(k)].awaiting /\ LegTo(k + 1) \in DOMAIN relays'
    BY <1>4, <1>5, <1>6, <1>7, <1>13 DEF Answered, Fresh, Steps
  <2>2. \A j \in 1..Known : j # k => j < Known
    BY <1>5, <1>7
  <2>3. SaidAt(k) = <<BK(leg)>>
    BY <1>6, <2>1 DEF SaidAt
  <2>4. SaidAt(k)' = <<BK(leg), c>>
    BY <1>6, <1>8, <1>20, <2>1 DEF SaidAt, BK, LegTo, Extended2, Auth
  <2>5. \A j \in 1..Known : j # k => SaidAt(j)' = SaidAt(j)
    BY <1>20, <2>2 DEF SaidAt, BK, LegTo, Extended2, Auth
  <2>. QED
    BY <2>3, <2>4, <2>5
<1>26. RelaysSaid'
  <2>1. RelayHop(k).bd = <<BK(leg)>> /\ RelayHop(k).bn + 1 = Len(RelayHop(k).bd)
    BY <1>1, <1>5, <1>7, <1>20, <1>25 DEF RelaysSaid
  <2>2. \A u : Append(<<u>>, c) = <<u, c>> /\ Len(<<u>>) = 1 /\ Len(<<u, c>>) = 2
    <3>1. ASSUME NEW u PROVE Append(<<u>>, c) = <<u, c>> /\ Len(<<u>>) = 1 /\ Len(<<u, c>>) = 2
      BY OneIs, TwoIs, Append1
    <3>. QED
      BY <3>1
  <2>3. RelayHop(k)'.bd = <<BK(leg), c>> /\ Len(RelayHop(k)'.bd) = 2 /\ RelayHop(k).bn + 1 = 1
    BY <1>21, <2>1, <2>2
  <2>4. RelayHop(k).bn \in Nat
    BY <1>9 DEF IsHop
  <2>5. RelayHop(k)'.bn + 1 = Len(RelayHop(k)'.bd)
    BY <1>21, <2>3, <2>4
  <2>6. \A j \in 1..Known : RelayHop(j)'.bd = SaidAt(j)'
    BY <1>1, <1>19, <1>25, <2>3 DEF RelaysSaid
  <2>7. RelayHop(Known)' = RelayHop(k)'
    BY <1>5, <1>20, AtKnown
  <2>. QED
    BY <1>20, <2>5, <2>6, <2>7 DEF RelaysSaid, RelayHop, LegTo
<1>27. ClientOut'
  <2>1. held'["fetch"] = held["fetch"] /\ held'["pump"] = held["pump"]
    BY <1>4
  <2>. QED
    BY <1>1, <1>2, <1>18, <1>22, <2>1, ClientOutStays
<1>28. ServiceWayOut'
  <2>1. MeetOutStill
    BY <1>4, <1>19 DEF MeetOutStill
  <2>. QED
    BY <1>1, <1>2, <1>18, <2>1, ServiceWayOutStays
<1>29. Control'
  <2>1. UNCHANGED <<tables, ends0>>
    BY <1>4 DEF ends, ends0
  <2>2. cookie # "none" => PointEstablished'
    BY <1>20
  <2>3. cookie = "used" => MeetHop'.fn > 0
    BY <1>20
  <2>. QED
    BY <1>1, <1>18, <2>1, <2>2, <2>3, ControlStays
<1>30. BackIs'
  BY <1>23, <1>26, <1>28, <1>29, EndsAreNext, BackChainNext
<1>31. PICK b : b = BackTurn(ChainBack, Read, Relayed, Known)
  OBVIOUS
<1>32. /\ ClientHears' /\ Grows(ChainBack, ChainBack', b) /\ CellOK(ChainBack', Backward(RelayHop(k), c), k, b)
       /\ ChainOK(ChainBack')
  <2>1. Known > 0 /\ cookie # "used"
    BY <1>5, <1>7, <1>20
  <2>2. \A j \in 1..Known : j # k => RelayHop(j)'.bd = RelayHop(j).bd
    BY <1>19
  <2>3. RelayHop(k)'.bd = Append(RelayHop(k).bd, c)
    BY <1>21
  <2>. QED
    BY ONLY Good, <1>5, <1>18, <1>30, <1>31, <2>1, <2>2, <2>3, SaysMore
<1>33. ClientBack'
  <2>1. PICK G, H, w, R, Q, R2, Q2 :
          /\ G = ChainBack /\ H = ChainBack' /\ w = Read /\ R = Relayed /\ Q = BackQueues /\ R2 = Relayed' /\ Q2 = BackQueues'
    OBVIOUS
  <2>2. held["clientReader"] = <<>> /\ held["serviceReader"] = <<>>
    BY <1>1, <1>5, <1>7 DEF ClientBack, Free
  <2>3. /\ ChainOK(G) /\ ChainOK(H) /\ k \in Nat /\ k >= 1 /\ k <= Len(G) /\ b = BackTurn(G, w, R, k) /\ Grows(G, H, b)
        /\ G[k].o = k - 1 /\ BackLine(G, k, w, <<>>, <<>>, R, Q) /\ CellOK(H, P, k, b)
    BY <1>1, <1>2, <1>5, <1>7, <1>9, <1>16, <1>31, <1>32, <2>1, <2>2 DEF BackIs, ClientBack
  <2>4. \A j \in 1..k : /\ R[j] = RelayHop(j) /\ Q[j] = backward[LegTo(j)]
                        /\ R2[j] = RelayHop(j)' /\ Q2[j] = backward'[LegTo(j)]
    BY <1>5, <1>20, <2>1, RelayedIs
  <2>5. \A j \in 1..k : R2[j].bn = IF j = k THEN R[j].bn + 1 ELSE R[j].bn
    BY <1>5, <1>19, <1>21, <2>4
  <2>6. Q2[k] = Append(Q[k], P) /\ \A j \in 1..k : j # k => Q2[j] = Q[j]
    <3>1. backward'[leg] = Append(backward[leg], P)
      BY <1>17 DEF Moves
    <3>2. \A j \in 1..Known : j # k => backward'[LegTo(j)] = backward[LegTo(j)]
      BY <1>7, <1>15, <1>17 DEF Moves
    <3>. QED
      BY <1>5, <1>6, <1>7, <2>4, <3>1, <3>2
  <2>7. BackLine(H, k, w, <<>>, <<>>, R2, Q2)
    BY ONLY <2>3, <2>5, <2>6, BackLineAnswer
  <2>8. Known' = k /\ Read' = w /\ held' = held
    BY <1>4, <1>5, <1>18, <2>1 DEF SameClient
  <2>. QED
    BY <2>1, <2>2, <2>7, <2>8 DEF ClientBack, Free
<1>34. Bridged'
  <2>1. ClientEnd.e2e # <<>> => RelayHop(PathLen)'.fn = RelayHop(PathLen).fn
    BY <1>20
  <2>. QED
    BY <1>1, <1>18, <1>19, <2>1, BridgedStays
<1>35. ServiceBack'
  <2>1. MeetBackStill
    BY <1>15, <1>17, <1>19 DEF MeetBackStill, Moves
  <2>2. MeetBack' = MeetBack /\ Len(ServiceEnd.hops)' = Len(ServiceEnd.hops) /\ ServiceLayers' = ServiceLayers
    BY <1>18 DEF SameClient, SameService
  <2>3. Len(ServiceEnd.hops) > 0 => ServiceLayers'[1].bn = ServiceLayers[1].bn
    BY <2>2
  <2>. QED
    BY <1>1, <1>2, <2>1, <2>2, <2>3, ServiceBackStays
<1>36. Contents' /\ Timely'
  <2>1. UNCHANGED ends0 /\ UNCHANGED ghosts
    BY <1>4 DEF ends, ends0
  <2>. QED
    BY <1>1, <1>18, <2>1, ContentsStays, TimelyStays DEF SameClient, SameService
<1>. QED
  BY <1>23, <1>24, <1>26, <1>27, <1>28, <1>29, <1>32, <1>33, <1>34, <1>35, <1>36 DEF Good

\* The client asks for a cookie once.
LEMMA AskedOnce ==
  ASSUME Good, NEW k, k = PathLen, k \in 1..Known, forward[LegTo(k)] # <<>>, IsRecognizedAt(Peel(LegTo(k)), RelayHop(k).fd),
         Peel(LegTo(k)).cell[1] = "establish"
  PROVE  cookie = "none"
<1>1. Shape /\ ClientOut /\ Control /\ Contents
  BY DEF Good
<1>2. ClientChain
  BY GoodFacts DEF Facts
<1>3. Known \in Nat /\ Known > 0 /\ k \in Nat
  BY <1>1, KnownIs
<1>4. TakenUp(ChainOut, Head(forward[LegTo(k)]), k, Passed(k), Peel(LegTo(k)), RelayHop(k))
  BY <1>1, TakeAt
<1>5. MineNow(ChainOut, Peel(LegTo(k)), k, Passed(k), RelayHop(k).fd)
  BY <1>4 DEF TakenUp, NotMine
<1>6. PICK d, n, fd : d = ChainOut[k].d /\ n = RelayHop(k).fn /\ fd = RelayHop(k).fd
  OBVIOUS
<1>7. /\ n \in Nat /\ n + 2 \in 2..Len(d) /\ Peel(LegTo(k)).cell = d[n + 2] /\ fd = Upto(d, n + 1)
  <2>1. Passed(k) - ChainOut[k].o = n /\ n \in Nat
    BY <1>4, <1>6 DEF TakenUp
  <2>2. /\ Passed(k) - ChainOut[k].o + 2 \in 2..Len(d) /\ Peel(LegTo(k)).cell = d[Passed(k) - ChainOut[k].o + 2]
        /\ fd = Upto(d, Passed(k) - ChainOut[k].o + 1)
    BY <1>5, <1>6 DEF MineNow
  <2>. QED
    BY <2>1, <2>2
<1>8. d = ClientLayers[k].fd
  <2>1. ChainIsFor(ClientLayers, Known) /\ k \in 1..Len(ClientLayers)
    BY <1>2, <1>3 DEF ClientChain, ChainIsFor
  <2>. QED
    BY <1>6, <2>1 DEF ChainIsFor, ChainOut
<1>9. EstablishSaid(d)
  BY <1>1, <1>8 DEF Contents
<1>10. ASSUME NEW q \in 2..Len(fd), fd[q][1] = "establish" PROVE FALSE
  <2>1. PICK p \in Nat : p = n + 1
    BY <1>7
  <2>2. Len(fd) = p /\ \A i \in 1..p : fd[i] = d[i]
    BY <1>7, <2>1, UptoIs
  <2>3. PICK z : z = Len(d)
    OBVIOUS
  <2>4. q \in 2..z /\ q \in 1..p /\ n + 2 # q
    BY <1>7, <2>1, <2>2, <2>3
  <2>5. d[q][1] = "establish" /\ d[n + 2][1] = "establish"
    BY <1>7, <1>10, <2>2, <2>4
  <2>. QED
    BY <1>7, <1>9, <2>3, <2>4, <2>5 DEF EstablishSaid
<1>. QED
  BY <1>1, <1>6, <1>10 DEF Control

LEMMA HandleEstablishGood == ASSUME Good, HandleEstablish PROVE Good'
<1>1. /\ Shape /\ Building /\ ClientOut /\ ServiceWayOut /\ RelaysSaid /\ ClientHears /\ ClientBack
      /\ Bridged /\ ServiceBack /\ Control /\ Contents /\ Timely
  BY DEF Good
<1>2. ClientIs /\ ServiceIs /\ ClientChain /\ ServiceChain /\ BackIs /\ MeetBackIs
  BY GoodFacts DEF Facts
<1>3. PICK leg, c, hop, a, k :
        /\ leg = Point /\ c = Peel(leg).cell /\ hop = Absorbed(relays[leg].hop, c) /\ a = Established /\ k = Known
  OBVIOUS
<1>4. /\ CellArrives(forward, leg, "relay") /\ leg \in DOMAIN relays /\ forward[leg] # <<>>
      /\ IsRecognizedAt(Peel(leg), relays[leg].hop.fd) /\ c[1] = "establish" /\ held["clientReader"] = <<>>
      /\ cookie' = "held" /\ Holds("clientReader", Backward(hop, a), hop.bn)
      /\ relays' = [relays EXCEPT ![leg].hop = AfterBackward(hop, a)]
      /\ forward' = Off(forward, leg)
      /\ UNCHANGED <<origin, backward, bridged, ends, ghosts>>
  <2>1. Meet # Point
    BY LegIs, LegApart
  <2>. QED
    BY <1>3, <2>1 DEF HandleEstablish, ForUs, Comes, CellArrives, ReaderFree, ReaderOf, Free, Established
<1>5. /\ leg = LegTo(k) /\ k \in Nat /\ k >= 1 /\ k = PathLen /\ k \in 1..Known /\ leg \in Leg
      /\ \A j \in 1..Known : LegTo(j) \in Leg /\ j \in Int
  <2>1. Point = LegTo(PathLen) /\ PathLen \in Nat /\ Point \in Leg /\ Point # Meet
    BY LegIs, LegApart
  <2>2. PICK i \in 1..Known : leg = LegTo(i)
    BY <1>3, <1>4, <2>1, RelayLegs
  <2>3. Known \in Nat /\ Known <= PathLen /\ (\A j \in 1..Known : LegTo(j) \in Leg /\ j \in Int)
    BY <1>1, KnownIs
  <2>4. i \in Int /\ PathLen \in Int /\ LegTo(i) = LegTo(PathLen)
    BY <1>3, <2>1, <2>2, <2>3
  <2>5. i = PathLen
    BY <2>4, LegApart
  <2>6. Known = PathLen
    BY <2>1, <2>2, <2>3, <2>5
  <2>7. leg = LegTo(k) /\ k = PathLen
    BY <1>3, <2>1, <2>6
  <2>8. k \in Nat /\ k >= 1 /\ k \in 1..Known
    BY <1>3, <2>1, <2>2, <2>3, <2>5, <2>6
  <2>9. leg \in Leg
    BY <1>3, <2>1
  <2>. QED
    BY <2>3, <2>7, <2>8, <2>9
<1>6. cookie = "none" /\ ~bridged
  BY <1>1, <1>3, <1>4, <1>5, AskedOnce DEF RelayHop, Control
<1>7. IsHop(RelayHop(k)) /\ RelayHop(k).fk = FK(leg) /\ RelayHop(k).bk = BK(leg) /\ RelayHop(k) = relays[leg].hop
  BY <1>1, <1>4, <1>5, RelayIs DEF RelayHop
<1>8. HopAfter(RelayHop(k), hop, RelayHop(k).fn + 1, Append(RelayHop(k).fd, c), RelayHop(k).bn, RelayHop(k).bd)
  BY <1>3, <1>7, HopSteps
<1>9. PICK h : h = AfterBackward(hop, a)
  OBVIOUS
<1>10. HopAfter(RelayHop(k), h, RelayHop(k).fn + 1, Append(RelayHop(k).fd, c), RelayHop(k).bn + 1, Append(RelayHop(k).bd, a))
  <2>1. HopAfter(hop, h, hop.fn, hop.fd, hop.bn + 1, Append(hop.bd, a))
    BY <1>8, <1>9, HopSteps DEF HopAfter
  <2>. QED
    BY <1>8, <2>1 DEF HopAfter
<1>11. Backward(hop, a) = Backward(RelayHop(k), a)
  BY <1>8 DEF Backward, HopAfter
<1>12. Steps({leg}) /\ StagesStay /\ relays'[leg].hop = h
  <2>1. IsHop(h) /\ h.fk = FK(leg) /\ h.bk = BK(leg) /\ leg \in DOMAIN relays
    BY <1>4, <1>7, <1>10 DEF HopAfter
  <2>2. relays' = [relays EXCEPT ![leg].hop = h]
    BY <1>4, <1>9
  <2>. QED
    BY ONLY <1>1, <2>1, <2>2, StepsHop
<1>13. /\ RelayHop(k)'.fn = RelayHop(k).fn + 1 /\ RelayHop(k)'.fd = Append(RelayHop(k).fd, c)
       /\ RelayHop(k)'.bn = RelayHop(k).bn + 1 /\ RelayHop(k)'.bd = Append(RelayHop(k).bd, a)
  <2>1. RelayHop(k)' = h
    BY <1>5, <1>12 DEF RelayHop, LegTo
  <2>. QED
    BY <1>10, <2>1 DEF HopAfter
<1>14. /\ Meet # leg /\ Meet \in Leg /\ \A j \in 1..Known : j # k => LegTo(j) # leg
  BY <1>5, LegApart, LegIs
<1>15. Loses(forward, forward', leg)
  BY <1>1, <1>4, <1>5, OffIs DEF Shape
<1>16. ForwardTook(k)
  BY <1>5, <1>14, <1>15 DEF ForwardTook, Loses
<1>17. SameClient /\ SameService
  BY <1>4, SameEnds
<1>18. /\ \A j \in 1..Known : j # k => RelayHop(j)' = RelayHop(j)
       /\ Meet \in DOMAIN relays => MeetHop' = MeetHop
       /\ Len(ServiceEnd.hops) > 0 => MeetHop' = MeetHop
       /\ Meet \in DOMAIN relays' => Meet \in DOMAIN relays
  BY <1>5, <1>12, OthersStill
<1>19. /\ held' = [t \in OnionTask |-> held'[t]] /\ held'["fetch"] = held["fetch"] /\ held'["pump"] = held["pump"]
       /\ held'["serviceReader"] = held["serviceReader"]
       /\ held'["clientReader"] = <<[cell |-> Backward(RelayHop(k), a), turn |-> RelayHop(k).bn]>>
  <2>1. held = [t \in OnionTask |-> held[t]]
    BY <1>1 DEF Shape
  <2>2. PICK e : e = <<[cell |-> Backward(hop, a), turn |-> hop.bn]>>
    OBVIOUS
  <2>3. held' = [held EXCEPT !["clientReader"] = e]
    BY <1>4, <2>2 DEF Holds
  <2>4. e = <<[cell |-> Backward(RelayHop(k), a), turn |-> RelayHop(k).bn]>>
    BY <1>8, <1>11, <2>2 DEF HopAfter
  <2>5. "clientReader" \in OnionTask /\ "fetch" \in OnionTask /\ "pump" \in OnionTask /\ "serviceReader" \in OnionTask
    BY DEF OnionTask, FromClient, AtPoint
  <2>. QED
    BY <2>1, <2>3, <2>4, <2>5
<1>20. /\ TakenUp(ChainOut, Head(forward[LegTo(k)]), k, Passed(k), Peel(LegTo(k)), RelayHop(k))
       /\ Passed(k) < Sent /\ Sent \in Nat
  BY <1>1, <1>4, <1>5, TakeAt
<1>21. MineNow(ChainOut, Peel(LegTo(k)), k, Passed(k), RelayHop(k).fd)
  BY <1>4, <1>5, <1>7, <1>20 DEF TakenUp, NotMine
<1>22. /\ Passed(k) \in Nat /\ ChainOut[k].o \in Nat /\ Passed(k) - ChainOut[k].o = RelayHop(k).fn
       /\ Heard(ChainOut, k, RelayHop(k).fn + 1, Append(RelayHop(k).fd, c)) /\ RelayHop(k).fn \in Nat
  BY <1>3, <1>5, <1>20, <1>21 DEF TakenUp, MineNow
<1>23. Shape'
  <2>1. Tables'
    BY <1>1, <1>4, <1>15, <1>19 DEF Shape, Tables, Loses
  <2>. QED
    BY <1>1, <1>4, <1>12, <2>1, ShapeStays
<1>24. Building'
  <2>1. CircuitsStay
    BY <1>4 DEF CircuitsStay
  <2>2. TouchOnly({leg})
    BY <1>4, <1>15 DEF TouchOnly, Loses
  <2>3. Near({leg})
    <3>1. \A j \in 1..PathLen : j <= Known
      BY <1>3, <1>5
    <3>. QED
      BY <1>14, <3>1 DEF Near
  <2>. QED
    BY <1>1, <1>12, <2>1, <2>2, <2>3, BuildingStays
<1>25. ClientOut'
  <2>1. TakesAt(k)
    <3>1. \A j \in 1..Known : j # k => RelayHop(j)'.fn = RelayHop(j).fn /\ RelayHop(j)'.fd = RelayHop(j).fd
      BY <1>18
    <3>2. ~(k < Known)
      BY <1>3, <1>5
    <3>. QED
      BY <1>13, <1>16, <1>22, <3>1, <3>2 DEF TakesAt, ForwardTook
  <2>. QED
    BY <1>1, <1>4, <1>5, <1>17, <1>19, <2>1, ClientOutTakes
<1>26. ServiceWayOut'
  <2>1. MeetOutStill
    BY <1>16, <1>18 DEF MeetOutStill, ForwardTook
  <2>. QED
    BY <1>1, <1>2, <1>17, <2>1, ServiceWayOutStays
<1>27. Known' = Known /\ \A j \in 1..Known : j # k => j < Known
  <2>1. PICK n : n = Known
    OBVIOUS
  <2>2. n = k /\ k \in Nat
    BY <1>3, <1>5, <2>1
  <2>3. \A j \in 1..n : j # k => j < n
    BY ONLY <2>2
  <2>. QED
    BY <1>17, <2>1, <2>3 DEF SameClient
<1>28. /\ SaidAt(k) = <<BK(leg)>> /\ SaidAt(k)' = <<BK(leg), a>> /\ \A j \in 1..Known : j # k => SaidAt(j)' = SaidAt(j)
  <2>1. ~(k < Known) /\ ~(k < PathLen)
    BY <1>3, <1>5
  <2>2. SaidAt(k) = <<BK(leg)>>
    BY <1>5, <1>6, <2>1 DEF SaidAt
  <2>3. SaidAt(k)' = <<BK(leg), a>>
    BY <1>3, <1>4, <1>5, <1>27, <2>1 DEF SaidAt, BK, LegTo, Established
  <2>4. \A j \in 1..Known : j # k => SaidAt(j)' = SaidAt(j)
    BY <1>27 DEF SaidAt, BK, LegTo, Extended2, Auth
  <2>. QED
    BY <2>2, <2>3, <2>4
<1>29. RelaysSaid'
  <2>1. RelayHop(k).bd = <<BK(leg)>> /\ RelayHop(k).bn + 1 = Len(RelayHop(k).bd)
    BY <1>1, <1>3, <1>5, <1>6, <1>28 DEF RelaysSaid
  <2>2. \A u : Append(<<u>>, a) = <<u, a>> /\ Len(<<u>>) = 1 /\ Len(<<u, a>>) = 2
    <3>1. ASSUME NEW u PROVE Append(<<u>>, a) = <<u, a>> /\ Len(<<u>>) = 1 /\ Len(<<u, a>>) = 2
      BY OneIs, TwoIs, Append1
    <3>. QED
      BY <3>1
  <2>3. RelayHop(k)'.bd = <<BK(leg), a>> /\ Len(RelayHop(k)'.bd) = 2 /\ RelayHop(k).bn + 1 = 1
    BY <1>13, <2>1, <2>2
  <2>4. RelayHop(k).bn \in Nat
    BY <1>7 DEF IsHop
  <2>5. RelayHop(k)'.bn + 1 = Len(RelayHop(k)'.bd)
    BY <1>13, <2>3, <2>4
  <2>6. \A j \in 1..Known : RelayHop(j)'.bd = SaidAt(j)'
    BY <1>1, <1>18, <1>28, <2>3 DEF RelaysSaid
  <2>7. RelayHop(Known)' = RelayHop(k)'
    BY <1>3, <1>27, AtKnown
  <2>. QED
    BY <1>4, <1>27, <2>5, <2>6, <2>7 DEF RelaysSaid, RelayHop, LegTo
<1>30. Control'
  <2>1. PointEstablished'
    <3>1. PICK s : s = RelayHop(k).fd
      OBVIOUS
    <3>2. IsSeq(s)
      BY <1>7, <3>1 DEF IsHop
    <3>3. Len(s) \in Nat /\ Len(s) >= 1
      <4>2. s = Upto(ChainOut[k].d, RelayHop(k).fn + 1)
        BY <1>21, <1>22, <3>1 DEF MineNow
      <4>3. PICK n \in Nat : n = RelayHop(k).fn + 1
        BY <1>22
      <4>4. Len(s) = n /\ n >= 1
        BY <1>22, <4>2, <4>3, UptoIs
      <4>. QED
        BY <4>4
    <3>4. Len(Append(s, c)) = Len(s) + 1 /\ Append(s, c)[Len(s) + 1] = c
      BY <3>2, AppendIs
    <3>5. PICK q : q = Len(s) + 1
      OBVIOUS
    <3>6. q \in 2..Len(RelayHop(k)'.fd) /\ RelayHop(k)'.fd[q][1] = "establish"
      BY <1>4, <1>13, <3>1, <3>3, <3>4, <3>5
    <3>7. RelayHop(PathLen)' = RelayHop(k)'
      BY <1>5 DEF RelayHop, LegTo
    <3>. QED
      BY <3>6, <3>7 DEF PointEstablished, RelayHop, LegTo
  <2>2. /\ ClientEnd' = ClientEnd /\ ServiceEnd' = ServiceEnd /\ Known' = Known /\ Read' = Read /\ Known = PathLen
    BY <1>3, <1>5, <1>17 DEF SameClient, SameService
  <2>3. UNCHANGED <<fetching, meeting, intro, rendezvousing, bridged>> /\ cookie' = "held"
    BY <1>4 DEF ends
  <2>4. ~(ServiceEnd.e2e # <<>> /\ ServiceEnd.e2e[1].fn > 0)
    BY <1>1, <1>6 DEF Control
  <2>. QED
    BY <1>1, <1>6, <2>1, <2>2, <2>3, <2>4 DEF Control, PointEstablished, Meeting
<1>31. BackIs'
  BY <1>23, <1>29, <1>26, <1>30, EndsAreNext, BackChainNext
<1>32. PICK b : b = BackTurn(ChainBack, Read, Relayed, Known)
  OBVIOUS
<1>33. /\ ClientHears' /\ Grows(ChainBack, ChainBack', b) /\ CellOK(ChainBack', Backward(RelayHop(k), a), k, b)
       /\ ChainOK(ChainBack')
  <2>1. Known > 0 /\ cookie # "used"
    BY <1>3, <1>5, <1>6
  <2>2. \A j \in 1..Known : j # k => RelayHop(j)'.bd = RelayHop(j).bd
    BY <1>18
  <2>3. RelayHop(k)'.bd = Append(RelayHop(k).bd, a) /\ k = Known
    BY <1>3, <1>13
  <2>. QED
    BY ONLY Good, <1>17, <1>31, <1>32, <2>1, <2>2, <2>3, SaysMore
<1>34. ClientBack'
  <2>1. PICK G, H, w, y, R, Q, R2, P, t :
          /\ G = ChainBack /\ H = ChainBack' /\ w = Read /\ y = held["serviceReader"] /\ R = Relayed /\ Q = BackQueues
          /\ R2 = Relayed' /\ P = Backward(RelayHop(k), a) /\ t = RelayHop(k).bn
    OBVIOUS
  <2>2. \A j \in 1..k : R[j] = RelayHop(j) /\ R2[j] = RelayHop(j)'
    BY <1>3, <1>27, <2>1, RelayedIs
  <2>3. /\ ChainOK(G) /\ ChainOK(H) /\ k \in Nat /\ k >= 1 /\ k <= Len(G) /\ b = BackTurn(G, w, R, k) /\ Grows(G, H, b)
        /\ G[k].o = k - 1 /\ BackLine(G, k, w, <<>>, y, R, Q) /\ CellOK(H, P, k, b) /\ t = R[k].bn
    <3>1. ChainOK(G) /\ k <= Len(G) /\ G[k].o = k - 1
      BY <1>2, <1>3, <1>5, <2>1 DEF BackIs
    <3>2. Known > 0 /\ Known = k
      BY <1>3, <1>5
    <3>3. BackLine(G, k, w, <<>>, y, R, Q)
      BY <1>1, <1>4, <2>1, <3>2 DEF ClientBack
    <3>4. k \in 1..k
      BY <1>5
    <3>5. t = R[k].bn
      BY <2>1, <2>2, <3>4
    <3>6. b = BackTurn(G, w, R, k)
      BY <1>32, <2>1, <3>2
    <3>7. ChainOK(H) /\ Grows(G, H, b) /\ CellOK(H, P, k, b)
      BY <1>33, <2>1
    <3>. QED
      BY <1>5, <3>1, <3>3, <3>5, <3>6, <3>7
  <2>4. \A j \in 1..k : R2[j].bn = IF j = k THEN R[j].bn + 1 ELSE R[j].bn
    BY <1>3, <1>13, <1>18, <2>2
  <2>5. BackLine(H, k, w, <<[cell |-> P, turn |-> t]>>, y, R2, Q)
    BY ONLY <2>3, <2>4, BackLineHold
  <2>6. Known' = k /\ Read' = w /\ BackQueues' = Q
    BY <1>3, <1>4, <1>17, <2>1 DEF SameClient, BackQueues, LegTo
  <2>7. ~(Known' < PathLen)
    BY <1>5, <2>6
  <2>. QED
    BY <1>19, <2>1, <2>5, <2>6, <2>7 DEF ClientBack
<1>35. Bridged'
  <2>1. k # PathLen /\ ClientEnd.e2e # <<>> => RelayHop(PathLen)'.fn = RelayHop(PathLen).fn
    BY <1>5
  <2>2. Meet \in DOMAIN relays' => Meet \in DOMAIN relays /\ MeetHop'.bn = MeetHop.bn
    BY <1>18
  <2>3. RelayHop(k)'.fn = RelayHop(k).fn + 1 /\ k \in 1..Known
    BY <1>5, <1>13
  <2>. QED
    BY <1>1, <1>17, <1>21, <1>22, <2>1, <2>2, <2>3, BridgedMine
<1>36. ServiceBack'
  <2>1. MeetBackStill
    BY <1>4, <1>18 DEF MeetBackStill
  <2>2. MeetBack' = MeetBack /\ Len(ServiceEnd.hops)' = Len(ServiceEnd.hops) /\ ServiceLayers' = ServiceLayers
    BY <1>17 DEF SameClient, SameService
  <2>3. Len(ServiceEnd.hops) > 0 => ServiceLayers'[1].bn = ServiceLayers[1].bn
    BY <2>2
  <2>. QED
    BY <1>1, <1>2, <2>1, <2>2, <2>3, ServiceBackStays
<1>37. Contents' /\ Timely'
  <2>1. UNCHANGED ends0 /\ UNCHANGED ghosts
    BY <1>4 DEF ends, ends0
  <2>. QED
    BY <1>1, <1>17, <2>1, ContentsStays, TimelyStays DEF SameClient, SameService
<1>. QED
  BY <1>23, <1>24, <1>25, <1>26, <1>29, <1>30, <1>33, <1>34, <1>35, <1>36, <1>37 DEF Good

LEMMA ThreeIs == ASSUME NEW u, NEW v, NEW c PROVE Append(<<u, v>>, c) = <<u, v, c>> /\ Len(<<u, v, c>>) = 3
<1>1. <<u, v>> \in Seq({u, v, c}) /\ <<u, v, c>> \in Seq({u, v, c}) /\ Len(<<u, v, c>>) = 3
  OBVIOUS
<1>2. PICK a, b : a = Append(<<u, v>>, c) /\ b = <<u, v, c>>
  OBVIOUS
<1>3. IsSeq(a) /\ IsSeq(b) /\ Len(a) = 3 /\ a[1] = u /\ a[2] = v /\ a[3] = c
  <2>1. IsSeq(<<u, v>>) /\ Len(<<u, v>>) = 2 /\ <<u, v>>[1] = u /\ <<u, v>>[2] = v
    BY TwoIs
  <2>2. PICK q : q = <<u, v>>
    OBVIOUS
  <2>3. IsSeq(q) /\ Len(q) = 2 /\ q[1] = u /\ q[2] = v /\ a = Append(q, c)
    BY <1>2, <2>1, <2>2
  <2>4. /\ IsSeq(Append(q, c)) /\ Len(Append(q, c)) = Len(q) + 1 /\ Append(q, c)[Len(q) + 1] = c
        /\ \A i \in 1..Len(q) : Append(q, c)[i] = q[i]
    <3>1. IsSeq(q)
      BY <2>3
    <3>. QED
      BY ONLY <3>1, AppendIs
  <2>5. Len(q) + 1 = 3 /\ 1 \in 1..Len(q) /\ 2 \in 1..Len(q)
    BY <2>3
  <2>6. IsSeq(a) /\ Len(a) = 3 /\ a[1] = u /\ a[2] = v /\ a[3] = c
    BY ONLY <2>3, <2>4, <2>5
  <2>7. IsSeq(b)
    BY <1>1, <1>2, SeqIs
  <2>. QED
    BY <2>6, <2>7
<1>4. Len(b) = 3 /\ b[1] = u /\ b[2] = v /\ b[3] = c
  BY <1>2
<1>5. \A i \in 1..Len(a) : a[i] = b[i]
  BY <1>3, <1>4
<1>. QED
  BY <1>1, <1>2, <1>3, <1>4, <1>5, SeqEq

\* RENDEZVOUS1 at a point that has no such cookie.
LEMMA RendezvousNone ==
  ASSUME Good, Len(ServiceEnd.hops) = 1, forward[Meet] # <<>>, IsRecognizedAt(Peel(Meet), MeetHop.fd), cookie = "none",
         NEW c, c = Peel(Meet).cell, relays' = [relays EXCEPT ![Meet].hop = Absorbed(@, c)],
         forward' = Off(forward, Meet), UNCHANGED <<origin, backward, held, tables, ends, ghosts>>
  PROVE  Good'
<1>1. /\ Shape /\ Building /\ ClientOut /\ ServiceWayOut /\ RelaysSaid /\ ClientHears /\ ClientBack
      /\ Bridged /\ ServiceBack /\ Control /\ Contents /\ Timely
  BY DEF Good
<1>2. ClientIs /\ ServiceIs /\ ClientChain /\ ServiceChain /\ BackIs /\ MeetBackIs
  BY GoodFacts DEF Facts
<1>3. Meet \in DOMAIN relays /\ Meet \in Leg /\ \A j \in 1..Known : LegTo(j) \in Leg /\ j \in Int /\ LegTo(j) # Meet
  BY <1>1, KnownIs, LegApart
<1>4. IsHop(MeetHop) /\ MeetHop.fk = FK(Meet) /\ MeetHop.bk = BK(Meet)
  BY <1>1, <1>3, RelayIs DEF MeetHop
<1>5. PICK h : h = Absorbed(MeetHop, c)
  OBVIOUS
<1>6. HopAfter(MeetHop, h, MeetHop.fn + 1, Append(MeetHop.fd, c), MeetHop.bn, MeetHop.bd)
  BY <1>4, <1>5, HopSteps
<1>7. /\ Steps({Meet}) /\ StagesStay /\ relays'[Meet].hop = h
      /\ \A l \in DOMAIN relays : l # Meet => relays'[l] = relays[l]
  <2>1. IsHop(h) /\ h.fk = FK(Meet) /\ h.bk = BK(Meet)
    BY <1>4, <1>6 DEF HopAfter
  <2>2. relays' = [relays EXCEPT ![Meet].hop = h]
    BY <1>5 DEF MeetHop
  <2>. QED
    BY ONLY <1>1, <1>3, <2>1, <2>2, StepsHop
<1>8. /\ MeetHop'.fn = MeetHop.fn + 1 /\ MeetHop'.fd = Append(MeetHop.fd, c) /\ MeetHop'.bn = MeetHop.bn
      /\ \A j \in 1..Known : RelayHop(j)' = RelayHop(j)
      /\ DOMAIN relays' = DOMAIN relays
  <2>1. MeetHop' = h
    BY <1>7 DEF MeetHop, Meet
  <2>2. \A j \in 1..Known : LegTo(j) \in DOMAIN relays
    BY <1>1, KnownIs
  <2>3. \A j \in 1..Known : RelayHop(j)' = RelayHop(j)
    BY <1>3, <1>7, <2>2 DEF RelayHop, LegTo
  <2>. QED
    BY <1>6, <1>7, <2>1, <2>3 DEF HopAfter, Steps
<1>9. SameClient /\ SameService
  BY SameEnds
<1>10. Loses(forward, forward', Meet)
  BY <1>1, <1>3, OffIs DEF Shape
<1>11. /\ MeetHop.fn = 0 /\ MineNow(ServiceOut, Peel(Meet), 1, MeetHop.fn, MeetHop.fd) /\ ServiceOut[1].o = 0
  BY <1>1, MeetSays, TakeMeet
<1>12. Shape'
  <2>1. Tables'
    BY <1>1, <1>10 DEF Shape, Tables, Loses
  <2>. QED
    BY <1>1, <1>7, <2>1, ShapeStays
<1>13. Building'
  <2>1. CircuitsStay
    BY DEF CircuitsStay
  <2>2. TouchOnly({Meet})
    BY <1>10 DEF TouchOnly, Loses
  <2>3. Near({Meet})
    <3>1. \A j \in 1..PathLen : LegTo(j) # Meet
      BY LegApart, LegIs
    <3>. QED
      BY <3>1 DEF Near
  <2>. QED
    BY <1>1, <1>7, <2>1, <2>2, <2>3, BuildingStays
<1>14. ClientOut'
  <2>1. OutHopsStill
    BY <1>3, <1>8, <1>10 DEF OutHopsStill, Loses
  <2>. QED
    BY <1>1, <1>2, <1>9, <2>1, ClientOutStays
<1>15. ServiceWayOut'
  <2>1. Heard(ServiceOut, 1, MeetHop.fn + 1, MeetHop'.fd)
    <3>1. MeetHop.fn \in Nat /\ MeetHop.fn - ServiceOut[1].o + 1 = MeetHop.fn + 1
      BY <1>11
    <3>. QED
      BY <1>8, <1>11, <3>1 DEF MineNow
  <2>. QED
    BY <1>1, <1>8, <1>9, <1>10, <2>1, ServiceOutTakes DEF Loses
<1>16. SaidStill /\ ChainBack' = ChainBack /\ Known' = Known /\ ServiceEnd' = ServiceEnd
  <2>1. SaidStill /\ Known' = Known /\ ServiceEnd' = ServiceEnd
    BY <1>8, <1>9 DEF SaidStill, SameClient, SameService
  <2>. QED
    BY <2>1, ChainBackStays
<1>17. RelaysSaid'
  <2>1. Known > 0 => RelayHop(Known)'.bn = RelayHop(Known).bn
    <3>1. PICK k : k = Known
      OBVIOUS
    <3>2. Known > 0 => k \in 1..Known
      BY <1>1, <3>1, KnownIs
    <3>. QED
      BY <1>8, <1>16, <3>1, <3>2, AtKnown
  <2>2. cookie' = cookie /\ cookie # "used"
    BY DEF tables
  <2>. QED
    BY <1>1, <1>2, <1>7, <1>16, <2>1, <2>2, RelaysSaidStays
<1>18. ClientHears'
  BY <1>1, <1>9, <1>16, ClientHearsStays DEF SameClient
<1>19. ClientBack'
  <2>1. BackHopsStill
    BY <1>8 DEF BackHopsStill, LegTo
  <2>. QED
    BY <1>1, <1>2, <1>9, <1>16, <2>1, ClientBackStays DEF SameClient
<1>20. Bridged'
  <2>1. Meet \in DOMAIN relays' => Meet \in DOMAIN relays /\ MeetHop'.bn = MeetHop.bn
    BY <1>8
  <2>2. ClientEnd.e2e # <<>> => RelayHop(PathLen)'.fn = RelayHop(PathLen).fn
    BY E2EUsed
  <2>. QED
    BY <1>1, <1>9, <2>1, <2>2, BridgedStays
<1>21. ServiceBack'
  <2>1. MeetBackStill
    BY <1>8 DEF MeetBackStill, Meet
  <2>2. MeetBack' = MeetBack /\ Len(ServiceEnd.hops)' = Len(ServiceEnd.hops) /\ ServiceLayers' = ServiceLayers
    BY <1>9 DEF SameClient, SameService
  <2>3. Len(ServiceEnd.hops) > 0 => ServiceLayers'[1].bn = ServiceLayers[1].bn
    BY <2>2
  <2>. QED
    BY <1>1, <1>2, <2>1, <2>2, <2>3, ServiceBackStays
<1>22. UNCHANGED ends0 /\ UNCHANGED ghosts /\ UNCHANGED tables
  BY DEF ends, ends0
<1>23. Control'
  BY <1>1, <1>9, <1>22, ControlStays
<1>24. Contents' /\ Timely'
  BY <1>1, <1>9, <1>22, ContentsStays, TimelyStays DEF SameClient, SameService
<1>. QED
  BY <1>12, <1>13, <1>14, <1>15, <1>17, <1>18, <1>19, <1>20, <1>21, <1>23, <1>24 DEF Good

\* RENDEZVOUS1 at a point that holds its cookie.
LEMMA RendezvousHeld ==
  ASSUME Good, Len(ServiceEnd.hops) = 1, forward[Meet] # <<>>, IsRecognizedAt(Peel(Meet), MeetHop.fd), cookie = "held",
         held["serviceReader"] = <<>>, Meet \in DOMAIN relays, cookie' = "used" /\ bridged' = TRUE,
         NEW c, c = Peel(Meet).cell, NEW k, k = Known, k = PathLen, NEW a, a = Rendezvous2,
         Holds("serviceReader", Backward(RelayHop(k), a), RelayHop(k).bn),
         relays' = [relays EXCEPT ![Meet].hop = Absorbed(@, c), ![LegTo(k)].hop = AfterBackward(@, a)],
         forward' = Off(forward, Meet), UNCHANGED <<origin, backward, ends, ghosts>>
  PROVE  Good'
<1>1. /\ Shape /\ Building /\ ClientOut /\ ServiceWayOut /\ RelaysSaid /\ ClientHears /\ ClientBack
      /\ Bridged /\ ServiceBack /\ Control /\ Contents /\ Timely
  BY DEF Good
<1>2. ClientIs /\ ServiceIs /\ ClientChain /\ ServiceChain /\ BackIs /\ MeetBackIs
  BY GoodFacts DEF Facts
<1>3. /\ Meet \in DOMAIN relays /\ Meet \in Leg /\ \A j \in 1..Known : LegTo(j) \in Leg /\ j \in Int /\ LegTo(j) # Meet
      /\ k \in Nat /\ k >= 1 /\ k \in 1..Known /\ LegTo(k) \in DOMAIN relays
  BY <1>1, KnownIs, LegApart
<1>4. /\ IsHop(MeetHop) /\ MeetHop.fk = FK(Meet) /\ MeetHop.bk = BK(Meet)
      /\ IsHop(RelayHop(k)) /\ RelayHop(k).fk = FK(LegTo(k)) /\ RelayHop(k).bk = BK(LegTo(k))
  BY <1>1, <1>3, RelayIs DEF MeetHop, RelayHop
<1>5. PICK g, h, leg : g = Absorbed(MeetHop, c) /\ h = AfterBackward(RelayHop(k), a) /\ leg = LegTo(k)
  OBVIOUS
<1>6. HopAfter(MeetHop, g, MeetHop.fn + 1, Append(MeetHop.fd, c), MeetHop.bn, MeetHop.bd)
  BY <1>4, <1>5, HopSteps
<1>7. HopAfter(RelayHop(k), h, RelayHop(k).fn, RelayHop(k).fd, RelayHop(k).bn + 1, Append(RelayHop(k).bd, a))
  BY <1>4, <1>5, HopSteps
<1>8. /\ Steps({Meet, leg}) /\ StagesStay /\ relays'[Meet].hop = g /\ relays'[leg].hop = h
      /\ \A l \in DOMAIN relays : l # Meet /\ l # leg => relays'[l] = relays[l]
  <2>1. IsHop(g) /\ g.fk = FK(Meet) /\ g.bk = BK(Meet) /\ IsHop(h) /\ h.fk = FK(leg) /\ h.bk = BK(leg)
    BY <1>4, <1>5, <1>6, <1>7 DEF HopAfter
  <2>2. Meet # leg /\ leg \in DOMAIN relays
    BY <1>3, <1>5
  <2>3. relays' = [relays EXCEPT ![Meet].hop = g, ![leg].hop = h]
    BY <1>5, <2>2 DEF MeetHop, RelayHop
  <2>. QED
    BY ONLY <1>1, <1>3, <2>1, <2>2, <2>3, StepsTwo
<1>9. /\ MeetHop'.fn = MeetHop.fn + 1 /\ MeetHop'.fd = Append(MeetHop.fd, c) /\ MeetHop'.bn = MeetHop.bn
      /\ RelayHop(k)'.fn = RelayHop(k).fn /\ RelayHop(k)'.fd = RelayHop(k).fd
      /\ RelayHop(k)'.bn = RelayHop(k).bn + 1 /\ RelayHop(k)'.bd = Append(RelayHop(k).bd, a)
      /\ \A j \in 1..Known : j # k => RelayHop(j)' = RelayHop(j)
      /\ DOMAIN relays' = DOMAIN relays
  <2>1. MeetHop' = g /\ RelayHop(k)' = h
    BY <1>5, <1>8 DEF MeetHop, Meet, RelayHop, LegTo
  <2>2. \A j \in 1..Known : LegTo(j) \in DOMAIN relays
    BY <1>1, KnownIs
  <2>3. \A j \in 1..Known : j # k => LegTo(j) # leg
    BY <1>3, <1>5, LegApart
  <2>4. \A j \in 1..Known : j # k => RelayHop(j)' = RelayHop(j)
    BY <1>3, <1>8, <2>2, <2>3 DEF RelayHop, LegTo
  <2>. QED
    BY <1>6, <1>7, <1>8, <2>1, <2>4 DEF HopAfter, Steps
<1>10. SameClient /\ SameService
  BY SameEnds
<1>11. Loses(forward, forward', Meet)
  BY <1>1, <1>3, OffIs DEF Shape
<1>12. /\ MeetHop.fn = 0 /\ MineNow(ServiceOut, Peel(Meet), 1, MeetHop.fn, MeetHop.fd) /\ ServiceOut[1].o = 0
  BY <1>1, MeetSays, TakeMeet
<1>13. ClientEnd.e2e = <<>>
  BY E2EUsed
<1>14. /\ held' = [t \in OnionTask |-> held'[t]] /\ held'["fetch"] = held["fetch"] /\ held'["pump"] = held["pump"]
       /\ held'["clientReader"] = held["clientReader"]
       /\ held'["serviceReader"] = <<[cell |-> Backward(RelayHop(k), a), turn |-> RelayHop(k).bn]>>
  <2>1. held = [t \in OnionTask |-> held[t]]
    BY <1>1 DEF Shape
  <2>2. PICK e : e = <<[cell |-> Backward(RelayHop(k), a), turn |-> RelayHop(k).bn]>>
    OBVIOUS
  <2>3. held' = [held EXCEPT !["serviceReader"] = e]
    BY <2>2 DEF Holds
  <2>4. "clientReader" \in OnionTask /\ "fetch" \in OnionTask /\ "pump" \in OnionTask /\ "serviceReader" \in OnionTask
    BY DEF OnionTask, FromClient, AtPoint
  <2>. QED
    BY <2>1, <2>2, <2>3, <2>4
<1>15. Shape'
  <2>1. Tables'
    BY <1>1, <1>11, <1>14 DEF Shape, Tables, Loses
  <2>. QED
    BY <1>1, <1>8, <2>1, ShapeStays
<1>16. Building'
  <2>1. CircuitsStay
    BY DEF CircuitsStay
  <2>2. TouchOnly({Meet, leg})
    BY <1>11 DEF TouchOnly, Loses
  <2>3. Near({Meet, leg})
    BY DEF Near
  <2>. QED
    BY <1>1, <1>8, <2>1, <2>2, <2>3, BuildingStays
<1>17. ClientOut'
  <2>1. OutHopsStill
    BY <1>3, <1>9, <1>11 DEF OutHopsStill, Loses
  <2>. QED
    BY <1>1, <1>2, <1>10, <1>14, <2>1, ClientOutStays
<1>18. ServiceWayOut'
  <2>1. Heard(ServiceOut, 1, MeetHop.fn + 1, MeetHop'.fd)
    <3>1. MeetHop.fn \in Nat /\ MeetHop.fn - ServiceOut[1].o + 1 = MeetHop.fn + 1
      BY <1>12
    <3>. QED
      BY <1>9, <1>12, <3>1 DEF MineNow
  <2>. QED
    BY <1>1, <1>9, <1>10, <1>11, <2>1, ServiceOutTakes DEF Loses
<1>19. Known' = Known /\ Known' = k /\ Read' = Read /\ \A j \in 1..Known : j # k => j < Known
  <2>1. \A j \in 1..k : j # k => j < k
    BY ONLY <1>3
  <2>. QED
    BY <1>10, <2>1 DEF SameClient
<1>20. /\ SaidAt(k) = <<BK(leg), Established>> /\ SaidAt(k)' = <<BK(leg), Established, a>>
       /\ \A j \in 1..Known : j # k => SaidAt(j)' = SaidAt(j)
  <2>1. ~(k < Known) /\ ~(k < PathLen)
    BY <1>3
  <2>2. SaidAt(k) = <<BK(leg), Established>>
    BY <1>5, <2>1 DEF SaidAt
  <2>3. SaidAt(k)' = <<BK(leg), Established, a>>
    <3>1. ~(k < Known') /\ cookie' = "used" /\ ~(k < PathLen)
      BY <1>19, <2>1
    <3>. QED
      BY <1>5, <3>1 DEF SaidAt, BK, LegTo, Established, Rendezvous2, Auth
  <2>4. \A j \in 1..Known : j # k => SaidAt(j)' = SaidAt(j)
    BY <1>19 DEF SaidAt, BK, LegTo, Extended2, Auth
  <2>. QED
    BY <2>2, <2>3, <2>4
<1>21. RelaysSaid'
  <2>1. RelayHop(k).bd = <<BK(leg), Established>> /\ RelayHop(k).bn + 1 = Len(RelayHop(k).bd) /\ RelayHop(k).bn \in Nat
    <3>1. RelayHop(k).bd = SaidAt(k) /\ RelayHop(k).bn + 1 = Len(RelayHop(k).bd)
      BY <1>1, <1>3 DEF RelaysSaid
    <3>. QED
      BY <1>4, <1>20, <3>1 DEF IsHop
  <2>2. PICK q, r, s : q = <<BK(leg), Established>> /\ r = <<BK(leg), Established, a>> /\ s = RelayHop(k).bn
    OBVIOUS
  <2>3. Append(q, a) = r /\ Len(q) = 2
    BY <2>2, ThreeIs, TwoIs
  <2>4. RelayHop(k)'.bd = SaidAt(k)' /\ RelayHop(k)'.bn = 2
    <3>1. s + 1 = 2 /\ s \in Nat
      BY <2>1, <2>2, <2>3
    <3>2. s = 1
      BY ONLY <3>1
    <3>. QED
      BY <1>9, <1>20, <2>1, <2>2, <2>3, <3>2
  <2>5. MeetHop'.fn = 1
    BY <1>9, <1>12
  <2>6. \A j \in 1..Known : RelayHop(j)'.bd = SaidAt(j)'
    BY <1>1, <1>9, <1>20, <2>4 DEF RelaysSaid
  <2>7. RelayHop(Known)' = RelayHop(k)'
    BY <1>19, AtKnown
  <2>8. RelayHop(Known)'.bn + 1 = MeetHop'.fn + 2
    BY <2>4, <2>5, <2>7
  <2>9. PICK n : n = Known
    OBVIOUS
  <2>10. \A j \in 1..Known' : RelayHop(j)'.bd = SaidAt(j)'
    BY <1>19, <2>6
  <2>. QED
    <3>1. Known' > 0 => RelayHop(Known)'.bn + 1 = IF cookie' = "used" THEN MeetHop'.fn + 2 ELSE Len(RelayHop(Known)'.bd)
      BY <2>8
    <3>. QED
      BY <2>10, <3>1 DEF RelaysSaid
<1>22. Control'
  <2>1. PointEstablished'
    <3>1. PointEstablished
      BY <1>1 DEF Control, PointEstablished
    <3>2. RelayHop(PathLen)'.fd = RelayHop(PathLen).fd /\ IsSeq(RelayHop(PathLen).fd)
      BY <1>4, <1>9 DEF RelayHop, LegTo, IsHop
    <3>. QED
      BY <3>1, <3>2, EstablishedStays
  <2>2. /\ ClientEnd' = ClientEnd /\ ServiceEnd' = ServiceEnd /\ Known' = Known /\ Read' = Read /\ Known = PathLen
    BY <1>10 DEF SameClient, SameService
  <2>3. UNCHANGED <<fetching, meeting, intro, rendezvousing>> /\ cookie' = "used" /\ bridged' = TRUE
    BY DEF ends
  <2>4. MeetHop'.fn > 0
    BY <1>9, <1>12
  <2>. QED
    BY <1>1, <2>1, <2>2, <2>3, <2>4 DEF Control, PointEstablished, Meeting
<1>23. BackIs'
  BY <1>15, <1>21, <1>18, <1>22, EndsAreNext, BackChainNext
<1>24. PICK b : b = BackTurn(ChainBack, Read, Relayed, Known)
  OBVIOUS
<1>25. /\ ClientHears' /\ Grows(ChainBack, ChainBack', b) /\ CellOK(ChainBack', Backward(RelayHop(k), a), k, b)
       /\ ChainOK(ChainBack')
  <2>1. Known > 0 /\ cookie # "used"
    BY <1>3
  <2>2. \A j \in 1..Known : j # k => RelayHop(j)'.bd = RelayHop(j).bd
    BY <1>9
  <2>3. RelayHop(k)'.bd = Append(RelayHop(k).bd, a) /\ k = Known
    BY <1>9
  <2>. QED
    BY ONLY Good, <1>10, <1>23, <1>24, <2>1, <2>2, <2>3, SaysMore
<1>26. ClientBack'
  <2>1. PICK G, H, w, x, R, Q, R2, P, t :
          /\ G = ChainBack /\ H = ChainBack' /\ w = Read /\ x = held["clientReader"] /\ R = Relayed /\ Q = BackQueues
          /\ R2 = Relayed' /\ P = Backward(RelayHop(k), a) /\ t = RelayHop(k).bn
    OBVIOUS
  <2>2. \A j \in 1..k : R[j] = RelayHop(j) /\ R2[j] = RelayHop(j)'
    BY <1>3, <1>19, <2>1, RelayedIs
  <2>3. /\ ChainOK(G) /\ ChainOK(H) /\ k \in Nat /\ k >= 1 /\ k <= Len(G) /\ b = BackTurn(G, w, R, k) /\ Grows(G, H, b)
        /\ G[k].o = k - 1 /\ BackLine(G, k, w, x, <<>>, R, Q) /\ CellOK(H, P, k, b) /\ t = R[k].bn
    <3>1. ChainOK(G) /\ k <= Len(G) /\ G[k].o = k - 1
      BY <1>2, <1>3, <2>1 DEF BackIs
    <3>2. Known > 0 /\ Known = k
      BY <1>3
    <3>3. BackLine(G, k, w, x, <<>>, R, Q)
      BY <1>1, <2>1, <3>2 DEF ClientBack
    <3>4. k \in 1..k
      BY <1>3
    <3>5. t = R[k].bn
      BY <2>1, <2>2, <3>4
    <3>6. b = BackTurn(G, w, R, k)
      BY <1>24, <2>1, <3>2
    <3>7. ChainOK(H) /\ Grows(G, H, b) /\ CellOK(H, P, k, b)
      BY <1>25, <2>1
    <3>. QED
      BY <1>3, <3>1, <3>3, <3>5, <3>6, <3>7
  <2>4. \A j \in 1..k : R2[j].bn = IF j = k THEN R[j].bn + 1 ELSE R[j].bn
    BY <1>3, <1>9, <2>2
  <2>5. BackLine(G, k, w, <<>>, x, R, Q)
    BY ONLY <2>3, BackLineSwap
  <2>6. BackLine(H, k, w, <<[cell |-> P, turn |-> t]>>, x, R2, Q)
    BY ONLY <2>3, <2>4, <2>5, BackLineHold
  <2>7. k <= Len(H)
    BY <1>19, <1>23, <2>1 DEF BackIs
  <2>8. PICK e : e = <<[cell |-> P, turn |-> t]>>
    OBVIOUS
  <2>9. BackLine(H, k, w, e, x, R2, Q)
    BY <2>6, <2>8
  <2>10. BackLine(H, k, w, x, e, R2, Q)
    BY ONLY <2>3, <2>7, <2>9, BackLineSwap
  <2>11. Known' = k /\ Read' = w /\ BackQueues' = Q
    BY <1>19, <2>1 DEF BackQueues, LegTo
  <2>12. ~(Known' < PathLen)
    BY <1>3, <2>11
  <2>. QED
    BY <1>14, <2>1, <2>8, <2>10, <2>11, <2>12 DEF ClientBack
<1>27. Bridged'
  <2>1. Meet \in DOMAIN relays' => Meet \in DOMAIN relays /\ MeetHop'.bn = MeetHop.bn
    BY <1>9
  <2>. QED
    BY <1>1, <1>10, <1>13, <2>1, BridgedStays
<1>28. ServiceBack'
  <2>1. MeetBackStill
    BY <1>9 DEF MeetBackStill, Meet
  <2>2. MeetBack' = MeetBack /\ Len(ServiceEnd.hops)' = Len(ServiceEnd.hops) /\ ServiceLayers' = ServiceLayers
    BY <1>10 DEF SameClient, SameService
  <2>3. Len(ServiceEnd.hops) > 0 => ServiceLayers'[1].bn = ServiceLayers[1].bn
    BY <2>2
  <2>. QED
    BY <1>1, <1>2, <2>1, <2>2, <2>3, ServiceBackStays
<1>29. Contents' /\ Timely'
  <2>1. UNCHANGED ends0 /\ UNCHANGED ghosts
    BY DEF ends, ends0
  <2>. QED
    BY <1>1, <1>10, <2>1, ContentsStays, TimelyStays DEF SameClient, SameService
<1>. QED
  BY <1>15, <1>16, <1>17, <1>18, <1>21, <1>22, <1>25, <1>26, <1>27, <1>28, <1>29 DEF Good

LEMMA HandleRendezvous1Good == ASSUME Good, HandleRendezvous1 PROVE Good'
<1>1. PICK c, k, a : c = Peel(Meet).cell /\ k = Known /\ a = <<"rendezvous2", c[2], c[3]>>
  OBVIOUS
<1>2. /\ CellArrives(forward, Meet, "relay") /\ Meet \in DOMAIN relays /\ forward[Meet] # <<>>
      /\ IsRecognizedAt(Peel(Meet), MeetHop.fd) /\ held["serviceReader"] = <<>>
      /\ forward' = Off(forward, Meet) /\ UNCHANGED <<origin, backward, ends, ghosts>>
  BY DEF HandleRendezvous1, ForUs, Comes, CellArrives, ReaderFree, ReaderOf, Free, MeetHop
<1>3. /\ Len(ServiceEnd.hops) = 1
  BY <1>2, GoodFacts DEF Facts, Places
<1>4. /\ c = Rendezvous1 /\ MeetHop.fn = 0
  BY <1>1, <1>2, <1>3, MeetSays
<1>5. /\ cookie # "used" /\ cookie \in {"none", "held", "used"} /\ (cookie # "none" => Known = PathLen)
  BY <1>4 DEF Good, Control
<1>6. CASE cookie = "none"
  <2>1. relays' = [relays EXCEPT ![Meet].hop = Absorbed(@, c)] /\ UNCHANGED <<tables, held>>
    BY <1>1, <1>6 DEF HandleRendezvous1
  <2>. QED
    BY <1>1, <1>2, <1>3, <1>6, <2>1, RendezvousNone
<1>7. CASE cookie = "held"
  <2>1. a = Rendezvous2
    BY <1>1, <1>4 DEF Rendezvous1, Rendezvous2
  <2>2. k = PathLen /\ relays[Point].hop = RelayHop(k) /\ Point = LegTo(k)
    BY <1>1, <1>5, <1>7 DEF Point, LegTo, RelayHop
  <2>3. /\ cookie' = "used" /\ bridged' = TRUE /\ Holds("serviceReader", Backward(RelayHop(k), a), RelayHop(k).bn)
        /\ relays' = [relays EXCEPT ![Meet].hop = Absorbed(@, c), ![LegTo(k)].hop = AfterBackward(@, a)]
    BY <1>1, <1>7, <2>2 DEF HandleRendezvous1
  <2>. QED
    BY ONLY Good, <1>1, <1>2, <1>3, <1>7, <2>1, <2>2, <2>3, RendezvousHeld
<1>. QED
  BY <1>5, <1>6, <1>7

\* A cell that ends with the last layer of one chain, as the other chain sees it.
LEMMA CellAcross ==
  ASSUME NEW G, NEW H, NEW g \in 1..Len(G), NEW h \in 1..Len(H), g = Len(G), h = Len(H), G[g].k = H[h].k, G[g].d = H[h].d,
         NEW T \in Int, NEW S \in Int, G[g].o \in Int, H[h].o \in Int, T - G[g].o = S - H[h].o, NEW P, CellOK(G, P, g, T)
  PROVE  CellOK(H, P, h, S)
<1>1. EndsAt(G, g, T) /\ P = CellOf(G, g, g, T)
  BY DEF CellOK
<1>2. EndsAt(H, h, S)
  <2>1. PICK o, r, n : o = G[g].o /\ r = H[h].o /\ n = Len(H[h].d)
    OBVIOUS
  <2>2. o \in Int /\ r \in Int /\ T - o = S - r /\ o <= T /\ T - o + 2 <= n
    BY <1>1, <2>1 DEF EndsAt
  <2>3. r <= S /\ S - r + 2 <= n
    BY ONLY <2>2
  <2>. QED
    BY <2>1, <2>3 DEF EndsAt
<1>3. Coats(G, g, g, T) = Coats(H, h, h, S)
  BY DEF Coats
<1>4. P = CellOf(H, h, h, S)
  BY <1>1, <1>3 DEF CellOf
<1>. QED
  BY <1>2, <1>4 DEF CellOK

LEMMA BridgeToClientGood == ASSUME Good, BridgeToClient PROVE Good'
<1>1. /\ Shape /\ Building /\ ClientOut /\ ServiceWayOut /\ RelaysSaid /\ ClientHears /\ ClientBack
      /\ Bridged /\ ServiceBack /\ Control /\ Contents /\ Timely
  BY DEF Good
<1>2. ClientIs /\ ServiceIs /\ ClientChain /\ ServiceChain /\ BackIs /\ MeetBackIs
  BY GoodFacts DEF Facts
<1>3. PICK k, P, c : k = Known /\ P = Peel(Meet) /\ c = Across(Peel(Meet), Point)
  OBVIOUS
<1>4. /\ CellArrives(forward, Meet, "relay") /\ Meet \in DOMAIN relays /\ forward[Meet] # <<>>
      /\ ~IsRecognizedAt(Peel(Meet), MeetHop.fd) /\ held["serviceReader"] = <<>>
      /\ Holds("serviceReader", c, relays[Point].hop.bn)
      /\ relays' = [relays EXCEPT ![Meet].hop = Ticked(@), ![Point].hop.bn = @ + 1]
      /\ forward' = Off(forward, Meet) /\ UNCHANGED <<origin, backward, tables, ends, ghosts>>
  BY <1>3 DEF BridgeToClient, Passing, Comes, CellArrives, ReaderFree, ReaderOf, Free, MeetHop
<1>5. /\ Len(ServiceEnd.hops) = 1
  BY <1>4, GoodFacts DEF Facts, Places
<1>6. /\ CellOK(ServiceOut, P, 2, MeetHop.fn) /\ Heard(ServiceOut, 1, MeetHop.fn + 1, MeetHop.fd)
      /\ MeetHop.fn \in Nat /\ ServiceOut[2].o = 1 /\ 1 <= MeetHop.fn /\ Len(ServiceOut) = 2
      /\ ServiceEnd.e2e # <<>> /\ cookie = "used" /\ bridged /\ Known = PathLen
  BY <1>3, <1>4, <1>5, MeetNot
<1>7. /\ Meet \in Leg /\ \A j \in 1..Known : LegTo(j) \in Leg /\ j \in Int /\ LegTo(j) # Meet
      /\ k \in Nat /\ k >= 1 /\ k \in 1..Known /\ LegTo(k) \in DOMAIN relays /\ k = PathLen /\ Point = LegTo(k)
      /\ relays[Point].hop = RelayHop(k)
  <2>1. Point = LegTo(PathLen)
    BY LegIs
  <2>. QED
    BY <1>1, <1>3, <1>6, <2>1, KnownIs, LegApart DEF RelayHop
<1>8. /\ IsHop(MeetHop) /\ MeetHop.fk = FK(Meet) /\ MeetHop.bk = BK(Meet)
      /\ IsHop(RelayHop(k)) /\ RelayHop(k).fk = FK(LegTo(k)) /\ RelayHop(k).bk = BK(LegTo(k))
  BY <1>1, <1>4, <1>7, RelayIs DEF MeetHop, RelayHop
<1>9. PICK g, h, leg : g = Ticked(MeetHop) /\ h = BackTicked(RelayHop(k)) /\ leg = LegTo(k)
  OBVIOUS
<1>10. HopAfter(MeetHop, g, MeetHop.fn + 1, MeetHop.fd, MeetHop.bn, MeetHop.bd)
  BY <1>8, <1>9, HopSteps
<1>11. HopAfter(RelayHop(k), h, RelayHop(k).fn, RelayHop(k).fd, RelayHop(k).bn + 1, RelayHop(k).bd)
  BY <1>8, <1>9, HopSteps
<1>12. /\ Steps({Meet, leg}) /\ StagesStay /\ relays'[Meet].hop = g /\ relays'[leg].hop = h
       /\ \A l \in DOMAIN relays : l # Meet /\ l # leg => relays'[l] = relays[l]
  <2>1. IsHop(g) /\ g.fk = FK(Meet) /\ g.bk = BK(Meet) /\ IsHop(h) /\ h.fk = FK(leg) /\ h.bk = BK(leg)
    BY <1>8, <1>9, <1>10, <1>11 DEF HopAfter
  <2>2. Meet # leg /\ leg \in DOMAIN relays
    BY <1>7, <1>9
  <2>3. relays' = [relays EXCEPT ![Meet].hop = g, ![leg].hop = h]
    <3>1. relays' = [relays EXCEPT ![Meet].hop = Ticked(@), ![leg].hop.bn = @ + 1]
      BY <1>4, <1>7, <1>9
    <3>2. h = [relays[leg].hop EXCEPT !.bn = @ + 1]
      BY <1>9 DEF BackTicked, RelayHop
    <3>3. [relays EXCEPT ![Meet].hop = Ticked(@), ![leg].hop.bn = @ + 1] = [relays EXCEPT ![Meet].hop = g, ![leg].hop = h]
      BY <1>9, <2>2, <3>2 DEF MeetHop
    <3>. QED
      BY <3>1, <3>3
  <2>. QED
    BY ONLY <1>1, <1>4, <2>1, <2>2, <2>3, StepsTwo
<1>13. /\ MeetHop'.fn = MeetHop.fn + 1 /\ MeetHop'.fd = MeetHop.fd /\ MeetHop'.bn = MeetHop.bn
       /\ RelayHop(k)'.fn = RelayHop(k).fn /\ RelayHop(k)'.fd = RelayHop(k).fd
       /\ RelayHop(k)'.bn = RelayHop(k).bn + 1 /\ RelayHop(k)'.bd = RelayHop(k).bd
       /\ \A j \in 1..Known : j # k => RelayHop(j)' = RelayHop(j)
       /\ DOMAIN relays' = DOMAIN relays
  <2>1. MeetHop' = g /\ RelayHop(k)' = h
    BY <1>9, <1>12 DEF MeetHop, Meet, RelayHop, LegTo
  <2>2. \A j \in 1..Known : LegTo(j) \in DOMAIN relays
    BY <1>1, KnownIs
  <2>3. \A j \in 1..Known : j # k => LegTo(j) # leg
    BY <1>7, <1>9, LegApart
  <2>4. \A j \in 1..Known : j # k => RelayHop(j)' = RelayHop(j)
    BY <1>7, <1>12, <2>2, <2>3 DEF RelayHop, LegTo
  <2>. QED
    BY <1>10, <1>11, <1>12, <2>1, <2>4 DEF HopAfter, Steps
<1>14. SameClient /\ SameService
  BY <1>4, SameEnds
<1>15. Loses(forward, forward', Meet)
  BY <1>1, <1>4, <1>7, OffIs DEF Shape
<1>16. /\ held' = [t \in OnionTask |-> held'[t]] /\ held'["fetch"] = held["fetch"] /\ held'["pump"] = held["pump"]
       /\ held'["clientReader"] = held["clientReader"]
       /\ held'["serviceReader"] = <<[cell |-> c, turn |-> RelayHop(k).bn]>>
  <2>1. held = [t \in OnionTask |-> held[t]]
    BY <1>1 DEF Shape
  <2>2. PICK e : e = <<[cell |-> c, turn |-> RelayHop(k).bn]>>
    OBVIOUS
  <2>3. held' = [held EXCEPT !["serviceReader"] = e]
    BY <1>4, <1>7, <2>2 DEF Holds
  <2>4. "clientReader" \in OnionTask /\ "fetch" \in OnionTask /\ "pump" \in OnionTask /\ "serviceReader" \in OnionTask
    BY DEF OnionTask, FromClient, AtPoint
  <2>. QED
    BY <2>1, <2>2, <2>3, <2>4
<1>17. Shape'
  <2>1. Tables'
    BY <1>1, <1>4, <1>15, <1>16 DEF Shape, Tables, Loses
  <2>. QED
    BY <1>1, <1>4, <1>12, <2>1, ShapeStays
<1>18. Building'
  <2>1. CircuitsStay
    BY <1>4 DEF CircuitsStay
  <2>2. TouchOnly({Meet, leg})
    BY <1>4, <1>15 DEF TouchOnly, Loses
  <2>3. Near({Meet, leg})
    BY <1>5, <1>6 DEF Near
  <2>. QED
    BY <1>1, <1>12, <2>1, <2>2, <2>3, BuildingStays
<1>19. ClientOut'
  <2>1. OutHopsStill
    BY <1>7, <1>13, <1>15 DEF OutHopsStill, Loses
  <2>. QED
    BY <1>1, <1>2, <1>14, <1>16, <2>1, ClientOutStays
<1>20. ServiceWayOut'
  BY <1>1, <1>4, <1>5, <1>6, <1>7, <1>13, <1>14, <1>15, ServiceOutTakes DEF Loses
<1>21. Known' = Known /\ Known' = k /\ Read' = Read /\ ServiceEnd' = ServiceEnd /\ cookie' = cookie
  BY <1>3, <1>4, <1>14 DEF SameClient, SameService, tables
<1>22. RelaysSaid'
  <2>1. \A j \in 1..Known : RelayHop(j)'.bd = SaidAt(j)'
    <3>1. ASSUME NEW j \in 1..Known PROVE RelayHop(j)'.bd = SaidAt(j)'
      <4>1. SaidAt(j)' = SaidAt(j)
        BY <1>2, <1>12, <1>21, SaidAtStays
      <4>2. RelayHop(j)'.bd = RelayHop(j).bd
        BY <1>13
      <4>. QED
        BY <1>1, <4>1, <4>2 DEF RelaysSaid
    <3>. QED
      BY <3>1
  <2>2. RelayHop(k).bn + 1 = MeetHop.fn + 2
    BY <1>1, <1>3, <1>6, <1>7 DEF RelaysSaid
  <2>3. RelayHop(k)'.bn + 1 = MeetHop'.fn + 2
    <3>1. PICK x, y : x = RelayHop(k).bn /\ y = MeetHop.fn
      OBVIOUS
    <3>2. x \in Nat /\ y \in Nat /\ x + 1 = y + 2
      BY <1>6, <1>8, <2>2, <3>1 DEF IsHop
    <3>3. x + 1 + 1 = y + 1 + 2
      BY ONLY <3>2
    <3>. QED
      BY <1>13, <3>1, <3>3
  <2>4. RelayHop(Known)' = RelayHop(k)'
    BY <1>3, <1>21, AtKnown
  <2>5. Known' > 0 => RelayHop(Known)'.bn + 1 = IF cookie' = "used" THEN MeetHop'.fn + 2 ELSE Len(RelayHop(Known)'.bd)
    BY <1>6, <1>21, <2>3, <2>4
  <2>6. \A j \in 1..Known' : RelayHop(j)'.bd = SaidAt(j)'
    BY <1>21, <2>1
  <2>. QED
    BY <2>5, <2>6 DEF RelaysSaid
<1>23. SaidStill /\ ChainBack' = ChainBack
  <2>1. SaidStill
    BY <1>13 DEF SaidStill
  <2>. QED
    BY <1>21, <2>1, ChainBackStays
<1>24. ClientHears'
  BY <1>1, <1>14, <1>23, ClientHearsStays DEF SameClient
<1>25. PICK G, b : G = ChainBack /\ b = BackTurn(ChainBack, Read, Relayed, Known)
  OBVIOUS
<1>26. /\ b = RelayHop(k).bn + (k - 1) /\ RelayHop(k).bn \in Nat /\ b \in Nat /\ Read \in Nat /\ Read <= b
       /\ ChainOK(G) /\ k <= Len(G) /\ G[k].o = k - 1
  <2>1. Known > 0
    BY <1>3, <1>7
  <2>. QED
    BY <1>3, <1>25, <2>1, BackAtLast
<1>27. CellOK(G, c, k, b)
  <2>1. Len(G) = k + 1 /\ k \in 1..Len(G) /\ k + 1 \in 1..Len(G) /\ G[k + 1].k = H2C /\ G[k + 1].o = k + 1
        /\ G[k + 1].d = ServiceEnd.e2e[1].fd /\ G[k].k = BK(LegTo(k))
    BY <1>2, <1>3, <1>6, <1>7, <1>25 DEF BackIs
  <2>2. ServiceOut[2].k = H2C /\ ServiceOut[2].d = ServiceEnd.e2e[1].fd
    <3>1. PICK ls : ls = ServiceLayers
      OBVIOUS
    <3>2. Len(ls) = 2 /\ ServiceOut = Chain(ls) /\ LayersOK(ls)
      <4>1. LayersOK(ls) /\ ServiceOut = Chain(ls)
        BY <1>1, <3>1 DEF ServiceWayOut, ServiceOut
      <4>. QED
        BY <1>6, <4>1, ChainIs
    <3>3. ServiceLayers[1 + 1] = ServiceEnd.e2e[1] /\ ServiceLayers[1 + 1].fk = H2C
      BY <1>2, <1>5, <1>6 DEF ServiceIs, EndLayers, ServiceLayers
    <3>4. 2 \in 1..Len(ls) /\ 1 + 1 = 2
      BY <3>2
    <3>5. Chain(ls)[2].k = ls[2].fk /\ Chain(ls)[2].d = ls[2].fd
      BY <3>2, <3>4, ChainIs
    <3>. QED
      BY <3>1, <3>2, <3>3, <3>4, <3>5
  <2>3. PICK F, T, S, g2, h2 : F = ServiceOut /\ T = MeetHop.fn /\ S = b /\ g2 = 2 /\ h2 = k + 1
    OBVIOUS
  <2>4. T - F[g2].o = S - G[h2].o
    <3>1. PICK x : x = RelayHop(k).bn
      OBVIOUS
    <3>2. x + 1 = T + 2 /\ x \in Nat /\ T \in Nat /\ k \in Nat /\ S = x + (k - 1)
      BY <1>1, <1>3, <1>6, <1>7, <1>26, <2>3, <3>1 DEF RelaysSaid
    <3>3. T - 1 = S - (k + 1)
      BY ONLY <3>2
    <3>. QED
      BY <1>6, <2>1, <2>3, <3>3
  <2>5. /\ g2 \in 1..Len(F) /\ h2 \in 1..Len(G) /\ g2 = Len(F) /\ h2 = Len(G) /\ F[g2].k = G[h2].k /\ F[g2].d = G[h2].d
        /\ T \in Int /\ S \in Int /\ F[g2].o \in Int /\ G[h2].o \in Int /\ CellOK(F, P, g2, T)
    <3>1. g2 = Len(F) /\ g2 \in 1..Len(F) /\ CellOK(F, P, g2, T) /\ T \in Int /\ F[g2].o \in Int
      <4>1. g2 = Len(F) /\ g2 = 2
        BY <1>6, <2>3
      <4>2. CellOK(F, P, g2, T)
        BY <1>6, <2>3
      <4>3. T \in Int
        BY <1>6, <2>3
      <4>4. F[g2].o = 1
        BY <1>6, <2>3
      <4>. QED
        BY <4>1, <4>2, <4>3, <4>4
    <3>2. h2 = Len(G) /\ h2 \in 1..Len(G)
      BY <2>1, <2>3
    <3>3. S \in Int
      BY <1>26, <2>3
    <3>4. G[h2].o \in Int
      BY <1>7, <2>1, <2>3
    <3>5. F[g2].k = G[h2].k /\ F[g2].d = G[h2].d
      BY <2>1, <2>2, <2>3
    <3>. QED
      BY <3>1, <3>2, <3>3, <3>4, <3>5
  <2>6. CellOK(G, P, h2, S)
    BY ONLY <2>4, <2>5, CellAcross
  <2>7. CellOK(G, P, k + 1, b)
    BY <2>3, <2>6
  <2>8. CellOK(G, Crypt(P, Coat(G, k, b)), k, b)
    BY ONLY <1>26, <2>1, <2>7, WrapOK
  <2>9. b - (k - 1) = RelayHop(k).bn
    <3>1. PICK x : x = RelayHop(k).bn
      OBVIOUS
    <3>2. b = x + (k - 1) /\ x \in Nat /\ k \in Nat
      BY <1>7, <1>26, <3>1
    <3>3. b - (k - 1) = x
      BY ONLY <3>2
    <3>. QED
      BY <3>1, <3>3
  <2>10. Coat(G, k, b) = {<<RelayHop(k).bk, RelayHop(k).bn>>}
    BY <1>8, <1>26, <2>1, <2>9 DEF Coat
  <2>. QED
    BY <1>3, <1>7, <2>8, <2>10 DEF Across, Wrapped
<1>28. ClientBack'
  <2>1. PICK w, x, R, Q, R2, t :
          /\ w = Read /\ x = held["clientReader"] /\ R = Relayed /\ Q = BackQueues
          /\ R2 = Relayed' /\ t = RelayHop(k).bn
    OBVIOUS
  <2>2. \A j \in 1..k : R[j] = RelayHop(j) /\ R2[j] = RelayHop(j)'
    BY <1>3, <1>21, <2>1, RelayedIs
  <2>3. /\ ChainOK(G) /\ k \in Nat /\ k >= 1 /\ k <= Len(G) /\ b = BackTurn(G, w, R, k) /\ Grows(G, G, b)
        /\ G[k].o = k - 1 /\ BackLine(G, k, w, x, <<>>, R, Q) /\ CellOK(G, c, k, b) /\ t = R[k].bn
    <3>1. ChainOK(G) /\ k <= Len(G) /\ G[k].o = k - 1
      BY <1>26
    <3>2. Known > 0 /\ Known = k
      BY <1>3, <1>7
    <3>3. BackLine(G, k, w, x, <<>>, R, Q)
      BY <1>1, <1>4, <1>25, <2>1, <3>2 DEF ClientBack
    <3>4. k \in 1..k
      BY <1>7
    <3>5. t = R[k].bn
      BY <2>1, <2>2, <3>4
    <3>6. b = BackTurn(G, w, R, k)
      BY <1>25, <2>1, <3>2
    <3>7. Grows(G, G, b)
      BY <3>1, GrowsSame
    <3>. QED
      BY <1>7, <1>27, <3>1, <3>3, <3>5, <3>6, <3>7
  <2>4. \A j \in 1..k : R2[j].bn = IF j = k THEN R[j].bn + 1 ELSE R[j].bn
    BY <1>3, <1>13, <2>2
  <2>5. BackLine(G, k, w, <<>>, x, R, Q)
    BY ONLY <2>3, BackLineSwap
  <2>6. BackLine(G, k, w, <<[cell |-> c, turn |-> t]>>, x, R2, Q)
    BY ONLY <2>3, <2>4, <2>5, BackLineHold
  <2>8. PICK e : e = <<[cell |-> c, turn |-> t]>>
    OBVIOUS
  <2>9. BackLine(G, k, w, e, x, R2, Q)
    BY <2>6, <2>8
  <2>10. BackLine(G, k, w, x, e, R2, Q)
    BY ONLY <2>3, <2>9, BackLineSwap
  <2>11. Known' = k /\ Read' = w /\ BackQueues' = Q /\ ChainBack' = G
    BY <1>4, <1>21, <1>23, <1>25, <2>1 DEF BackQueues, LegTo
  <2>12. ~(Known' < PathLen)
    BY <1>7, <2>11
  <2>. QED
    BY <1>16, <2>1, <2>8, <2>10, <2>11, <2>12 DEF ClientBack
<1>29. Bridged'
  <2>1. Meet \in DOMAIN relays' => Meet \in DOMAIN relays /\ MeetHop'.bn = MeetHop.bn
    BY <1>13, <1>4
  <2>2. RelayHop(PathLen)'.fn = RelayHop(PathLen).fn
    BY <1>7, <1>13 DEF RelayHop, LegTo
  <2>. QED
    BY <1>1, <1>14, <2>1, <2>2, BridgedStays
<1>30. ServiceBack'
  <2>1. MeetBackStill
    BY <1>4, <1>13 DEF MeetBackStill, Meet
  <2>2. MeetBack' = MeetBack /\ Len(ServiceEnd.hops)' = Len(ServiceEnd.hops) /\ ServiceLayers' = ServiceLayers
    BY <1>14 DEF SameClient, SameService
  <2>3. Len(ServiceEnd.hops) > 0 => ServiceLayers'[1].bn = ServiceLayers[1].bn
    BY <2>2
  <2>. QED
    BY <1>1, <1>2, <2>1, <2>2, <2>3, ServiceBackStays
<1>31. UNCHANGED ends0 /\ UNCHANGED ghosts /\ UNCHANGED tables
  BY <1>4 DEF ends, ends0
<1>32. Control'
  <2>1. PointEstablished'
    <3>1. PointEstablished
      BY <1>1, <1>6 DEF Control, PointEstablished
    <3>2. RelayHop(PathLen)'.fd = RelayHop(PathLen).fd /\ IsSeq(RelayHop(PathLen).fd)
      BY <1>7, <1>8, <1>13 DEF RelayHop, LegTo, IsHop
    <3>. QED
      BY <3>1, <3>2, EstablishedStays
  <2>2. MeetHop'.fn > 0
    BY <1>6, <1>13
  <2>. QED
    BY <1>1, <1>14, <1>31, <2>1, <2>2, ControlStays
<1>33. Contents' /\ Timely'
  BY <1>1, <1>14, <1>31, ContentsStays, TimelyStays DEF SameClient, SameService
<1>. QED
  BY <1>17, <1>18, <1>19, <1>20, <1>22, <1>24, <1>28, <1>29, <1>30, <1>32, <1>33 DEF Good

LEMMA BridgeToServiceGood == ASSUME Good, BridgeToService PROVE Good'
<1>1. /\ Shape /\ Building /\ ClientOut /\ ServiceWayOut /\ RelaysSaid /\ ClientHears /\ ClientBack
      /\ Bridged /\ ServiceBack /\ Control /\ Contents /\ Timely
  BY DEF Good
<1>2. ClientIs /\ ServiceIs /\ ClientChain /\ ServiceChain /\ BackIs /\ MeetBackIs
  BY GoodFacts DEF Facts
<1>3. PICK k, P, c, leg : k = Known /\ P = Peel(Point) /\ c = Across(Peel(Point), Meet) /\ leg = Point
  OBVIOUS
<1>4. /\ CellArrives(forward, leg, "relay") /\ leg \in DOMAIN relays /\ forward[leg] # <<>>
      /\ ~IsRecognizedAt(Peel(leg), relays[leg].hop.fd) /\ bridged
      /\ relays' = [relays EXCEPT ![leg].hop = Ticked(@), ![Meet].hop.bn = @ + 1]
      /\ backward' = On(backward, Meet, c)
      /\ forward' = Off(forward, leg) /\ UNCHANGED <<origin, held, tables, ends, ghosts>>
  BY <1>3 DEF BridgeToService, Passing, Comes, CellArrives
<1>5. /\ cookie = "used" /\ Len(ServiceEnd.hops) = 1 /\ Known = PathLen
  BY <1>1, <1>4 DEF Control
<1>6. /\ Meet \in DOMAIN relays /\ Meet \in Leg /\ (\A j \in 1..Known : LegTo(j) \in Leg /\ j \in Int /\ LegTo(j) # Meet)
      /\ k \in Nat /\ k >= 1 /\ k \in 1..Known /\ k = PathLen /\ leg = LegTo(k) /\ leg \in Leg
      /\ relays[leg].hop = RelayHop(k)
  <2>1. Point = LegTo(PathLen)
    BY LegIs
  <2>. QED
    BY <1>1, <1>3, <1>5, <2>1, KnownIs, LegApart DEF RelayHop
<1>7. /\ ChainOut[k + 1].o <= Passed(k) /\ Passed(k) \in Nat /\ RelayHop(k).fn \in Nat /\ ChainOut[k].o \in Nat
      /\ CellOK(ChainOut, Peel(leg), k + 1, Passed(k)) /\ Heard(ChainOut, k, RelayHop(k).fn + 1, RelayHop(k).fd)
      /\ ClientEnd.e2e # <<>>
  <2>1. k \in 1..Known /\ forward[LegTo(k)] # <<>> /\ ~IsRecognizedAt(Peel(LegTo(k)), RelayHop(k).fd)
    BY <1>4, <1>6
  <2>2. k = Known => ClientEnd.e2e # <<>>
    BY <2>1, RelayNot
  <2>3. /\ ChainOut[k + 1].o <= Passed(k) /\ Passed(k) \in Nat /\ RelayHop(k).fn \in Nat /\ ChainOut[k].o \in Nat
        /\ CellOK(ChainOut, Peel(LegTo(k)), k + 1, Passed(k)) /\ Heard(ChainOut, k, RelayHop(k).fn + 1, RelayHop(k).fd)
    BY <2>1, RelayNot
  <2>. QED
    BY <1>3, <1>6, <2>2, <2>3
<1>8. /\ IsHop(MeetHop) /\ MeetHop.fk = FK(Meet) /\ MeetHop.bk = BK(Meet)
      /\ IsHop(RelayHop(k)) /\ RelayHop(k).fk = FK(leg) /\ RelayHop(k).bk = BK(leg)
  BY <1>1, <1>4, <1>6, RelayIs DEF MeetHop, RelayHop
<1>9. PICK g, h : g = BackTicked(MeetHop) /\ h = Ticked(RelayHop(k))
  OBVIOUS
<1>10. HopAfter(MeetHop, g, MeetHop.fn, MeetHop.fd, MeetHop.bn + 1, MeetHop.bd)
  BY <1>8, <1>9, HopSteps
<1>11. HopAfter(RelayHop(k), h, RelayHop(k).fn + 1, RelayHop(k).fd, RelayHop(k).bn, RelayHop(k).bd)
  BY <1>8, <1>9, HopSteps
<1>12. /\ Steps({leg, Meet}) /\ StagesStay /\ relays'[Meet].hop = g /\ relays'[leg].hop = h
       /\ \A l \in DOMAIN relays : l # leg /\ l # Meet => relays'[l] = relays[l]
  <2>1. IsHop(g) /\ g.fk = FK(Meet) /\ g.bk = BK(Meet) /\ IsHop(h) /\ h.fk = FK(leg) /\ h.bk = BK(leg)
    BY <1>8, <1>9, <1>10, <1>11 DEF HopAfter
  <2>2. Meet # leg /\ leg \in DOMAIN relays
    BY <1>4, <1>6
  <2>3. relays' = [relays EXCEPT ![leg].hop = h, ![Meet].hop = g]
    <3>2. g = [relays[Meet].hop EXCEPT !.bn = @ + 1]
      BY <1>9 DEF BackTicked, MeetHop
    <3>3. [relays EXCEPT ![leg].hop = Ticked(@), ![Meet].hop.bn = @ + 1] = [relays EXCEPT ![leg].hop = h, ![Meet].hop = g]
      BY <1>6, <1>9, <2>2, <3>2
    <3>. QED
      BY <1>4, <3>3
  <2>. QED
    <3>1. Shape /\ leg \in DOMAIN relays /\ Meet \in DOMAIN relays /\ leg # Meet
      BY <1>1, <1>4, <1>6, <2>2
    <3>2. /\ Steps({leg, Meet}) /\ StagesStay /\ relays'[leg].hop = h /\ relays'[Meet].hop = g
          /\ \A l \in DOMAIN relays : l # leg /\ l # Meet => relays'[l] = relays[l]
      BY ONLY <2>1, <2>3, <3>1, StepsTwo
    <3>. QED
      BY <3>2
<1>13. /\ MeetHop'.fn = MeetHop.fn /\ MeetHop'.fd = MeetHop.fd /\ MeetHop'.bn = MeetHop.bn + 1
       /\ RelayHop(k)'.fn = RelayHop(k).fn + 1 /\ RelayHop(k)'.fd = RelayHop(k).fd
       /\ RelayHop(k)'.bn = RelayHop(k).bn /\ RelayHop(k)'.bd = RelayHop(k).bd
       /\ \A j \in 1..Known : j # k => RelayHop(j)' = RelayHop(j)
       /\ DOMAIN relays' = DOMAIN relays
  <2>1. MeetHop' = g /\ RelayHop(k)' = h
    BY <1>6, <1>9, <1>12 DEF MeetHop, Meet, RelayHop, LegTo
  <2>2. \A j \in 1..Known : LegTo(j) \in DOMAIN relays
    BY <1>1, KnownIs
  <2>3. \A j \in 1..Known : j # k => LegTo(j) # leg
    BY <1>6, <1>9, LegApart
  <2>4. \A j \in 1..Known : j # k => RelayHop(j)' = RelayHop(j)
    BY <1>6, <1>12, <2>2, <2>3 DEF RelayHop, LegTo
  <2>. QED
    BY <1>10, <1>11, <1>12, <2>1, <2>4 DEF HopAfter, Steps
<1>14. SameClient /\ SameService
  BY <1>4, SameEnds
<1>15. Loses(forward, forward', leg) /\ Gains(backward, backward', Meet, c)
  BY <1>1, <1>4, <1>6, OffIs, OnIs DEF Shape
<1>16. /\ \A j \in 1..Known : j # k => LegTo(j) # leg
       /\ \A j \in 1..Known : backward'[LegTo(j)] = backward[LegTo(j)]
       /\ backward'[Meet] = Append(backward[Meet], c) /\ forward'[Meet] = forward[Meet]
  <2>1. \A j \in 1..Known : j # k => LegTo(j) # leg
    BY <1>6, LegApart
  <2>. QED
    BY <1>6, <1>15, <2>1 DEF Loses, Gains
<1>17. Shape'
  <2>1. Tables'
    BY <1>1, <1>4, <1>15 DEF Shape, Tables, Loses, Gains
  <2>. QED
    BY <1>1, <1>4, <1>12, <2>1, ShapeStays
<1>18. Building'
  <2>1. CircuitsStay
    BY <1>4 DEF CircuitsStay
  <2>2. TouchOnly({leg, Meet})
    BY <1>4, <1>15 DEF TouchOnly, Loses, Gains
  <2>3. Near({leg, Meet})
    BY <1>5 DEF Near
  <2>. QED
    BY <1>1, <1>12, <2>1, <2>2, <2>3, BuildingStays
<1>19. ClientOut'
  <2>1. TakesAt(k)
    <3>1. \A j \in 1..Known : j # k => RelayHop(j)'.fn = RelayHop(j).fn /\ RelayHop(j)'.fd = RelayHop(j).fd
      BY <1>13
    <3>2. ~(k < Known)
      BY <1>3, <1>6
    <3>3. /\ forward'[LegTo(k)] = Tail(forward[LegTo(k)])
          /\ \A j \in 1..Known : j # k => forward'[LegTo(j)] = forward[LegTo(j)]
      BY <1>6, <1>15, <1>16 DEF Loses
    <3>. QED
      BY <1>7, <1>13, <3>1, <3>2, <3>3 DEF TakesAt
  <2>. QED
    BY <1>1, <1>4, <1>6, <1>14, <2>1, ClientOutTakes
<1>20. ServiceWayOut'
  <2>1. MeetOutStill
    BY <1>13, <1>16 DEF MeetOutStill
  <2>. QED
    BY <1>1, <1>2, <1>14, <2>1, ServiceWayOutStays
<1>21. /\ Known' = Known /\ Known' = k /\ Read' = Read /\ ServiceEnd' = ServiceEnd /\ cookie' = cookie
       /\ ClientLayers' = ClientLayers
  BY <1>3, <1>4, <1>14 DEF SameClient, SameService, tables
<1>22. SaidStill /\ ChainBack' = ChainBack
  <2>1. SaidStill
    BY <1>13 DEF SaidStill
  <2>. QED
    BY <1>21, <2>1, ChainBackStays
<1>23. RelaysSaid'
  <2>1. RelayHop(Known)'.bn = RelayHop(Known).bn
    BY <1>3, <1>13, <1>21, AtKnown
  <2>. QED
    BY <1>1, <1>2, <1>12, <1>13, <1>21, <1>22, <2>1, RelaysSaidStays
<1>24. ClientHears'
  BY <1>1, <1>21, <1>22, ClientHearsStays
<1>25. ClientBack'
  <2>1. BackHopsStill
    BY <1>13, <1>16 DEF BackHopsStill
  <2>2. held'["clientReader"] = held["clientReader"] /\ held'["serviceReader"] = held["serviceReader"]
    BY <1>4
  <2>. QED
    BY <1>1, <1>2, <1>21, <1>22, <2>1, <2>2, ClientBackStays
<1>26. PICK o, T, b : o = ChainOut[k + 1].o /\ T = Passed(k) /\ b = MeetHop.bn
  OBVIOUS
<1>27. o \in Nat /\ T \in Nat /\ o <= T /\ b = T - o /\ b \in Nat /\ ChainOut[PathLen + 1].o = o /\ Passed(PathLen) = T
  <2>1. ChainOut[PathLen + 1].o = o /\ Passed(PathLen) = T
    BY <1>6, <1>26
  <2>2. o \in Nat
    <3>1. ChainIsFor(ClientLayers, Known) /\ k + 1 \in 1..Len(ClientLayers)
      BY <1>2, <1>3, <1>6, <1>7 DEF ClientChain, ClientIs, EndLayers, ClientLayers
    <3>. QED
      BY <1>26, <3>1 DEF ChainIsFor, ChainOut
  <2>3. b = IF T > o THEN T - o ELSE 0
    BY <1>1, <1>6, <1>7, <1>26, <2>1 DEF Bridged
  <2>4. T \in Nat /\ o <= T
    BY <1>7, <1>26
  <2>5. b = T - o /\ b \in Nat
    BY ONLY <2>2, <2>3, <2>4
  <2>. QED
    BY <2>1, <2>2, <2>4, <2>5
<1>28. Bridged'
  <2>1. Passed(PathLen)' = T + 1
    <3>1. Passed(PathLen)' = RelayHop(k)'.fn + ChainOut[k].o
      BY <1>6, <1>14 DEF Passed, SameClient, RelayHop, LegTo
    <3>2. PICK n, q : n = RelayHop(k).fn /\ q = ChainOut[k].o
      OBVIOUS
    <3>3. n \in Nat /\ q \in Nat /\ T = n + q
      BY <1>7, <1>26, <3>2 DEF Passed
    <3>4. n + 1 + q = T + 1
      BY ONLY <3>3
    <3>. QED
      BY <1>13, <3>1, <3>2, <3>4
  <2>2. ChainOut'[PathLen + 1].o = o /\ ClientEnd'.e2e # <<>>
    BY <1>7, <1>14, <1>27 DEF SameClient
  <2>3. T + 1 > o /\ T + 1 - o = b + 1
    BY ONLY <1>27
  <2>4. MeetHop'.bn = T + 1 - o
    BY <1>13, <1>26, <2>3
  <2>. QED
    <3>1. PICK x, y, e : x = Passed(PathLen)' /\ y = ChainOut'[PathLen + 1].o /\ e = ClientEnd'.e2e
      OBVIOUS
    <3>2. MeetHop'.bn = IF e # <<>> /\ x > y THEN x - y ELSE 0
      <4>1. x = T + 1 /\ y = o /\ e # <<>>
        BY <2>1, <2>2, <3>1
      <4>2. x > y /\ x - y = T + 1 - o
        BY ONLY <1>27, <4>1
      <4>. QED
        BY <2>4, <4>1, <4>2
    <3>. QED
      BY <3>1, <3>2 DEF Bridged
<1>29. PICK G : G = MeetBack
  OBVIOUS
<1>30. /\ ChainOK(G) /\ Len(G) = 2 /\ G[1].k = BK(Meet) /\ G[1].o = 0
       /\ G[2].k = C2H /\ G[2].o = 0 /\ G[2].d = ClientEnd.e2e[1].fd
  BY <1>2, <1>7, <1>29 DEF MeetBackIs
<1>31. CellOK(G, c, 1, b)
  <2>1. PICK F, g2, h2 : F = ChainOut /\ g2 = k + 1 /\ h2 = 2
    OBVIOUS
  <2>2. Len(F) = k + 1 /\ F[k + 1].k = C2H /\ F[k + 1].d = ClientEnd.e2e[1].fd
    <3>1. PICK ls : ls = ClientLayers
      OBVIOUS
    <3>2. Len(ls) = k + 1 /\ ls[k + 1] = ClientEnd.e2e[1] /\ ls[k + 1].fk = C2H
      BY <1>2, <1>3, <1>6, <1>7, <3>1 DEF ClientIs, EndLayers, ClientLayers
    <3>3. LayersOK(ls) /\ F = Chain(ls)
      BY <1>1, <2>1, <3>1 DEF ClientOut, ChainOut
    <3>4. k + 1 \in 1..Len(ls)
      BY <1>6, <3>2
    <3>5. Chain(ls)[k + 1].k = ls[k + 1].fk /\ Chain(ls)[k + 1].d = ls[k + 1].fd /\ Len(Chain(ls)) = Len(ls)
      BY <3>3, <3>4, ChainIs
    <3>. QED
      BY <3>2, <3>3, <3>5
  <2>3. /\ g2 \in 1..Len(F) /\ h2 \in 1..Len(G) /\ g2 = Len(F) /\ h2 = Len(G) /\ F[g2].k = G[h2].k /\ F[g2].d = G[h2].d
        /\ T \in Int /\ b \in Int /\ F[g2].o \in Int /\ G[h2].o \in Int /\ T - F[g2].o = b - G[h2].o
    <3>1. g2 = Len(F) /\ g2 \in 1..Len(F)
      BY <1>6, <2>1, <2>2
    <3>2. h2 = Len(G) /\ h2 \in 1..Len(G) /\ G[h2].o = 0
      BY <1>30, <2>1
    <3>3. F[g2].o = o
      BY <1>26, <2>1
    <3>4. T - o = b - 0 /\ T \in Int /\ b \in Int /\ o \in Int
      BY ONLY <1>27
    <3>5. F[g2].k = G[h2].k /\ F[g2].d = G[h2].d
      BY <1>30, <2>1, <2>2
    <3>. QED
      BY <3>1, <3>2, <3>3, <3>4, <3>5
  <2>4. CellOK(F, P, g2, T)
    BY <1>3, <1>7, <1>26, <2>1
  <2>5. CellOK(G, P, h2, b)
    BY ONLY <2>3, <2>4, CellAcross
  <2>6. CellOK(G, P, 1 + 1, b) /\ 1 \in 1..Len(G)
    BY <1>30, <2>1, <2>5
  <2>7. CellOK(G, Crypt(P, Coat(G, 1, b)), 1, b)
    BY ONLY <1>30, <2>6, WrapOK
  <2>8. Coat(G, 1, b) = {<<MeetHop.bk, MeetHop.bn>>}
    <3>1. b - 0 = b
      BY ONLY <1>27
    <3>. QED
      BY <1>8, <1>26, <1>30, <3>1 DEF Coat
  <2>. QED
    BY <1>3, <2>7, <2>8 DEF Across, Wrapped, MeetHop
<1>32. ServiceBack'
  <2>1. PICK w, R, Q, R2, Q2 :
          /\ w = ServiceLayers[1].bn /\ R = <<MeetHop>> /\ Q = <<backward[Meet]>>
          /\ R2 = <<MeetHop'>> /\ Q2 = <<backward'[Meet]>>
    OBVIOUS
  <2>2. R[1] = MeetHop /\ Q[1] = backward[Meet] /\ R2[1] = MeetHop' /\ Q2[1] = backward'[Meet]
    BY <2>1
  <2>3. BackLine(G, 1, w, <<>>, <<>>, R, Q)
    BY <1>1, <1>5, <1>29, <2>1 DEF ServiceBack
  <2>4. b = BackTurn(G, w, R, 1)
    <3>1. b = b + 0
      BY ONLY <1>27
    <3>. QED
      BY <1>26, <1>30, <2>2, <3>1 DEF BackTurn
  <2>5. 1 \in Nat /\ 1 >= 1 /\ 1 <= Len(G) /\ G[1].o = 1 - 1
    BY <1>30
  <2>6. /\ \A i \in 1..1 : R2[i].bn = IF i = 1 THEN R[i].bn + 1 ELSE R[i].bn
        /\ Q2[1] = Append(Q[1], c) /\ \A i \in 1..1 : i # 1 => Q2[i] = Q[i]
    BY <1>13, <1>16, <2>2
  <2>7. Grows(G, G, b)
    BY <1>30, GrowsSame
  <2>8. BackLine(G, 1, w, <<>>, <<>>, R2, Q2)
    BY ONLY <1>30, <1>31, <2>3, <2>4, <2>5, <2>6, <2>7, BackLineAnswer
  <2>9. MeetBack' = G /\ ServiceLayers' = ServiceLayers
    BY <1>14, <1>29 DEF SameClient, SameService
  <2>. QED
    BY <2>1, <2>8, <2>9 DEF ServiceBack, MeetHop, Meet
<1>33. UNCHANGED ends0 /\ UNCHANGED ghosts /\ UNCHANGED tables
  BY <1>4 DEF ends, ends0
<1>34. Control'
  <2>1. PointEstablished'
    <3>1. PointEstablished
      BY <1>1, <1>5 DEF Control, PointEstablished
    <3>2. RelayHop(PathLen)'.fd = RelayHop(PathLen).fd /\ IsSeq(RelayHop(PathLen).fd)
      BY <1>6, <1>8, <1>13 DEF RelayHop, LegTo, IsHop
    <3>. QED
      BY <3>1, <3>2, EstablishedStays
  <2>2. MeetHop'.fn > 0
    BY <1>1, <1>5, <1>13 DEF Control
  <2>. QED
    BY <1>1, <1>14, <1>33, <2>1, <2>2, ControlStays
<1>35. Contents' /\ Timely'
  BY <1>1, <1>14, <1>33, ContentsStays, TimelyStays DEF SameClient, SameService
<1>. QED
  BY <1>17, <1>18, <1>19, <1>20, <1>23, <1>24, <1>25, <1>28, <1>32, <1>34, <1>35 DEF Good

-----------------------------------------------------------------------------
(* Steps of an end: its circuit changes, the relays do not. *)

EndFits(e, v) ==
  /\ OriginOK(v) /\ Len(v.hops) <= Hops(e) /\ Len(v.e2e) <= 1
  /\ v.e2e # <<>> => Len(v.hops) = Hops(e)
  /\ \A i \in 1..Len(v.hops) : v.hops[i].fk = FK(<<e, i>>) /\ v.hops[i].bk = BK(<<e, i>>) /\ <<e, i>> \in DOMAIN relays
E2EFits(v, ck, sk) == \A i \in 1..Len(v.e2e) : v.e2e[i].fk = ck /\ v.e2e[i].bk = sk
RelaysSame == Steps({}) /\ StagesStay /\ MeetHop' = MeetHop /\ \A i : RelayHop(i)' = RelayHop(i)

LEMMA RelaysAreSame == ASSUME Shape, relays' = relays PROVE RelaysSame
<1>1. \A l \in DOMAIN relays : RelayOK(l)'
  BY DEF Shape, RelayOK
<1>2. Steps({}) /\ StagesStay
  BY <1>1 DEF Shape, Steps, StagesStay
<1>3. MeetHop' = MeetHop
  BY DEF MeetHop, Meet
<1>4. \A i : RelayHop(i)' = RelayHop(i)
  BY DEF RelayHop, LegTo
<1>. QED
  BY <1>2, <1>3, <1>4 DEF RelaysSame

LEMMA EndOKNext ==
  ASSUME Shape, NEW e \in OriginEnd, NEW v, origin' = [origin EXCEPT ![e] = v], EndFits(e, v), relays' = relays
  PROVE  /\ DOMAIN origin' = OriginEnd /\ origin' = [f \in OriginEnd |-> origin'[f]]
         /\ origin'[e] = v /\ (\A f \in OriginEnd : f # e => origin'[f] = origin[f])
         /\ \A f \in OriginEnd : EndOK(f)'
<1>1. DOMAIN origin = OriginEnd /\ origin = [f \in OriginEnd |-> origin[f]] /\ \A f \in OriginEnd : EndOK(f)
  BY DEF Shape
<1>2. /\ DOMAIN origin' = OriginEnd /\ origin' = [f \in OriginEnd |-> origin'[f]]
      /\ origin'[e] = v /\ (\A f \in OriginEnd : f # e => origin'[f] = origin[f])
  BY <1>1
<1>3. ASSUME NEW f \in OriginEnd PROVE EndOK(f)'
  <2>1. CASE f = e
    <3>1. origin'[f] = v
      BY <1>2, <2>1
    <3>. QED
      BY <2>1, <3>1 DEF EndOK, EndFits
  <2>2. CASE f # e
    <3>1. origin'[f] = origin[f] /\ EndOK(f)
      BY <1>1, <1>2, <2>2
    <3>. QED
      BY <3>1 DEF EndOK
  <2>. QED
    BY <2>1, <2>2
<1>. QED
  BY <1>2, <1>3

LEMMA ShapeFrom ==
  ASSUME Shape, relays' = relays, Tables', DOMAIN origin' = OriginEnd, origin' = [f \in OriginEnd |-> origin'[f]],
         \A f \in OriginEnd : EndOK(f)', E2EFits(ClientEnd', C2H, H2C), E2EFits(ServiceEnd', H2C, C2H)
  PROVE  Shape'
<1>1. Steps({})
  BY RelaysAreSame DEF RelaysSame
<1>2. /\ relays' = [l \in DOMAIN relays' |-> relays'[l]] /\ DOMAIN relays' \subseteq Leg
      /\ \A l \in DOMAIN relays' : RelayOK(l)'
  BY <1>1 DEF Shape, Steps
<1>3. /\ \A i \in 1..Len(ClientEnd'.e2e) : ClientEnd'.e2e[i].fk = C2H /\ ClientEnd'.e2e[i].bk = H2C
      /\ \A i \in 1..Len(ServiceEnd'.e2e) : ServiceEnd'.e2e[i].fk = H2C /\ ServiceEnd'.e2e[i].bk = C2H
  BY DEF E2EFits
<1>. QED
  BY <1>2, <1>3 DEF Shape, Tables

LEMMA ClientChanges ==
  ASSUME Shape, NEW v, origin' = [origin EXCEPT !["client"] = v], EndFits("client", v), E2EFits(v, C2H, H2C),
         relays' = relays, Tables'
  PROVE  Shape' /\ ClientEnd' = v /\ SameService /\ RelaysSame
<1>1. "client" \in OriginEnd /\ "service" \in OriginEnd /\ "service" # "client"
  BY DEF OriginEnd
<1>2. /\ DOMAIN origin' = OriginEnd /\ origin' = [f \in OriginEnd |-> origin'[f]]
      /\ origin'["client"] = v /\ (\A f \in OriginEnd : f # "client" => origin'[f] = origin[f])
      /\ \A f \in OriginEnd : EndOK(f)'
  BY ONLY <1>1, Shape, origin' = [origin EXCEPT !["client"] = v], EndFits("client", v), relays' = relays, EndOKNext
<1>3. ClientEnd' = v /\ ServiceEnd' = ServiceEnd
  BY <1>1, <1>2 DEF ClientEnd, ServiceEnd
<1>4. E2EFits(ClientEnd', C2H, H2C) /\ E2EFits(ServiceEnd', H2C, C2H)
  BY <1>3 DEF Shape, E2EFits
<1>5. Shape'
  BY <1>2, <1>4, ShapeFrom
<1>. QED
  BY <1>3, <1>5, SameEnds, RelaysAreSame

LEMMA ServiceChanges ==
  ASSUME Shape, NEW v, origin' = [origin EXCEPT !["service"] = v], EndFits("service", v), E2EFits(v, H2C, C2H),
         relays' = relays, Tables'
  PROVE  Shape' /\ ServiceEnd' = v /\ SameClient /\ RelaysSame
<1>1. "client" \in OriginEnd /\ "service" \in OriginEnd /\ "service" # "client"
  BY DEF OriginEnd
<1>2. /\ DOMAIN origin' = OriginEnd /\ origin' = [f \in OriginEnd |-> origin'[f]]
      /\ origin'["service"] = v /\ (\A f \in OriginEnd : f # "service" => origin'[f] = origin[f])
      /\ \A f \in OriginEnd : EndOK(f)'
  BY ONLY <1>1, Shape, origin' = [origin EXCEPT !["service"] = v], EndFits("service", v), relays' = relays, EndOKNext
<1>3. ServiceEnd' = v /\ ClientEnd' = ClientEnd
  BY <1>1, <1>2 DEF ClientEnd, ServiceEnd
<1>4. E2EFits(ClientEnd', C2H, H2C) /\ E2EFits(ServiceEnd', H2C, C2H)
  BY <1>3 DEF Shape, E2EFits
<1>5. Shape'
  BY <1>2, <1>4, ShapeFrom
<1>. QED
  BY <1>3, <1>5, SameEnds, RelaysAreSame

\* An end that encrypts a cell: its counters, and the log of its last layer.
SealsInto(e, v, cell) ==
  OriginOK(v) /\ v.hops = AfterOutbound(origin[e], cell).hops /\ v.e2e = AfterOutbound(origin[e], cell).e2e
LEMMA SealedEnd ==
  ASSUME NEW e, NEW oc, oc = origin[e], NEW k, NEW ck, NEW sk, EndLayers(oc, e, k, ck, sk), k >= 1, LayersOK(Layers(oc)),
         NEW cell, NEW v, SealsInto(e, v, cell)
  PROVE  /\ EndFits(e, v) /\ E2EFits(v, ck, sk) /\ Len(v.hops) = k /\ (v.e2e # <<>> <=> oc.e2e # <<>>)
         /\ SealedFrom(Layers(oc), Layers(v), cell) /\ CellOK(Chain(Layers(v)), Outbound(oc, cell), 1, Layers(oc)[1].fn)
<1>1. PICK w : w = AfterOutbound(oc, cell)
  OBVIOUS
<1>2. OriginOK(oc) /\ Len(Layers(oc)) = k + Len(oc.e2e) /\ k \in Nat /\ Len(oc.e2e) \in 0..1 /\ Len(oc.hops) = k
  BY DEF EndLayers
<1>3. Len(Layers(oc)) >= 1
  BY <1>2
<1>4. /\ SameShape(oc, w) /\ SealedFrom(Layers(oc), Layers(w), cell)
      /\ CellOK(Chain(Layers(w)), Outbound(oc, cell), 1, Layers(oc)[1].fn)
  BY <1>1, <1>2, <1>3, OutboundIs
<1>5. v.hops = w.hops /\ v.e2e = w.e2e /\ Layers(v) = Layers(w) /\ OriginOK(v)
  BY <1>1 DEF SealsInto, Layers
<1>6. SealedFields(Layers(oc), Layers(w), cell)
  BY <1>4, SealFields
<1>7. Len(v.hops) = k /\ Len(v.e2e) = Len(oc.e2e)
  BY <1>2, <1>4, <1>5 DEF SameShape
<1>8. v.e2e # <<>> <=> oc.e2e # <<>>
  <2>1. IsSeq(v.e2e) /\ IsSeq(oc.e2e)
    BY <1>2, <1>5 DEF OriginOK
  <2>2. (v.e2e = <<>> <=> Len(v.e2e) = 0) /\ (oc.e2e = <<>> <=> Len(oc.e2e) = 0)
    BY ONLY <2>1, EmptyLen
  <2>. QED
    BY <1>7, <2>2
<1>9. ASSUME NEW i \in 1..Len(v.hops)
      PROVE  v.hops[i].fk = FK(<<e, i>>) /\ v.hops[i].bk = BK(<<e, i>>) /\ <<e, i>> \in DOMAIN relays
  <2>1. i \in 1..k /\ i \in 1..Len(oc.hops) /\ i \in 1..Len(Layers(oc))
    BY <1>2, <1>7
  <2>2. v.hops[i] = Layers(w)[i]
    BY <1>4, <1>5, <2>1 DEF SameShape
  <2>3. Layers(w)[i].fk = Layers(oc)[i].fk /\ Layers(w)[i].bk = Layers(oc)[i].bk
    BY <1>6, <2>1 DEF SealedFields
  <2>. QED
    BY <2>1, <2>2, <2>3 DEF EndLayers
<1>10. ASSUME NEW i \in 1..Len(v.e2e) PROVE v.e2e[i].fk = ck /\ v.e2e[i].bk = sk
  <2>1. i = 1 /\ i \in 1..Len(oc.e2e) /\ oc.e2e # <<>> /\ k + 1 \in 1..Len(Layers(oc))
    <3>1. i = 1 /\ Len(oc.e2e) = 1
      <4>1. PICK n : n = Len(oc.e2e)
        OBVIOUS
      <4>2. n \in 0..1 /\ i \in 1..n
        BY <1>2, <1>7, <4>1
      <4>3. i = 1 /\ n = 1
        BY ONLY <4>2
      <4>. QED
        BY <4>1, <4>3
    <3>. QED
      BY <1>2, <3>1 DEF EndLayers
  <2>2. v.e2e[i] = Layers(w)[k + 1]
    BY <1>2, <1>4, <1>5, <2>1 DEF SameShape
  <2>3. Layers(w)[k + 1].fk = Layers(oc)[k + 1].fk /\ Layers(w)[k + 1].bk = Layers(oc)[k + 1].bk
    BY <1>6, <2>1 DEF SealedFields
  <2>. QED
    BY <2>1, <2>2, <2>3 DEF EndLayers
<1>11. EndFits(e, v)
  <2>1. k <= Hops(e) /\ (oc.e2e # <<>> => k = Hops(e)) /\ Len(v.e2e) <= 1
    <3>1. k <= Hops(e) /\ (oc.e2e # <<>> => k = Hops(e))
      BY DEF EndLayers
    <3>2. PICK n : n = Len(v.e2e)
      OBVIOUS
    <3>3. n \in 0..1
      BY <1>2, <1>7, <3>2
    <3>4. n <= 1
      BY ONLY <3>3
    <3>. QED
      BY <3>1, <3>2, <3>4
  <2>. QED
    BY <1>5, <1>7, <1>8, <1>9, <2>1 DEF EndFits
<1>. QED
  BY <1>4, <1>5, <1>7, <1>8, <1>10, <1>11 DEF E2EFits

\* The client encrypts a cell.
Sealed(cell) ==
  /\ Shape' /\ SameService /\ RelaysSame /\ Known' = Known /\ Read' = Read
  /\ SealedFrom(ClientLayers, ClientLayers', cell)
  /\ ClientEnd'.e2e # <<>> <=> ClientEnd.e2e # <<>>
  /\ CellOK(ChainOut', Outbound(ClientEnd, cell), 1, Sent)

LEMMA SealedNow ==
  ASSUME Good, Known > 0, NEW cell, NEW v, SealsInto("client", v, cell), origin' = [origin EXCEPT !["client"] = v],
         relays' = relays, Tables'
  PROVE  Sealed(cell) /\ ClientEnd' = v
<1>1. Shape /\ ClientOut
  BY DEF Good
<1>2. ClientIs /\ ClientChain
  BY GoodFacts DEF Facts
<1>3. PICK oc, k : oc = ClientEnd /\ k = Known
  OBVIOUS
<1>4. EndLayers(oc, "client", k, C2H, H2C) /\ k >= 1 /\ LayersOK(Layers(oc)) /\ oc = origin["client"]
  <2>1. Known \in Nat
    BY <1>1, KnownIs
  <2>. QED
    <3>1. k >= 1
      BY <1>1, <1>3, <2>1 DEF ClientOut
    <3>2. oc = origin["client"]
      BY <1>3 DEF ClientEnd
    <3>3. EndLayers(oc, "client", k, C2H, H2C)
      BY <1>2, <1>3 DEF ClientIs
    <3>4. LayersOK(Layers(oc))
      BY <1>1, <1>3 DEF ClientOut, ClientLayers
    <3>. QED
      BY <3>1, <3>2, <3>3, <3>4
<1>5. /\ EndFits("client", v) /\ E2EFits(v, C2H, H2C) /\ Len(v.hops) = k /\ (v.e2e # <<>> <=> oc.e2e # <<>>)
      /\ SealedFrom(Layers(oc), Layers(v), cell) /\ CellOK(Chain(Layers(v)), Outbound(oc, cell), 1, Layers(oc)[1].fn)
  <2>1. oc = origin["client"] /\ EndLayers(oc, "client", k, C2H, H2C) /\ k >= 1 /\ LayersOK(Layers(oc))
    BY <1>4
  <2>2. SealsInto("client", v, cell)
    OBVIOUS
  <2>. QED
    BY ONLY <2>1, <2>2, SealedEnd, Zenon
<1>6. Shape' /\ ClientEnd' = v /\ SameService /\ RelaysSame
  BY <1>1, <1>5, ClientChanges
<1>7. ClientLayers' = Layers(v) /\ ChainOut' = Chain(Layers(v)) /\ Known' = k
  BY <1>5, <1>6 DEF ClientLayers, ChainOut, Known
<1>8. Read' = Read
  <2>1. 1 \in 1..Len(Layers(oc))
    <3>1. Len(Layers(oc)) = k + Len(oc.e2e) /\ Len(oc.e2e) \in 0..1 /\ k \in Nat
      BY <1>4 DEF EndLayers
    <3>2. PICK n, q : n = Len(Layers(oc)) /\ q = Len(oc.e2e)
      OBVIOUS
    <3>3. n = k + q /\ q \in 0..1 /\ k \in Nat /\ k >= 1
      BY <1>4, <3>1, <3>2
    <3>4. 1 \in 1..n
      BY ONLY <3>3
    <3>. QED
      BY <3>2, <3>4
  <2>2. Layers(v)[1].bn = Layers(oc)[1].bn
    <3>1. SealedFields(Layers(oc), Layers(v), cell)
      BY <1>5, SealFields
    <3>. QED
      BY <2>1, <3>1 DEF SealedFields
  <2>. QED
    BY <1>3, <1>7, <2>2 DEF Read, ClientLayers
<1>9. SealedFrom(ClientLayers, ClientLayers', cell) /\ CellOK(ChainOut', Outbound(ClientEnd, cell), 1, Sent)
  BY <1>3, <1>5, <1>7 DEF ClientLayers, Sent
<1>. QED
  BY <1>3, <1>5, <1>6, <1>7, <1>8, <1>9 DEF Sealed

\* What has come over the bridge, the client has sent.
LEMMA MeetBehind ==
  ASSUME Good, Len(ServiceEnd.hops) = 1, ClientEnd.e2e # <<>>
  PROVE  ServiceLayers[1].bn \in Nat /\ ServiceLayers[1].bn + 1 <= Len(MeetBack[2].d)
<1>1. Shape /\ ClientOut /\ Bridged /\ ServiceBack
  BY DEF Good
<1>2. ClientIs /\ ClientChain /\ MeetBackIs
  BY GoodFacts DEF Facts
<1>3. /\ Known = PathLen /\ PathLen \in Nat /\ PathLen >= 1 /\ Meet \in DOMAIN relays
  BY <1>1, E2EUsed, KnownIs
<1>4. PICK k, ls, G, N, x, y, R, Q :
        /\ k = Known /\ ls = ClientLayers /\ G = ChainOut /\ N = Sent /\ x = held["fetch"] /\ y = held["pump"]
        /\ R = Relayed /\ Q = OutQueues
  OBVIOUS
<1>5. /\ Len(ls) = k + 1 /\ ls[k + 1] = ClientEnd.e2e[1] /\ k \in Nat /\ k >= 1 /\ k = PathLen /\ Known > 0 /\ ChainIsFor(ls, k)
  <2>1. k = PathLen /\ k \in Nat /\ k >= 1 /\ Known > 0
    BY <1>3, <1>4
  <2>2. Len(ls) = k + 1 /\ ls[k + 1] = ClientEnd.e2e[1]
    BY <1>2, <1>4 DEF ClientIs, EndLayers, ClientLayers
  <2>3. ChainIsFor(ls, k)
    BY <1>2, <1>4, <2>1 DEF ClientChain
  <2>. QED
    BY <2>1, <2>2, <2>3
<1>6. /\ ChainOK(G) /\ N \in Nat /\ k <= Len(G) /\ Full(G, N) /\ Len(G) = k + 1 /\ G[k + 1].d = ls[k + 1].fd
      /\ G[k + 1].o \in Nat
  <2>1. G = Chain(ls) /\ N = ls[1].fn
    BY <1>4 DEF ChainOut, Sent
  <2>2. k + 1 \in 1..Len(ls) /\ k <= k + 1
    BY <1>5
  <2>. QED
    BY <1>5, <2>1, <2>2 DEF ChainIsFor
<1>7. OutLine(G, k, N, x, y, R, Q)
  BY <1>1, <1>4, <1>5 DEF ClientOut
<1>8. Passed(k) <= N /\ Passed(k) \in Nat
  <2>1. PICK top : top = N - One(x) - One(y)
    OBVIOUS
  <2>2. OutWay(G, k, N, top, R, Q)
    BY <1>5, <1>6, <1>7, <2>1, LineTop
  <2>3. k \in 1..k /\ k \in 0..k
    BY <1>5
  <2>4. OutTurn(G, top, R, k) \in Nat /\ OutTurn(G, top, R, k) <= N /\ OutTurn(G, top, R, k) = R[k].fn + G[k].o
    BY <1>5, <1>6, <2>2, <2>3, OutTurns
  <2>5. R[k] = RelayHop(k)
    BY <1>4, <2>3, RelayedIs
  <2>. QED
    BY <1>4, <2>4, <2>5 DEF Passed
<1>9. Len(G[k + 1].d) = N - G[k + 1].o + 1
  BY <1>5, <1>6 DEF Full
<1>10. PICK o, T, b, n, w : o = G[k + 1].o /\ T = Passed(k) /\ b = MeetHop.bn /\ n = Len(G[k + 1].d) /\ w = ServiceLayers[1].bn
  OBVIOUS
<1>11. b = IF T > o THEN T - o ELSE 0
  BY <1>1, <1>3, <1>4, <1>5, <1>10 DEF Bridged
<1>12. w \in Nat /\ w <= b
  <2>1. PICK H, R1, Q1 : H = MeetBack /\ R1 = <<MeetHop>> /\ Q1 = <<backward[Meet]>>
    OBVIOUS
  <2>2. BackLine(H, 1, w, <<>>, <<>>, R1, Q1) /\ ChainOK(H) /\ 1 <= Len(H) /\ H[1].o = 0
    <3>1. BackLine(H, 1, w, <<>>, <<>>, R1, Q1)
      BY <1>1, <1>10, <2>1 DEF ServiceBack
    <3>2. ChainOK(H) /\ Len(H) = 2 /\ H[1].o = 0
      BY <1>2, <2>1 DEF MeetBackIs
    <3>. QED
      BY <3>1, <3>2
  <2>3. PICK z, top : z = BackTurn(H, w, R1, 1) /\ top = z - One(<<>>) - One(<<>>)
    OBVIOUS
  <2>4. BackLineOK(H, 1, w, <<>>, <<>>, R1, Q1, z, top)
    BY <2>2, <2>3, BackLineTop
  <2>5. w \in Nat /\ BackWay(H, 1, w, top, R1, Q1) /\ top <= z /\ top \in Nat
    BY <2>4 DEF BackLineOK
  <2>6. BackTurn(H, w, R1, 1 - 1) <= BackFed(H, 1, top, R1, 1) /\ R1[1].bn \in Nat
    BY <2>5 DEF BackWay
  <2>7. BackTurn(H, w, R1, 1 - 1) = w /\ BackFed(H, 1, top, R1, 1) = top /\ z = R1[1].bn + 0
    BY <2>2, <2>3 DEF BackTurn, BackFed
  <2>8. R1[1].bn = b
    BY <1>10, <2>1
  <2>9. w <= top /\ z = b /\ b \in Nat
    BY <2>6, <2>7, <2>8
  <2>. QED
    BY ONLY <2>5, <2>9
<1>13. n = N - o + 1 /\ T <= N /\ T \in Nat /\ o \in Nat /\ N \in Nat /\ o <= N
  <2>1. n = N - o + 1 /\ T <= N /\ T \in Nat /\ o \in Nat /\ N \in Nat
    BY <1>6, <1>8, <1>9, <1>10
  <2>2. n \in Nat /\ n >= 1
    <3>1. k + 1 \in 1..Len(G)
      BY <1>5, <1>6
    <3>2. IsSeq(G[k + 1].d) /\ Len(G[k + 1].d) >= 1
      BY <1>6, <3>1 DEF ChainOK
    <3>. QED
      BY <1>10, <3>2, IsSeqShape
  <2>3. o <= N
    BY ONLY <2>1, <2>2
  <2>. QED
    BY <2>1, <2>3
<1>14. w + 1 <= n
  BY ONLY <1>11, <1>12, <1>13
<1>15. MeetBack[2].d = G[k + 1].d
  BY <1>2, <1>5, <1>6 DEF MeetBackIs
<1>. QED
  BY <1>10, <1>12, <1>14, <1>15

\* What a cell sealed at the client leaves as it was, or in step.
LEMMA SealKeeps ==
  ASSUME Good, Known > 0, NEW cell, Sealed(cell), NEW t \in FromClient, held[t] = <<>>,
         Holds(t, Outbound(ClientEnd, cell), Sent), UNCHANGED <<relays, forward, backward, tables, ghosts>>
  PROVE  ClientOut' /\ ServiceWayOut' /\ RelaysSaid' /\ ClientHears' /\ ClientBack' /\ Bridged' /\ ServiceBack' /\ Timely'
<1>1. /\ Shape /\ Building /\ ClientOut /\ ServiceWayOut /\ RelaysSaid /\ ClientHears /\ ClientBack
      /\ Bridged /\ ServiceBack /\ Control /\ Contents /\ Timely
  BY DEF Good
<1>2. ClientIs /\ ServiceIs /\ ClientChain /\ ServiceChain /\ BackIs /\ MeetBackIs
  BY GoodFacts DEF Facts
<1>3. /\ Shape' /\ SameService /\ RelaysSame /\ Known' = Known /\ Read' = Read
      /\ SealedFrom(ClientLayers, ClientLayers', cell)
      /\ ClientEnd'.e2e # <<>> <=> ClientEnd.e2e # <<>>
      /\ CellOK(ChainOut', Outbound(ClientEnd, cell), 1, Sent)
  BY DEF Sealed
<1>4. ClientIs' /\ ServiceIs'
  BY <1>3, EndsAreNext
<1>5. PICK k, ls, ms, G, H, c :
        /\ k = Known /\ ls = ClientLayers /\ ms = ClientLayers' /\ G = ChainOut /\ H = ChainOut' /\ c = Outbound(ClientEnd, cell)
  OBVIOUS
<1>6. /\ k \in Nat /\ k >= 1 /\ ChainIsFor(ls, k) /\ LayersOK(ls) /\ KeysApart(ls) /\ G = Chain(ls) /\ H = Chain(ms)
      /\ Len(ls) \in Nat /\ k <= Len(ls) /\ SealedFrom(ls, ms, cell) /\ Sent = ls[1].fn
  <2>1. k \in Nat /\ k >= 1
    BY <1>1, <1>5, KnownIs
  <2>2. ChainIsFor(ls, k)
    BY <1>2, <1>5 DEF ClientChain
  <2>3. G = Chain(ls) /\ H = Chain(ms) /\ Sent = ls[1].fn
    BY <1>5 DEF ChainOut, Sent
  <2>. QED
    BY <1>3, <1>5, <2>1, <2>2, <2>3 DEF ChainIsFor
<1>7. LayersOK(ms) /\ KeysApart(ms) /\ SealedFields(ls, ms, cell) /\ Len(ms) = Len(ls)
  BY <1>6, SealLayers, SealFields DEF SealedFrom
<1>8. /\ ms[1].fn = ls[1].fn + 1 /\ ls[1].fn \in Nat /\ 1 \in 1..Len(ls)
      /\ \A i \in 1..Len(ls) : H[i].o = G[i].o
  <2>1. 1 \in 1..Len(ls)
    BY <1>6
  <2>2. ls[1].fn \in Nat /\ ms[1].fn = ls[1].fn + 1
    BY <1>6, <1>7, <2>1, LayersNat DEF SealedFields
  <2>3. ASSUME NEW i \in 1..Len(ls) PROVE H[i].o = G[i].o
    <3>1. ls[i].fn \in Nat /\ ms[i].fn = ls[i].fn + 1
      BY <1>6, <1>7, LayersNat DEF SealedFields
    <3>2. H[i].o = ms[1].fn - ms[i].fn
      BY <1>6, <1>7, ChainIs
    <3>3. G[i].o = ls[1].fn - ls[i].fn
      BY <1>6, ChainIs
    <3>4. PICK a, b : a = ls[1].fn /\ b = ls[i].fn
      OBVIOUS
    <3>5. a \in Nat /\ b \in Nat
      BY <2>2, <3>1, <3>4
    <3>6. (a + 1) - (b + 1) = a - b
      BY ONLY <3>5
    <3>. QED
      BY <2>2, <3>1, <3>2, <3>3, <3>4, <3>6
  <2>. QED
    BY <2>1, <2>2, <2>3
<1>9. \A j \in 1..Known : RelayHop(j)' = RelayHop(j)
  BY <1>3 DEF RelaysSame
<1>10. MeetHop' = MeetHop /\ Steps({}) /\ StagesStay
  BY <1>3 DEF RelaysSame
<1>11. /\ held' = [u \in OnionTask |-> held'[u]] /\ held'[t] = <<[cell |-> c, turn |-> Sent]>>
       /\ \A u \in OnionTask : u # t => held'[u] = held[u]
  <2>1. held = [u \in OnionTask |-> held[u]]
    BY <1>1 DEF Shape
  <2>2. PICK e : e = <<[cell |-> c, turn |-> Sent]>>
    OBVIOUS
  <2>3. held' = [held EXCEPT ![t] = e] /\ t \in OnionTask
    BY <1>5, <2>2 DEF Holds, OnionTask
  <2>. QED
    BY <2>1, <2>2, <2>3
<1>12. held'["clientReader"] = held["clientReader"] /\ held'["serviceReader"] = held["serviceReader"]
  BY <1>11 DEF OnionTask, FromClient, AtPoint
<1>13. ClientOut'
  <2>1. PICK x, y, N, R, Q, e, f, g :
          /\ x = held["fetch"] /\ y = held["pump"] /\ N = ls[1].fn /\ R = Relayed /\ Q = OutQueues
          /\ e = <<[cell |-> c, turn |-> ls[1].fn]>> /\ f = held'["fetch"] /\ g = held'["pump"]
    OBVIOUS
  <2>2. OutLine(G, k, N, x, y, R, Q)
    BY <1>1, <1>5, <1>6, <2>1 DEF ClientOut
  <2>3. N \in Nat /\ CellOK(Chain(ms), c, 1, ls[1].fn)
    BY <1>3, <1>5, <1>6, <1>8, <2>1
  <2>4. OutLine(H, k, ms[1].fn, f, g, R, Q)
    <3>1. CASE t = "fetch"
      <4>1. x = <<>> /\ f = e /\ g = y
        BY <1>6, <1>11, <2>1, <3>1 DEF OnionTask, FromClient
      <4>2. OutLine(Chain(ls), k, ls[1].fn, x, y, R, Q)
        BY <1>6, <2>1, <2>2
      <4>3. OutLine(Chain(ms), k, ms[1].fn, <<[cell |-> c, turn |-> ls[1].fn]>>, y, R, Q)
        BY ONLY <1>6, <2>3, <4>1, <4>2, LineSeal
      <4>. QED
        BY <1>6, <2>1, <4>1, <4>3
    <3>2. CASE t = "pump"
      <4>1. y = <<>> /\ g = e /\ f = x
        BY <1>6, <1>11, <2>1, <3>2 DEF OnionTask, FromClient
      <4>2. OutLine(Chain(ls), k, ls[1].fn, y, x, R, Q)
        <5>1. OutLine(G, k, N, y, x, R, Q)
          BY ONLY <2>2, <2>3, LineSwap
        <5>. QED
          BY <1>6, <2>1, <5>1
      <4>3. OutLine(Chain(ms), k, ms[1].fn, <<[cell |-> c, turn |-> ls[1].fn]>>, x, R, Q)
        BY ONLY <1>6, <2>3, <4>1, <4>2, LineSeal
      <4>4. OutLine(H, k, ms[1].fn, e, x, R, Q)
        BY <1>6, <2>1, <4>3
      <4>5. ms[1].fn \in Nat
        BY <1>8
      <4>6. OutLine(H, k, ms[1].fn, x, e, R, Q)
        BY ONLY <4>4, <4>5, LineSwap
      <4>. QED
        BY <4>1, <4>6
    <3>. QED
      BY <3>1, <3>2 DEF FromClient
  <2>5. Relayed' = R /\ OutQueues' = Q
    BY <1>3, <1>9, <2>1 DEF Relayed, OutQueues, LegTo
  <2>6. Sent' = ms[1].fn /\ Known' = k /\ ~(k = 0)
    BY <1>3, <1>5, <1>6 DEF Sent
  <2>. QED
    BY <1>5, <1>7, <2>1, <2>4, <2>5, <2>6 DEF ClientOut
<1>14. ServiceWayOut'
  <2>1. MeetOutStill
    BY <1>10 DEF MeetOutStill, Meet
  <2>. QED
    BY <1>1, <1>2, <1>3, <2>1, ServiceWayOutStays
<1>15. cookie' = cookie /\ ServiceEnd' = ServiceEnd
  BY <1>3 DEF tables, SameService
<1>16. RelaysSaid' /\ ChainBack' = ChainBack
  <2>1. SaidStill
    BY <1>9 DEF SaidStill
  <2>2. RelayHop(Known)'.bn = RelayHop(Known).bn
    BY <1>3, <1>5, <1>9, AtKnown DEF RelaysSame
  <2>3. RelaysSaid'
    BY <1>1, <1>2, <1>3, <1>10, <1>15, <2>1, <2>2, RelaysSaidStays
  <2>. QED
    BY <1>3, <1>15, <2>1, <2>3, ChainBackStays
<1>17. ClientHears'
  <2>1. PICK B : B = ChainBack
    OBVIOUS
  <2>2. ASSUME NEW i \in 1..Len(ls) PROVE ClientHeard(i)'
    <3>1. ClientHeard(i)
      BY <1>1, <1>5 DEF ClientHears
    <3>2. ms[i].bn = ls[i].bn /\ ms[i].bd = ls[i].bd /\ ms[i].bk = ls[i].bk /\ ms[1].bn = ls[1].bn
      BY <1>7, <1>8 DEF SealedFields
    <3>3. /\ ls[i].bn + Starts(i) = ls[1].bn
          /\ IF i > Len(B) THEN ls[i].bd = <<ls[i].bk>> ELSE Heard(B, i, ls[i].bn, ls[i].bd)
      BY <1>5, <2>1, <3>1 DEF ClientHeard
    <3>4. /\ ms[i].bn + Starts(i) = ms[1].bn
          /\ IF i > Len(B) THEN ms[i].bd = <<ms[i].bk>> ELSE Heard(B, i, ms[i].bn, ms[i].bd)
      BY <3>2, <3>3
    <3>5. ClientLayers' = ms /\ ChainBack' = B
      BY <1>5, <1>16, <2>1
    <3>. QED
      BY <3>4, <3>5 DEF ClientHeard, Starts
  <2>. QED
    BY <1>5, <1>7, <2>2 DEF ClientHears
<1>18. ClientBack'
  <2>1. BackHopsStill
    BY <1>9 DEF BackHopsStill, LegTo
  <2>. QED
    BY <1>1, <1>2, <1>3, <1>12, <1>16, <2>1, ClientBackStays
<1>19. ASSUME ClientEnd.e2e # <<>>
       PROVE  /\ Known = PathLen /\ Len(ls) = k + 1 /\ k = PathLen /\ k + 1 \in 1..Len(ls) /\ k \in 1..Len(ls)
              /\ ClientEnd.e2e[1] = ls[k + 1] /\ ClientEnd'.e2e[1] = ms[k + 1]
  <2>1. Known = PathLen /\ k = PathLen
    BY <1>5, <1>19, E2EUsed
  <2>2. Len(ls) = k + 1 /\ ClientEnd.e2e[1] = ls[k + 1]
    BY <1>2, <1>5, <1>19 DEF ClientIs, EndLayers, ClientLayers
  <2>3. ClientEnd'.e2e[1] = ms[k + 1]
    BY <1>3, <1>4, <1>5, <1>19 DEF ClientIs, EndLayers, ClientLayers
  <2>4. k + 1 \in 1..Len(ls) /\ k \in 1..Len(ls)
    BY <1>6, <2>2
  <2>. QED
    BY <2>1, <2>2, <2>3, <2>4
<1>20. Bridged'
  <2>1. CASE ClientEnd.e2e = <<>>
    <3>1. Meet \in DOMAIN relays' => Meet \in DOMAIN relays /\ MeetHop'.bn = MeetHop.bn
      BY <1>10
    <3>2. ~(ClientEnd'.e2e # <<>>) /\ ~(ClientEnd.e2e # <<>>)
      BY <1>3, <2>1
    <3>3. Meet \in DOMAIN relays => MeetHop.bn = 0
      BY <1>1, <3>2 DEF Bridged
    <3>. QED
      BY <3>1, <3>2, <3>3 DEF Bridged, Meet
  <2>2. CASE ClientEnd.e2e # <<>>
    <3>1. PICK T, o : T = Passed(PathLen) /\ o = ChainOut[PathLen + 1].o
      OBVIOUS
    <3>2. Passed(PathLen)' = T /\ ChainOut'[PathLen + 1].o = o
      <4>1. H[k].o = G[k].o /\ H[k + 1].o = G[k + 1].o /\ k = PathLen /\ k \in 1..Known
        BY <1>5, <1>6, <1>8, <1>19, <2>2
      <4>2. RelayHop(PathLen)' = RelayHop(PathLen)
        BY <1>9, <4>1
      <4>3. Passed(PathLen)' = RelayHop(PathLen)'.fn + H[PathLen].o
        BY <1>5 DEF Passed, RelayHop, LegTo
      <4>. QED
        BY <1>5, <3>1, <4>1, <4>2, <4>3 DEF Passed
    <3>3. Meet \in DOMAIN relays' => MeetHop'.bn = IF ClientEnd'.e2e # <<>> /\ T > o THEN T - o ELSE 0
      BY <1>1, <1>3, <1>10, <2>2, <3>1 DEF Bridged
    <3>. QED
      BY <3>2, <3>3 DEF Bridged, Meet
  <2>. QED
    BY <2>1, <2>2
<1>21. MeetBackIs'
  BY <1>4, <1>13, MeetBackChainNext
<1>22. PICK J, K : J = MeetBack /\ K = MeetBack'
  OBVIOUS
<1>23. ClientEnd.e2e = <<>> => K = J
  BY <1>3, <1>22 DEF MeetBack, BK, Meet
<1>24. ClientEnd.e2e # <<>> => SaidOnto(J, K, 2, cell) /\ ChainOK(J) /\ Len(J) = 2
  <2>1. SUFFICES ASSUME ClientEnd.e2e # <<>> PROVE SaidOnto(J, K, 2, cell) /\ ChainOK(J) /\ Len(J) = 2
    OBVIOUS
  <2>2. /\ ChainOK(J) /\ Len(J) = 2 /\ J[1].k = BK(Meet) /\ J[1].o = 0 /\ J[1].d = <<BK(Meet)>>
        /\ J[2].k = C2H /\ J[2].o = 0 /\ J[2].d = ls[k + 1].fd
    BY <1>2, <1>19, <1>22, <2>1 DEF MeetBackIs
  <2>3. /\ Len(K) = 2 /\ K[1].k = BK(Meet) /\ K[1].o = 0 /\ K[1].d = <<BK(Meet)>>
        /\ K[2].k = C2H /\ K[2].o = 0 /\ K[2].d = ms[k + 1].fd
    <3>1. ClientEnd'.e2e # <<>>
      BY <1>3, <2>1
    <3>. QED
      BY <1>19, <1>21, <1>22, <2>1, <3>1 DEF MeetBackIs, BK, Meet, C2H, Meeting, ServiceKey
  <2>4. ms[k + 1].fd = Append(ls[k + 1].fd, cell)
    BY <1>7, <1>19, <2>1 DEF SealedFields
  <2>5. \A i \in 1..Len(J) : i = 1 \/ i = 2
    BY <2>2
  <2>. QED
    BY <2>2, <2>3, <2>4, <2>5 DEF SaidOnto
<1>25. ServiceBack'
  <2>1. SUFFICES ASSUME Len(ServiceEnd.hops) > 0
                 PROVE  BackLine(K, 1, ServiceLayers[1].bn, <<>>, <<>>, <<MeetHop>>, <<backward[Meet]>>)
    <3>1. /\ ServiceEnd' = ServiceEnd /\ ServiceLayers' = ServiceLayers /\ <<MeetHop'>> = <<MeetHop>>
          /\ <<backward'[Meet]>> = <<backward[Meet]>>
      BY <1>3, <1>10 DEF SameService
    <3>. QED
      BY <1>22, <3>1 DEF ServiceBack, Meet
  <2>2. PICK w, R, Q : w = ServiceLayers[1].bn /\ R = <<MeetHop>> /\ Q = <<backward[Meet]>>
    OBVIOUS
  <2>3. BackLine(J, 1, w, <<>>, <<>>, R, Q)
    BY <1>1, <1>22, <2>1, <2>2 DEF ServiceBack
  <2>4. PICK b : b = BackTurn(J, w, R, 1)
    OBVIOUS
  <2>5. ChainOK(J) /\ ChainOK(K) /\ 1 <= Len(J) /\ Grows(J, K, b)
    <3>1. ChainOK(J) /\ ChainOK(K) /\ Len(J) \in {1, 2}
      BY <1>2, <1>21, <1>22 DEF MeetBackIs
    <3>2. CASE ClientEnd.e2e = <<>>
      BY <1>23, <3>1, <3>2, GrowsSame
    <3>3. CASE ClientEnd.e2e # <<>>
      <4>1. SaidOnto(J, K, 2, cell) /\ 2 \in 1..Len(J)
        BY <1>24, <3>3
      <4>2. Grows(J, K, b)
        BY <3>1, <4>1, GrowsSaid
      <4>. QED
        BY <1>24, <3>1, <3>3, <4>2
    <3>. QED
      BY <3>2, <3>3
  <2>6. 1 \in Nat /\ 1 >= 1 /\ \A i \in 1..1 : R[i].bn = R[i].bn /\ Q[i] = Q[i]
    OBVIOUS
  <2>7. BackLine(K, 1, w, <<>>, <<>>, R, Q)
    BY ONLY <2>3, <2>4, <2>5, <2>6, BackLineGrows
  <2>. QED
    BY <2>2, <2>7
<1>26. Timely'
  <2>1. SUFFICES ASSUME "keys late" \notin excuses, Len(ServiceEnd.hops) = 1, ServiceEnd.e2e # <<>>, ClientEnd.e2e # <<>>
                 PROVE  Heard(K, 2, ServiceEnd.e2e[1].bn, ServiceEnd.e2e[1].bd)
    <3>1. ServiceEnd' = ServiceEnd /\ ServiceLayers' = ServiceLayers /\ excuses' = excuses /\ lost' = lost
      BY <1>3 DEF SameService, ghosts
    <3>. QED
      BY <1>1, <1>3, <1>22, <3>1 DEF Timely, C2H, Meeting, ServiceKey
  <2>2. /\ ServiceEnd.e2e[1].bn = ServiceLayers[1].bn
        /\ Heard(J, 2, ServiceEnd.e2e[1].bn, ServiceEnd.e2e[1].bd)
    BY <1>1, <1>22, <2>1 DEF Timely
  <2>3. PICK r, fd : r = ServiceEnd.e2e[1].bn /\ fd = ServiceEnd.e2e[1].bd
    OBVIOUS
  <2>4. r \in Nat /\ r + 1 <= Len(J[2].d)
    BY <1>22, <2>1, <2>2, <2>3, MeetBehind
  <2>5. SaidOnto(J, K, 2, cell) /\ ChainOK(J) /\ Len(J) = 2 /\ 2 \in 1..Len(J)
    <3>1. SaidOnto(J, K, 2, cell) /\ ChainOK(J) /\ Len(J) = 2
      BY <1>24, <2>1
    <3>. QED
      BY <3>1
  <2>6. Heard(J, 2, r, fd)
    BY <2>2, <2>3
  <2>7. ~(2 < Len(J))
    BY <2>5
  <2>8. Heard(K, 2, r, fd)
    BY ONLY <2>4, <2>5, <2>6, <2>7, HeardSaid
  <2>. QED
    BY <2>3, <2>8
<1>. QED
  BY <1>13, <1>14, <1>16, <1>17, <1>18, <1>20, <1>25, <1>26

LEMMA ContentsSeals ==
  ASSUME Good, Known > 0, NEW cell, Sealed(cell), rendezvousing' = rendezvousing,
         cell[1] = "extend2" =>
           Known < PathLen /\ cell[2] = LegTo(Known + 1) /\ cell[3] \in LinkSpecs /\ ClientEnd'.pending # NoKey,
         ClientEnd.pending # NoKey => ClientEnd'.pending # NoKey,
         fetching \in {"established", "introduced"} => fetching' \in {"established", "introduced"},
         cell[1] = "establish" => fetching = "build" /\ fetching' \in {"established", "introduced"}
  PROVE  Contents'
<1>1. Shape /\ ClientOut /\ Contents
  BY DEF Good
<1>2. ClientIs /\ ClientChain
  BY GoodFacts DEF Facts
<1>3. /\ Shape' /\ SameService /\ Known' = Known /\ SealedFrom(ClientLayers, ClientLayers', cell)
      /\ (ClientEnd'.e2e # <<>> <=> ClientEnd.e2e # <<>>)
  BY DEF Sealed
<1>4. ClientIs'
  BY <1>3, EndsAreNext
<1>5. PICK k, ls, ms : k = Known /\ ls = ClientLayers /\ ms = ClientLayers'
  OBVIOUS
<1>6. /\ k \in Nat /\ k >= 1 /\ k <= PathLen /\ PathLen \in Nat /\ LayersOK(ls) /\ Len(ls) \in Nat /\ k <= Len(ls)
      /\ SealedFields(ls, ms, cell) /\ Len(ms) = Len(ls)
      /\ (ClientEnd.e2e = <<>> => Len(ls) = k) /\ (ClientEnd.e2e # <<>> => Len(ls) = k + 1 /\ ls[k + 1] = ClientEnd.e2e[1])
      /\ (ClientEnd'.e2e # <<>> => ms[k + 1] = ClientEnd'.e2e[1])
  <2>1. k \in Nat /\ k >= 1 /\ k <= PathLen /\ PathLen \in Nat
    BY <1>1, <1>5, KnownIs
  <2>2. ChainIsFor(ls, k)
    BY <1>2, <1>5 DEF ClientChain
  <2>3. SealedFields(ls, ms, cell) /\ Len(ms) = Len(ls)
    BY <1>3, <1>5, SealFields DEF SealedFrom
  <2>4. ClientEnd.e2e # <<>> => Len(ls) = k + 1 /\ ls[k + 1] = ClientEnd.e2e[1]
    BY <1>2, <1>5 DEF ClientIs, EndLayers, ClientLayers
  <2>5. ClientEnd.e2e = <<>> => Len(ls) = k
    BY <1>2, <1>5, <2>1 DEF ClientIs, EndLayers, ClientLayers
  <2>6. ClientEnd'.e2e # <<>> => ms[k + 1] = ClientEnd'.e2e[1]
    BY <1>3, <1>4, <1>5 DEF ClientIs, EndLayers, ClientLayers
  <2>. QED
    BY <2>1, <2>2, <2>3, <2>4, <2>5, <2>6 DEF ChainIsFor
<1>7. ASSUME NEW i \in 1..k
      PROVE  /\ \A q \in 2..Len(ms[i].fd) : ExtendSaid(i, ms[i].fd[q])'
             /\ EstablishSaid(ms[i].fd)'
  <2>1. PICK s, z, n : s = ls[i].fd /\ z = ms[i].fd /\ n = Len(s)
    OBVIOUS
  <2>2. i \in 1..Len(ls) /\ i \in 1..Known
    BY <1>5, <1>6
  <2>3. IsSeq(s) /\ n \in Nat /\ n >= 1
    BY <1>6, <2>1, <2>2, LayersNat
  <2>4. (\A q \in 2..n : ExtendSaid(i, s[q])) /\ EstablishSaid(s)
    BY <1>1, <1>5, <2>1, <2>2 DEF Contents
  <2>5. ASSUME NEW q \in 2..n PROVE ExtendSaid(i, s[q])'
    <3>1. ExtendSaid(i, s[q])
      BY <2>4
    <3>. QED
      BY <1>3, <3>1 DEF ExtendSaid, LegTo
  <2>6. CASE i # Len(ls)
    <3>1. z = s
      BY <1>6, <2>1, <2>2, <2>6 DEF SealedFields
    <3>2. EstablishSaid(s)'
      BY <2>4 DEF EstablishSaid
    <3>. QED
      BY <2>1, <2>5, <3>1, <3>2
  <2>7. CASE i = Len(ls)
    <3>1. z = Append(s, cell)
      BY <1>6, <2>1, <2>2, <2>7 DEF SealedFields
    <3>2. /\ IsSeq(Append(s, cell)) /\ Len(Append(s, cell)) = Len(s) + 1 /\ Append(s, cell)[Len(s) + 1] = cell
          /\ \A j \in 1..Len(s) : Append(s, cell)[j] = s[j]
      BY ONLY <2>3, AppendIs
    <3>3. Len(z) = n + 1 /\ z[n + 1] = cell /\ \A j \in 1..n : z[j] = s[j]
      BY <2>1, <3>1, <3>2
    <3>4. \A q \in 2..Len(z) : (q \in 2..n /\ z[q] = s[q]) \/ (q = n + 1 /\ z[q] = cell)
      <4>1. \A q \in 2..(n + 1) : q \in 2..n \/ q = n + 1
        BY <2>3
      <4>2. \A q \in 2..n : q \in 1..n
        BY <2>3
      <4>. QED
        BY <3>3, <4>1, <4>2
    <3>5. i = k /\ i = Known
      BY <1>5, <1>6, <2>7
    <3>6. ExtendSaid(i, cell)'
      BY <1>3, <3>5 DEF ExtendSaid, LegTo
    <3>7. ASSUME NEW q \in 2..Len(z) PROVE ExtendSaid(i, z[q])'
      <4>1. CASE q \in 2..n /\ z[q] = s[q]
        <5>1. ExtendSaid(i, s[q])'
          BY <2>5, <4>1
        <5>. QED
          BY <4>1, <5>1 DEF ExtendSaid
      <4>2. CASE q = n + 1 /\ z[q] = cell
        BY <3>6, <4>2 DEF ExtendSaid
      <4>. QED
        BY <3>4, <4>1, <4>2
    <3>8. EstablishSaid(z)'
      <4>1. SUFFICES ASSUME NEW q \in 2..Len(z), NEW r \in 2..Len(z), z[q][1] = "establish"
                     PROVE  fetching' \in {"established", "introduced"} /\ (z[r][1] = "establish" => r = q)
        BY DEF EstablishSaid
      <4>2. CASE cell[1] = "establish"
        <5>1. \A p \in 2..n : s[p][1] # "establish"
          BY <2>1, <2>4, <4>2 DEF EstablishSaid
        <5>2. q = n + 1 /\ (z[r][1] = "establish" => r = n + 1)
          BY <3>4, <4>1, <5>1
        <5>. QED
          BY <4>2, <5>2
      <4>3. CASE cell[1] # "establish"
        <5>1. q \in 2..n /\ z[q] = s[q]
          BY <3>4, <4>1, <4>3
        <5>2. z[r][1] = "establish" => r \in 2..n /\ z[r] = s[r]
          BY <3>4, <4>3
        <5>3. s[q][1] = "establish"
          BY <4>1, <5>1
        <5>4. fetching \in {"established", "introduced"}
          BY <2>1, <2>4, <5>1, <5>3 DEF EstablishSaid
        <5>5. z[r][1] = "establish" => r = q
          BY <2>1, <2>4, <5>1, <5>2, <5>3 DEF EstablishSaid
        <5>. QED
          BY <5>4, <5>5
      <4>. QED
        BY <4>2, <4>3
    <3>. QED
      BY <2>1, <3>7, <3>8
  <2>. QED
    BY <2>6, <2>7
<1>8. /\ ServiceEnd' = ServiceEnd
      /\ Len(ServiceEnd.hops) = 1 =>
           ServiceEnd.hops[1].fd = IF rendezvousing \in {"sent", "installed"} THEN <<FK(Meet), Rendezvous1>> ELSE <<FK(Meet)>>
      /\ ServiceEnd.e2e # <<>> =>
           /\ ServiceEnd.e2e[1].fd[1] = H2C
           /\ \A q \in 2..Len(ServiceEnd.e2e[1].fd) : ServiceEnd.e2e[1].fd[q][1] = "answer"
  BY <1>1, <1>3 DEF Contents, SameService
<1>9. ClientEnd'.e2e # <<>> => ClientEnd'.e2e[1].fd[1] = C2H
  <2>1. SUFFICES ASSUME ClientEnd'.e2e # <<>> PROVE ms[k + 1].fd[1] = C2H
    BY <1>6
  <2>2. Len(ls) = k + 1 /\ k + 1 \in 1..Len(ls) /\ ls[k + 1].fd[1] = C2H
    BY <1>1, <1>3, <1>6, <2>1 DEF Contents
  <2>3. ms[k + 1].fd = Append(ls[k + 1].fd, cell)
    BY <1>6, <2>2 DEF SealedFields
  <2>4. PICK s : s = ls[k + 1].fd
    OBVIOUS
  <2>5. IsSeq(s) /\ 1 \in 1..Len(s)
    BY <1>6, <2>2, <2>4, LayersNat
  <2>6. Append(s, cell)[1] = s[1]
    BY ONLY <2>5, AppendIs
  <2>. QED
    BY <2>2, <2>3, <2>4, <2>6
<1>10. ASSUME NEW i \in 1..Known'
       PROVE  /\ \A q \in 2..Len(ClientLayers'[i].fd) : ExtendSaid(i, ClientLayers[i].fd[q])'
              /\ EstablishSaid(ClientLayers[i].fd)'
  <2>1. i \in 1..k /\ ms = ClientLayers' /\ ClientLayers'[i].fd = ms[i].fd
    BY <1>3, <1>5
  <2>2. \A q \in 2..Len(ms[i].fd) : ExtendSaid(i, ms[i].fd[q])'
    BY <1>7, <2>1
  <2>3. EstablishSaid(ms[i].fd)'
    BY <1>7, <2>1
  <2>4. ASSUME NEW q \in 2..Len(ClientLayers'[i].fd) PROVE ExtendSaid(i, ClientLayers[i].fd[q])'
    <3>1. q \in 2..Len(ms[i].fd) /\ ms[i].fd[q] = ClientLayers'[i].fd[q]
      BY <2>1
    <3>2. ExtendSaid(i, ms[i].fd[q])'
      BY <2>2, <3>1
    <3>. QED
      BY <3>1, <3>2 DEF ExtendSaid
  <2>5. EstablishSaid(ClientLayers[i].fd)'
    BY <2>1, <2>3 DEF EstablishSaid
  <2>. QED
    BY <2>4, <2>5
<1>. QED
  <2>1. FK(Meet)' = FK(Meet) /\ Rendezvous1' = Rendezvous1 /\ H2C' = H2C /\ C2H' = C2H
    BY DEF FK, Meet, Rendezvous1, Auth, Meeting, ServiceKey, H2C, C2H
  <2>2. \A i \in 1..Known' : /\ \A q \in 2..Len(ClientLayers'[i].fd) : ExtendSaid(i, ClientLayers[i].fd[q])'
                              /\ EstablishSaid(ClientLayers[i].fd)'
    BY <1>10
  <2>3. Len(ServiceEnd'.hops) = 1 =>
           ServiceEnd'.hops[1].fd = IF rendezvousing' \in {"sent", "installed"} THEN <<FK(Meet)', Rendezvous1'>> ELSE <<FK(Meet)'>>
    BY <1>8, <2>1
  <2>4. ServiceEnd'.e2e # <<>> =>
           /\ ServiceEnd'.e2e[1].fd[1] = H2C'
           /\ \A q \in 2..Len(ServiceEnd'.e2e[1].fd) : ServiceEnd'.e2e[1].fd[q][1] = "answer"
    BY <1>8, <2>1
  <2>5. ClientEnd'.e2e # <<>> => ClientEnd'.e2e[1].fd[1] = C2H'
    BY <1>9, <2>1
  <2>6. (\A i \in 1..Known : /\ \A q \in 2..Len(ClientLayers[i].fd) : ExtendSaid(i, ClientLayers[i].fd[q])
                             /\ EstablishSaid(ClientLayers[i].fd))'
    <3>1. ASSUME NEW i \in 1..Known', NEW q \in 2..Len(ClientLayers'[i].fd) PROVE ExtendSaid(i, ClientLayers[i].fd[q])'
      BY <1>10
    <3>2. ASSUME NEW i \in 1..Known' PROVE EstablishSaid(ClientLayers[i].fd)'
      BY <1>10
    <3>. QED
      BY ONLY <3>1, <3>2, Zenon
  <2>7. (Len(ServiceEnd.hops) = 1 =>
           ServiceEnd.hops[1].fd = IF rendezvousing \in {"sent", "installed"} THEN <<FK(Meet), Rendezvous1>> ELSE <<FK(Meet)>>)'
    BY <2>3
  <2>8. (ServiceEnd.e2e # <<>> =>
           /\ ServiceEnd.e2e[1].fd[1] = H2C
           /\ \A q \in 2..Len(ServiceEnd.e2e[1].fd) : ServiceEnd.e2e[1].fd[q][1] = "answer")'
    BY <2>4
  <2>9. (ClientEnd.e2e # <<>> => ClientEnd.e2e[1].fd[1] = C2H)'
    BY <2>5
  <2>. QED
    BY <2>6, <2>7, <2>8, <2>9 DEF Contents

LEMMA ControlSeals ==
  ASSUME Good, Known > 0, NEW cell, Sealed(cell), UNCHANGED <<relays, tables, rendezvousing, intro>>,
         \/ UNCHANGED <<fetching, meeting>>
         \/ fetching = "build" /\ Known = PathLen /\ fetching' = "established" /\ meeting' = Meeting
  PROVE  Control'
<1>1. Shape /\ Control
  BY DEF Good
<1>2. /\ ServiceEnd' = ServiceEnd /\ Known' = Known /\ Read' = Read /\ MeetHop' = MeetHop
      /\ (ClientEnd'.e2e # <<>> <=> ClientEnd.e2e # <<>>)
  BY DEF Sealed, SameService, RelaysSame
<1>3. RelayHop(PathLen)' = RelayHop(PathLen)
  BY DEF RelayHop, LegTo
<1>4. Known \in Nat /\ Known > 0 /\ fetching # "start"
  BY <1>1, KnownIs DEF Control
<1>5. cookie # "none" => Known = PathLen /\ PointEstablished'
  BY <1>1, <1>3 DEF Control, PointEstablished
<1>6. cookie' = cookie /\ bridged' = bridged
  BY DEF tables
<1>7. CASE UNCHANGED <<fetching, meeting>>
  BY <1>1, <1>2, <1>4, <1>5, <1>6, <1>7 DEF Control, PointEstablished, Meeting
<1>8. CASE fetching = "build" /\ Known = PathLen /\ fetching' = "established" /\ meeting' = Meeting
  <2>1. rendezvousing = "idle" /\ ClientEnd.e2e = <<>> /\ intro = NoKey
    BY <1>1, <1>8 DEF Control
  <2>. QED
    BY <1>1, <1>2, <1>4, <1>5, <1>6, <1>8, <2>1 DEF Control, PointEstablished, Meeting
<1>. QED
  BY <1>7, <1>8

LEMMA SealStep ==
  ASSUME Good, NEW t \in FromClient, NEW cell, NEW v, held[t] = <<>>, origin["client"].hops # <<>>,
         Holds(t, Outbound(origin["client"], cell), origin["client"].hops[1].fn),
         SealsInto("client", v, cell), origin' = [origin EXCEPT !["client"] = v],
         UNCHANGED <<relays, forward, backward, tables, ghosts>>
  PROVE  /\ Known > 0 /\ Sealed(cell) /\ ClientEnd' = v /\ Known' = Known
         /\ Shape' /\ ClientOut' /\ ServiceWayOut' /\ RelaysSaid' /\ ClientHears' /\ ClientBack' /\ Bridged' /\ ServiceBack' /\ Timely'
         /\ (v.pending = ClientEnd.pending => Building')
<1>1. Shape /\ Building
  BY DEF Good
<1>2. ClientIs
  BY GoodFacts DEF Facts
<1>3. ClientEnd = origin["client"] /\ Known \in Nat /\ Known > 0
  BY <1>1, <1>2, KnownIs DEF ClientIs, EndLayers, ClientEnd
<1>4. Sent = origin["client"].hops[1].fn
  <2>1. PICK k : k = Known
    OBVIOUS
  <2>2. \A i \in 1..k : Layers(ClientEnd)[i] = ClientEnd.hops[i]
    BY <1>2, <2>1 DEF ClientIs, EndLayers
  <2>3. 1 \in 1..k
    BY <1>3, <2>1
  <2>. QED
    BY <1>3, <2>2, <2>3 DEF Sent, ClientLayers
<1>5. Tables'
  <2>1. forward' = forward /\ backward' = backward /\ held = [u \in OnionTask |-> held[u]] /\ t \in OnionTask
    BY <1>1 DEF Shape, OnionTask
  <2>2. forward' = [l \in Leg |-> forward'[l]] /\ backward' = [l \in Leg |-> backward'[l]]
    BY <1>1, <2>1 DEF Shape
  <2>3. held' = [u \in OnionTask |-> held'[u]]
    BY <2>1 DEF Holds
  <2>4. Leg' = Leg /\ OnionTask' = OnionTask
    BY DEF Leg, OnionTask, FromClient, AtPoint, Hops, OriginEnd
  <2>. QED
    BY <2>2, <2>3, <2>4 DEF Tables
<1>6. relays' = relays
  OBVIOUS
<1>7. Sealed(cell) /\ ClientEnd' = v
  BY <1>3, <1>5, <1>6, SealedNow
<1>8. Holds(t, Outbound(ClientEnd, cell), Sent)
  BY <1>3, <1>4
<1>9. ClientOut' /\ ServiceWayOut' /\ RelaysSaid' /\ ClientHears' /\ ClientBack' /\ Bridged' /\ ServiceBack' /\ Timely'
  BY <1>3, <1>7, <1>8, SealKeeps
<1>10. ASSUME v.pending = ClientEnd.pending PROVE Building'
  <2>1. SameService /\ RelaysSame /\ Known' = Known
    BY <1>7 DEF Sealed
  <2>2. CircuitsStay
    <3>1. ASSUME NEW e \in OriginEnd PROVE Len(origin'[e].hops) = Len(origin[e].hops) /\ origin'[e].pending = origin[e].pending
      <4>1. CASE e = "client"
        BY <1>3, <1>7, <1>10, <2>1, <4>1 DEF Known, ClientEnd
      <4>2. CASE e = "service"
        BY <2>1, <4>2 DEF SameService, ServiceEnd
      <4>. QED
        BY <4>1, <4>2 DEF OriginEnd
    <3>. QED
      BY <3>1 DEF CircuitsStay
  <2>3. TouchOnly({}) /\ Near({})
    BY DEF TouchOnly, Near
  <2>4. Steps({}) /\ StagesStay
    BY <2>1 DEF RelaysSame
  <2>. QED
    BY <1>1, <2>2, <2>3, <2>4, BuildingStays
<1>. QED
  BY <1>3, <1>7, <1>9, <1>10 DEF Sealed

LEMMA AfterSeals ==
  ASSUME Good, NEW cell, origin["client"].hops # <<>>, NEW v, v = AfterOutbound(origin["client"], cell)
  PROVE  SealsInto("client", v, cell) /\ v.pending = ClientEnd.pending
<1>1. Shape
  BY DEF Good
<1>2. ClientIs /\ ClientChain
  BY GoodFacts DEF Facts
<1>3. ClientEnd = origin["client"] /\ Known \in Nat /\ Known > 0
  BY <1>1, <1>2, KnownIs DEF ClientIs, EndLayers, ClientEnd
<1>4. PICK oc : oc = origin["client"]
  OBVIOUS
<1>5. OriginOK(oc) /\ LayersOK(Layers(oc)) /\ Len(Layers(oc)) >= 1
  BY <1>2, <1>3, <1>4 DEF ClientIs, EndLayers, ClientChain, ChainIsFor, ClientLayers
<1>6. v = AfterOutbound(oc, cell)
  BY <1>4
<1>7. SameShape(oc, v)
  BY <1>5, <1>6, OutboundIs
<1>. QED
  BY <1>3, <1>4, <1>6, <1>7 DEF SameShape, SealsInto

LEMMA ClientSealsGood ==
  ASSUME Good, NEW t \in FromClient, NEW cell, ClientSeals(t, cell), UNCHANGED <<relays, forward, backward, tables, ghosts>>
  PROVE  /\ Known > 0 /\ Sealed(cell) /\ Known' = Known /\ ClientEnd'.pending = ClientEnd.pending
         /\ Shape' /\ Building' /\ ClientOut' /\ ServiceWayOut' /\ RelaysSaid' /\ ClientHears' /\ ClientBack'
         /\ Bridged' /\ ServiceBack' /\ Timely'
<1>1. PICK v : v = AfterOutbound(origin["client"], cell)
  OBVIOUS
<1>2. /\ held[t] = <<>> /\ origin["client"].hops # <<>>
      /\ Holds(t, Outbound(origin["client"], cell), origin["client"].hops[1].fn)
      /\ origin' = [origin EXCEPT !["client"] = v]
  BY <1>1 DEF ClientSeals, Free
<1>3. SealsInto("client", v, cell) /\ v.pending = ClientEnd.pending
  BY <1>1, <1>2, AfterSeals
<1>. QED
  BY <1>2, <1>3, SealStep

LEMMA PadGood ==
  ASSUME Good, Pad
  PROVE  Good'
<1>1. PICK c : c = <<"drop", 0, 0>>
  OBVIOUS
<1>2. /\ ClientSeals("pump", c) /\ "pump" \in FromClient /\ UNCHANGED <<relays, forward, backward, tables, ghosts>>
      /\ UNCHANGED <<fetching, meeting, intro, rendezvousing>>
  BY <1>1 DEF Pad, FromClient
<1>3. /\ Known > 0 /\ Sealed(c) /\ Known' = Known /\ ClientEnd'.pending = ClientEnd.pending
      /\ Shape' /\ Building' /\ ClientOut' /\ ServiceWayOut' /\ RelaysSaid' /\ ClientHears' /\ ClientBack'
      /\ Bridged' /\ ServiceBack' /\ Timely'
  BY <1>2, ClientSealsGood
<1>4. c[1] = "drop"
  BY <1>1
<1>5. Contents'
  BY <1>2, <1>3, <1>4, ContentsSeals
<1>6. Control'
  BY <1>2, <1>3, ControlSeals
<1>. QED
  BY <1>3, <1>5, <1>6 DEF Good

LEMMA AskGood ==
  ASSUME Good, Ask
  PROVE  Good'
<1>1. PICK c : c = <<"ask", asked, 0>>
  OBVIOUS
<1>2. /\ ClientSeals("fetch", c) /\ "fetch" \in FromClient /\ UNCHANGED <<relays, forward, backward, tables, ghosts>>
      /\ UNCHANGED <<fetching, meeting, intro, rendezvousing>>
  BY <1>1 DEF Ask, FromClient
<1>3. /\ Known > 0 /\ Sealed(c) /\ Known' = Known /\ ClientEnd'.pending = ClientEnd.pending
      /\ Shape' /\ Building' /\ ClientOut' /\ ServiceWayOut' /\ RelaysSaid' /\ ClientHears' /\ ClientBack'
      /\ Bridged' /\ ServiceBack' /\ Timely'
  BY <1>2, ClientSealsGood
<1>4. c[1] = "ask"
  BY <1>1
<1>5. Contents'
  BY <1>2, <1>3, <1>4, ContentsSeals
<1>6. Control'
  BY <1>2, <1>3, ControlSeals
<1>. QED
  BY <1>3, <1>5, <1>6 DEF Good

LEMMA EstablishRendezvousOnGood ==
  ASSUME Good, EstablishRendezvousOn
  PROVE  Good'
<1>1. PICK c : c = <<"establish", 0, 0>>
  OBVIOUS
<1>2. /\ ClientSeals("fetch", c) /\ "fetch" \in FromClient /\ UNCHANGED <<relays, forward, backward, tables, ghosts>>
      /\ UNCHANGED <<intro, rendezvousing>> /\ fetching = "build" /\ fetching' = "established" /\ meeting' = Meeting
      /\ Known = PathLen
  BY <1>1 DEF EstablishRendezvousOn, FromClient, Known, ClientEnd
<1>3. /\ Known > 0 /\ Sealed(c) /\ Known' = Known /\ ClientEnd'.pending = ClientEnd.pending
      /\ Shape' /\ Building' /\ ClientOut' /\ ServiceWayOut' /\ RelaysSaid' /\ ClientHears' /\ ClientBack'
      /\ Bridged' /\ ServiceBack' /\ Timely'
  BY <1>2, ClientSealsGood
<1>4. c[1] = "establish"
  BY <1>1
<1>5. Contents'
  BY <1>2, <1>3, <1>4, ContentsSeals
<1>6. Control'
  BY <1>2, <1>3, ControlSeals
<1>. QED
  BY <1>3, <1>5, <1>6 DEF Good

LEMMA LegToNotNone == ASSUME NEW i PROVE LegTo(i) # NoKey /\ LegTo(i)[1] = "client" /\ LegTo(i)[2] = i
<1>1. PICK l : l = LegTo(i)
  OBVIOUS
<1>2. PICK c : c = "client"
  OBVIOUS
<1>3. l = <<c, i>>
  BY <1>1, <1>2 DEF LegTo
<1>4. Len(<<c, i>>) = 2 /\ <<c, i>>[1] = c /\ <<c, i>>[2] = i
  BY TwoIs
<1>5. Len(<<>>) = 0
  BY EmptyIs
<1>6. l # <<>>
  BY <1>3, <1>4, <1>5
<1>. QED
  BY <1>1, <1>2, <1>3, <1>4, <1>6 DEF NoKey

\* A handshake begun for the hop after the last.
LEMMA BuildingAsks ==
  ASSUME Shape, Building, Known \in 1..(PathLen - 1), ClientEnd.pending = NoKey, SameService, Known' = Known,
         ClientEnd'.pending = LegTo(Known + 1), UNCHANGED <<relays, forward, backward>>
  PROVE  Building'
<1>1. /\ \A e \in OriginEnd : Begun(e)
      /\ Extending
      /\ \A i \in 1..(Known - 1) : Joined(relays[LegTo(i)])
      /\ \A i \in 1..PathLen : i > Known + 1 => Quiet(LegTo(i))
      /\ Len(ServiceEnd.hops) = 1 => ServiceEnd.pending = NoKey /\ Idle(relays[Meet])
  BY DEF Building
<1>2. PICK k : k = Known
  OBVIOUS
<1>3. k \in Nat /\ PathLen \in Nat /\ k >= 1 /\ k < PathLen /\ Known' = k
  BY <1>2, KnownIs
<1>4. \A i : LegTo(i)' = LegTo(i)
  BY DEF LegTo
<1>5. \A l : (Quiet(l)' <=> Quiet(l)) /\ (Absent(l)' <=> Absent(l))
  BY DEF Quiet, Absent
<1>6. \A e \in OriginEnd : Begun(e)'
  <2>1. Begun("client")'
    BY <1>3 DEF Begun, Known, ClientEnd
  <2>2. Begun("service")'
    <3>1. Begun("service") /\ origin'["service"] = origin["service"]
      BY <1>1 DEF SameService, ServiceEnd, OriginEnd
    <3>. QED
      BY <3>1 DEF Begun, Quiet, Absent, Answered, Fresh, CreateFor, CreatedBy, HopState, FK, BK, Auth, NoKey
  <2>. QED
    BY <2>1, <2>2 DEF OriginEnd
<1>7. Extending'
  <2>1. Quiet(LegTo(k + 1)) /\ Idle(LastRelay)
    BY <1>1, <1>2 DEF Extending
  <2>2. Quiet(LegTo(k + 1))' /\ Idle(LastRelay)'
    BY <1>2, <1>3, <2>1 DEF Quiet, Absent, Idle, LastRelay, LegTo
  <2>3. ClientEnd'.pending = LegTo(k + 1) /\ LegTo(k + 1) # NoKey
    BY <1>2, LegToNotNone
  <2>4. NoKey' = NoKey
    BY DEF NoKey
  <2>. QED
    BY <1>3, <1>4, <2>2, <2>3, <2>4 DEF Extending
<1>8. \A i \in 1..(Known' - 1) : Joined(relays[LegTo(i)])'
  BY <1>1, <1>2, <1>3 DEF Joined, LegTo
<1>9. \A i \in 1..PathLen : i > Known' + 1 => Quiet(LegTo(i))'
  BY <1>1, <1>2, <1>3 DEF Quiet, Absent, LegTo
<1>10. Len(ServiceEnd'.hops) = 1 => ServiceEnd'.pending = NoKey' /\ Idle(relays[Meet])'
  BY <1>1 DEF SameService, Idle, Meet, NoKey
<1>. QED
  BY <1>3, <1>6, <1>7, <1>8, <1>9, <1>10 DEF Building

LEMMA ExtendCircuitGood ==
  ASSUME Good, NEW to \in LinkSpecs, ExtendCircuit(to)
  PROVE  Good'
<1>1. PICK c, p, oc : c = <<"extend2", Ephemeral("client"), to>> /\ p = Ephemeral("client") /\ oc = origin["client"]
  OBVIOUS
<1>2. PICK u, v : u = AfterOutbound(oc, c) /\ v = [u EXCEPT !.pending = p]
  OBVIOUS
<1>3. /\ fetching = "build" /\ oc.pending = NoKey /\ Len(oc.hops) \in 1..(PathLen - 1) /\ held["fetch"] = <<>>
      /\ Holds("fetch", Outbound(origin["client"], c), origin["client"].hops[1].fn)
      /\ origin' = [origin EXCEPT !["client"] = v] /\ "fetch" \in FromClient
      /\ UNCHANGED <<relays, forward, backward, tables, ghosts>> /\ UNCHANGED <<fetching, meeting, intro, rendezvousing>>
  BY <1>1, <1>2 DEF ExtendCircuit, Free, FromClient, ends
<1>4. Shape /\ Building
  BY DEF Good
<1>5. Known = Len(oc.hops) /\ ClientEnd = oc /\ Known \in 1..(PathLen - 1) /\ PathLen \in Nat
  BY <1>1, <1>3, <1>4, KnownIs DEF Known, ClientEnd
<1>6. p = LegTo(Known + 1) /\ c[1] = "extend2" /\ c[2] = p /\ c[3] = to
  BY <1>1, <1>5 DEF Ephemeral, LegTo
<1>7. origin["client"].hops # <<>>
  <2>1. Len(oc.hops) # 0
    BY <1>3
  <2>. QED
    BY <1>1, <2>1, EmptyIs
<1>8. SealsInto("client", u, c)
  BY <1>1, <1>2, <1>7, AfterSeals
<1>9. SealsInto("client", v, c) /\ v.pending = p
  <2>1. u = [hops |-> u.hops, e2e |-> u.e2e, pending |-> u.pending] /\ IsSeq(u.hops) /\ IsSeq(u.e2e)
    BY <1>8 DEF SealsInto, OriginOK
  <2>2. v = [hops |-> u.hops, e2e |-> u.e2e, pending |-> p]
    BY <1>2, <2>1
  <2>3. v.hops = u.hops /\ v.e2e = u.e2e /\ v.pending = p
    BY <2>2
  <2>4. OriginOK(v)
    BY <2>1, <2>2, <2>3 DEF OriginOK
  <2>. QED
    BY <1>8, <2>3, <2>4 DEF SealsInto
<1>10. /\ Known > 0 /\ Sealed(c) /\ ClientEnd' = v /\ Known' = Known
       /\ Shape' /\ ClientOut' /\ ServiceWayOut' /\ RelaysSaid' /\ ClientHears' /\ ClientBack' /\ Bridged' /\ ServiceBack' /\ Timely'
  BY <1>3, <1>7, <1>9, SealStep
<1>11. Building'
  BY <1>1, <1>3, <1>4, <1>5, <1>6, <1>9, <1>10, BuildingAsks DEF Sealed
<1>12. p # NoKey
  BY <1>6, LegToNotNone
<1>13. Contents'
  BY <1>1, <1>3, <1>5, <1>6, <1>9, <1>10, <1>12, ContentsSeals
<1>14. Control'
  BY <1>3, <1>10, ControlSeals
<1>. QED
  BY <1>10, <1>11, <1>13, <1>14 DEF Good

\* All but how far the fetch and the service have come.
StillAll ==
  Shape /\ Building /\ ClientOut /\ ServiceWayOut /\ RelaysSaid /\ ClientHears /\ ClientBack /\ Bridged /\ ServiceBack /\ Timely
LEMMA StillGood ==
  ASSUME Good, UNCHANGED <<origin, relays, forward, backward, held, tables, ghosts>>
  PROVE  StillAll' /\ SameClient /\ SameService /\ RelaysSame
<1>1. /\ Shape /\ Building /\ ClientOut /\ ServiceWayOut /\ RelaysSaid /\ ClientHears /\ ClientBack
      /\ Bridged /\ ServiceBack /\ Timely
  BY DEF Good
<1>2. ClientIs /\ ServiceIs /\ ClientChain /\ ServiceChain /\ BackIs /\ MeetBackIs
  BY GoodFacts DEF Facts
<1>3. SameClient /\ SameService
  BY SameEnds
<1>4. RelaysSame
  BY <1>1, RelaysAreSame
<1>5. Steps({}) /\ StagesStay /\ MeetHop' = MeetHop /\ \A i : RelayHop(i)' = RelayHop(i)
  BY <1>4 DEF RelaysSame
<1>6. Shape'
  <2>1. Tables'
    BY <1>1 DEF Shape, Tables, Leg, OnionTask, FromClient, AtPoint, Hops, OriginEnd
  <2>. QED
    BY <1>1, <1>5, <2>1, ShapeStays
<1>7. Building'
  <2>1. CircuitsStay /\ TouchOnly({}) /\ Near({})
    BY DEF CircuitsStay, TouchOnly, Near
  <2>. QED
    BY <1>1, <1>5, <2>1, BuildingStays
<1>8. Known' = Known /\ cookie' = cookie /\ SaidStill /\ OutHopsStill /\ BackHopsStill /\ MeetOutStill /\ MeetBackStill
  BY <1>3, <1>5 DEF SameClient, SaidStill, OutHopsStill, BackHopsStill, MeetOutStill, MeetBackStill, tables
<1>9. ChainBack' = ChainBack
  BY <1>3, <1>8, ChainBackStays DEF SameService
<1>10. ClientOut'
  BY <1>1, <1>2, <1>3, <1>8, ClientOutStays
<1>11. ServiceWayOut'
  BY <1>1, <1>2, <1>3, <1>8, ServiceWayOutStays
<1>12. RelaysSaid'
  BY <1>1, <1>2, <1>5, <1>8, RelaysSaidStays
<1>13. ClientHears'
  BY <1>1, <1>3, <1>9, ClientHearsStays DEF SameClient
<1>14. ClientBack'
  BY <1>1, <1>2, <1>3, <1>8, <1>9, ClientBackStays DEF SameClient
<1>15. Bridged'
  BY <1>1, <1>3, <1>5, BridgedStays DEF Steps
<1>16. ServiceBack'
  BY <1>1, <1>2, <1>3, <1>8, ServiceBackStays DEF SameClient, SameService
<1>17. Timely'
  BY <1>1, <1>3, TimelyStays DEF SameClient, SameService
<1>. QED
  BY <1>3, <1>4, <1>6, <1>7, <1>10, <1>11, <1>12, <1>13, <1>14, <1>15, <1>16, <1>17 DEF StillAll

LEMMA ContentsKept ==
  ASSUME Contents, SameClient, SameService, fetching \in {"established", "introduced"} => fetching' \in {"established", "introduced"},
         rendezvousing' \in {"sent", "installed"} <=> rendezvousing \in {"sent", "installed"}
  PROVE  Contents'
<1>0. ClientEnd' = ClientEnd /\ Known' = Known /\ ServiceEnd' = ServiceEnd /\ ClientLayers' = ClientLayers
  BY DEF SameClient, SameService
<1>1. \A i, m : ExtendSaid(i, m) => ExtendSaid(i, m)'
  BY <1>0 DEF ExtendSaid, LegTo, NoKey, LinkSpecs
<1>2. \A s : EstablishSaid(s) => EstablishSaid(s)'
  BY <1>0 DEF EstablishSaid
<1>3. FK(Meet)' = FK(Meet) /\ Rendezvous1' = Rendezvous1 /\ H2C' = H2C /\ C2H' = C2H
  BY DEF FK, Meet, Rendezvous1, Auth, Meeting, ServiceKey, H2C, C2H
<1>4. ASSUME NEW i \in 1..Known', NEW q \in 2..Len(ClientLayers'[i].fd) PROVE ExtendSaid(i, ClientLayers[i].fd[q])'
  BY <1>0, <1>1 DEF Contents
<1>5. ASSUME NEW i \in 1..Known' PROVE EstablishSaid(ClientLayers[i].fd)'
  BY <1>0, <1>2 DEF Contents
<1>6. (\A i \in 1..Known : /\ \A q \in 2..Len(ClientLayers[i].fd) : ExtendSaid(i, ClientLayers[i].fd[q])
                           /\ EstablishSaid(ClientLayers[i].fd))'
  BY ONLY <1>4, <1>5, Zenon
<1>7. (Len(ServiceEnd.hops) = 1 =>
         ServiceEnd.hops[1].fd = IF rendezvousing \in {"sent", "installed"} THEN <<FK(Meet), Rendezvous1>> ELSE <<FK(Meet)>>)'
  BY <1>0, <1>3 DEF Contents
<1>8. (ServiceEnd.e2e # <<>> =>
         /\ ServiceEnd.e2e[1].fd[1] = H2C
         /\ \A q \in 2..Len(ServiceEnd.e2e[1].fd) : ServiceEnd.e2e[1].fd[q][1] = "answer")'
  BY <1>0, <1>3 DEF Contents
<1>9. (ClientEnd.e2e # <<>> => ClientEnd.e2e[1].fd[1] = C2H)'
  BY <1>0, <1>3 DEF Contents
<1>. QED
  BY <1>6, <1>7, <1>8, <1>9 DEF Contents

LEMMA SendIntroduceGood ==
  ASSUME Good, SendIntroduce
  PROVE  Good'
<1>1. Contents /\ Control
  BY DEF Good
<1>2. /\ fetching = "established" /\ fetching' = "introduced" /\ intro' = meeting
      /\ UNCHANGED <<origin, relays, forward, backward, held, tables, ghosts>> /\ UNCHANGED <<meeting, rendezvousing>>
  BY DEF SendIntroduce, IntroduceEphemeral
<1>3. StillAll' /\ SameClient /\ SameService /\ RelaysSame
  BY <1>2, StillGood
<1>4. Meeting' = Meeting /\ NoKey' = NoKey
  BY DEF Meeting, NoKey
<1>5. /\ ClientEnd' = ClientEnd /\ Known' = Known /\ Read' = Read /\ ServiceEnd' = ServiceEnd /\ ClientLayers' = ClientLayers
      /\ MeetHop' = MeetHop /\ RelayHop(PathLen)' = RelayHop(PathLen) /\ cookie' = cookie /\ bridged' = bridged
  BY <1>2, <1>3 DEF SameClient, SameService, RelaysSame, tables
<1>6. Control'
  <2>1. ClientEnd.e2e = <<>> /\ meeting = Meeting /\ Known = PathLen
    BY <1>1, <1>2 DEF Control
  <2>. QED
    BY <1>1, <1>2, <1>4, <1>5, <2>1 DEF Control
<1>7. Contents'
  BY <1>1, <1>2, <1>3, ContentsKept
<1>. QED
  BY <1>3, <1>6, <1>7 DEF Good, StillAll

LEMMA HandleIntroduce2Good ==
  ASSUME Good, HandleIntroduce2
  PROVE  Good'
<1>1. Contents /\ Control
  BY DEF Good
<1>2. /\ rendezvousing = "idle" /\ rendezvousing' = "opened" /\ intro # NoKey
      /\ UNCHANGED <<origin, relays, forward, backward, held, tables, ghosts>> /\ UNCHANGED <<meeting, fetching, intro>>
  BY DEF HandleIntroduce2
<1>3. StillAll' /\ SameClient /\ SameService /\ RelaysSame
  BY <1>2, StillGood
<1>4. Meeting' = Meeting /\ NoKey' = NoKey
  BY DEF Meeting, NoKey
<1>5. /\ ClientEnd' = ClientEnd /\ Known' = Known /\ Read' = Read /\ ServiceEnd' = ServiceEnd /\ ClientLayers' = ClientLayers
      /\ MeetHop' = MeetHop /\ RelayHop(PathLen)' = RelayHop(PathLen) /\ cookie' = cookie /\ bridged' = bridged
  BY <1>2, <1>3 DEF SameClient, SameService, RelaysSame, tables
<1>6. Control'
  <2>1. fetching = "introduced"
    BY <1>1, <1>2 DEF Control
  <2>. QED
    BY <1>1, <1>2, <1>4, <1>5, <2>1 DEF Control
<1>7. Contents'
  BY <1>1, <1>2, <1>3, ContentsKept
<1>. QED
  BY <1>3, <1>6, <1>7 DEF Good, StillAll

\* The leg after the last that an end knows, and a leg whose handshake is where it was.
Edge(l) == l \in Leg /\ (l = LegTo(Known + 1) \/ (l = Meet /\ Len(ServiceEnd.hops) = 0))
StageSame(l) ==
  /\ forward'[l] = forward[l] /\ backward'[l] = backward[l]
  /\ l \in DOMAIN relays' <=> l \in DOMAIN relays
  /\ l \in DOMAIN relays => relays'[l] = relays[l]
AskedFor(l, to) == Absent(l) /\ forward[l] = <<CreateFor(l, to)>>
LEMMA StageKept ==
  ASSUME NEW l, StageSame(l)
  PROVE  /\ (Quiet(l)' <=> Quiet(l)) /\ (Asked(l)' <=> Asked(l)) /\ (Answered(l)' <=> Answered(l)) /\ (Returning(l)' <=> Returning(l))
         /\ \A to : AskedFor(l, to)' <=> AskedFor(l, to)
<1>1. Absent(l)' <=> Absent(l)
  BY DEF Absent, StageSame
<1>2. Fresh(l)' <=> Fresh(l)
  <2>1. HopState(FK(l), BK(l))' = HopState(FK(l), BK(l))
    BY DEF HopState, FK, BK
  <2>. QED
    BY <2>1 DEF Fresh, StageSame
<1>3. (\A to : CreateFor(l, to)' = CreateFor(l, to)) /\ CreatedBy(l)' = CreatedBy(l)
  BY DEF CreateFor, CreatedBy, Auth
<1>4. Quiet(l)' <=> Quiet(l)
  BY <1>1 DEF Quiet, StageSame
<1>5. Asked(l)' <=> Asked(l)
  BY <1>1, <1>3 DEF Asked, StageSame, LinkSpecs
<1>6. Answered(l)' <=> Answered(l)
  BY <1>2, <1>3 DEF Answered, StageSame
<1>7. Returning(l)' <=> Returning(l)
  BY <1>2 DEF Returning, StageSame
<1>8. \A to : AskedFor(l, to)' <=> AskedFor(l, to)
  BY <1>1, <1>3 DEF AskedFor, StageSame
<1>. QED
  BY <1>4, <1>5, <1>6, <1>7, <1>8

LEMMA BegunIs ==
  /\ \A e : Begun(e) <=>
       (Len(origin[e].hops) = 0 =>
          IF origin[e].pending = NoKey THEN Quiet(<<e, 1>>)
          ELSE origin[e].pending = <<e, 1>> /\ (Answered(<<e, 1>>) \/ AskedFor(<<e, 1>>, "right")))
BY DEF Begun, AskedFor
LEMMA BegunIsNext ==
  /\ \A e : Begun(e)' <=>
       (Len(origin'[e].hops) = 0 =>
          IF origin'[e].pending = NoKey THEN Quiet(<<e, 1>>)'
          ELSE origin'[e].pending = <<e, 1>> /\ (Answered(<<e, 1>>)' \/ AskedFor(<<e, 1>>, "right")'))
BY DEF Begun, AskedFor, NoKey

LEMMA BegunKept ==
  ASSUME NEW e, Begun(e), Len(origin'[e].hops) = Len(origin[e].hops), origin'[e].pending = origin[e].pending,
         StageSame(<<e, 1>>)
  PROVE  Begun(e)'
<1>1. PICK l : l = <<e, 1>>
  OBVIOUS
<1>2. /\ (Quiet(l)' <=> Quiet(l)) /\ (Answered(l)' <=> Answered(l))
      /\ AskedFor(l, "right")' <=> AskedFor(l, "right")
  BY <1>1, StageKept
<1>3. Len(origin[e].hops) = 0 =>
          IF origin[e].pending = NoKey THEN Quiet(l) ELSE origin[e].pending = l /\ (Answered(l) \/ AskedFor(l, "right"))
  BY <1>1, BegunIs
<1>4. Len(origin'[e].hops) = 0 =>
          IF origin'[e].pending = NoKey THEN Quiet(l)' ELSE origin'[e].pending = l /\ (Answered(l)' \/ AskedFor(l, "right")')
  BY <1>2, <1>3
<1>5. Quiet(<<e, 1>>)' <=> Quiet(l)'
  BY <1>1 DEF Quiet, Absent
<1>6. Answered(<<e, 1>>)' <=> Answered(l)'
  BY <1>1 DEF Answered, Fresh, CreatedBy, HopState, FK, BK, Auth
<1>7. AskedFor(<<e, 1>>, "right")' <=> AskedFor(l, "right")'
  BY <1>1 DEF AskedFor, Absent, CreateFor
<1>. QED
  BY <1>1, <1>4, <1>5, <1>6, <1>7, BegunIsNext

LEMMA BuildingEdge ==
  ASSUME Shape, Building, NEW leg, Edge(leg), \A l \in Leg : l # leg => StageSame(l),
         \A e \in OriginEnd : Len(origin'[e].hops) = Len(origin[e].hops),
         leg # Meet => /\ ServiceEnd'.pending = ServiceEnd.pending
                       /\ (Known = 0 => Begun("client")') /\ (Known \in 1..(PathLen - 1) => Extending'),
         leg = Meet => ClientEnd'.pending = ClientEnd.pending /\ Begun("service")'
  PROVE  Building'
<1>1. /\ \A e \in OriginEnd : Begun(e)
      /\ Extending
      /\ \A i \in 1..(Known - 1) : Joined(relays[LegTo(i)])
      /\ Known = PathLen => ClientEnd.pending = NoKey /\ Idle(LastRelay)
      /\ \A i \in 1..PathLen : i > Known + 1 => Quiet(LegTo(i))
      /\ Len(ServiceEnd.hops) = 1 => ServiceEnd.pending = NoKey /\ Idle(relays[Meet])
  BY DEF Building
<1>2. PICK k : k = Known
  OBVIOUS
<1>3. /\ k \in Nat /\ PathLen \in Nat /\ k <= PathLen /\ PathLen >= 1
      /\ \A i \in 1..k : LegTo(i) \in Leg /\ LegTo(i) \in DOMAIN relays /\ i \in Int
      /\ Meet \in Leg /\ (Len(ServiceEnd.hops) = 1 => Meet \in DOMAIN relays)
  BY <1>2, KnownIs
<1>4. /\ Known' = k /\ Len(ServiceEnd'.hops) = Len(ServiceEnd.hops)
      /\ Len(origin'["client"].hops) = Len(origin["client"].hops) /\ Len(origin["client"].hops) = k
      /\ Len(origin'["service"].hops) = Len(origin["service"].hops)
  BY <1>2 DEF Known, ClientEnd, ServiceEnd, OriginEnd
<1>5. leg # Meet => leg = LegTo(k + 1) /\ k < PathLen /\ k # PathLen
  <2>1. SUFFICES ASSUME leg # Meet PROVE leg = LegTo(k + 1) /\ k < PathLen
    BY <1>3
  <2>2. leg \in Leg /\ leg = LegTo(k + 1)
    BY <1>2, <2>1 DEF Edge
  <2>3. PICK i \in 1..PathLen : leg = LegTo(i)
    BY <2>1, <2>2, LegIs
  <2>4. i = k + 1
    BY <1>3, <2>2, <2>3, LegApart
  <2>. QED
    BY <1>3, <2>2, <2>3, <2>4
<1>6. Len(ServiceEnd.hops) = 1 => leg # Meet
  BY <1>2, <1>3, <1>4, LegApart DEF Edge
<1>7. <<"client", 1>> = LegTo(1) /\ <<"service", 1>> = Meet
  BY DEF LegTo, Meet
<1>8. \A i \in 1..PathLen : LegTo(i) \in Leg /\ i \in Int /\ (i # k + 1 => LegTo(i) # leg)
  <2>1. \A i \in 1..PathLen : LegTo(i) \in Leg /\ i \in Int
    BY LegIs
  <2>2. ASSUME NEW i \in 1..PathLen, i # k + 1 PROVE LegTo(i) # leg
    <3>1. CASE leg = Meet
      BY <2>1, <3>1, LegApart
    <3>2. CASE leg = LegTo(k + 1)
      BY <1>3, <2>1, <2>2, <3>2, LegApart
    <3>. QED
      BY <1>5, <3>1, <3>2
  <2>. QED
    BY <2>1, <2>2
<1>9. ASSUME NEW i \in 1..PathLen, i # k + 1 PROVE StageSame(LegTo(i))
  BY <1>8, <1>9
<1>10. \A e \in OriginEnd : Begun(e)'
  <2>1. Begun("client")'
    <3>1. CASE k # 0
      BY <1>4, <3>1, BegunIsNext
    <3>2. CASE k = 0 /\ leg # Meet
      BY <1>2, <3>2
    <3>3. CASE k = 0 /\ leg = Meet
      <4>1. StageSame(<<"client", 1>>)
        <5>1. LegTo(1) \in Leg /\ LegTo(1) # leg
          BY <1>3, <3>3, LegIs, LegApart
        <5>. QED
          BY <1>7, <5>1
      <4>2. Begun("client") /\ origin'["client"].pending = origin["client"].pending
        BY <1>1, <3>3 DEF OriginEnd, ClientEnd
      <4>. QED
        BY <1>4, <4>1, <4>2, BegunKept
    <3>. QED
      BY <3>1, <3>2, <3>3
  <2>2. Begun("service")'
    <3>1. CASE leg = Meet
      BY <3>1
    <3>2. CASE leg # Meet
      <4>1. StageSame(<<"service", 1>>)
        BY <1>3, <1>7, <3>2
      <4>2. Begun("service") /\ origin'["service"].pending = origin["service"].pending
        BY <1>1, <3>2 DEF OriginEnd, ServiceEnd
      <4>. QED
        BY <1>4, <4>1, <4>2, BegunKept
    <3>. QED
      BY <3>1, <3>2
  <2>. QED
    BY <2>1, <2>2 DEF OriginEnd
<1>11. k >= 1 => LastRelay = relays[LegTo(k)] /\ LastRelay' = relays[LegTo(k)]' /\ relays'[LegTo(k)] = relays[LegTo(k)]
  <2>1. SUFFICES ASSUME k >= 1 PROVE LastRelay = relays[LegTo(k)] /\ LastRelay' = relays[LegTo(k)]' /\ relays'[LegTo(k)] = relays[LegTo(k)]
    OBVIOUS
  <2>2. k \in 1..PathLen /\ k # k + 1 /\ k \in 1..k
    BY <1>3, <2>1
  <2>3. StageSame(LegTo(k)) /\ LegTo(k) \in DOMAIN relays
    BY <1>3, <1>9, <2>2
  <2>. QED
    BY <1>2, <1>4, <2>3 DEF LastRelay, LegTo, StageSame
<1>12. Extending'
  <2>1. SUFFICES ASSUME k \in 1..(PathLen - 1), leg = Meet PROVE Extending'
    BY <1>2, <1>4 DEF Extending
  <2>2. ClientEnd'.pending = ClientEnd.pending /\ k + 1 \in 1..PathLen
    BY <1>3, <2>1
  <2>3. StageSame(LegTo(k + 1))
    BY <1>8, <2>1, <2>2, <1>3, LegApart
  <2>4. PICK l : l = LegTo(k + 1)
    OBVIOUS
  <2>5. (Quiet(l)' <=> Quiet(l)) /\ (Asked(l)' <=> Asked(l)) /\ (Answered(l)' <=> Answered(l)) /\ (Returning(l)' <=> Returning(l))
    BY <2>3, <2>4, StageKept
  <2>6. LastRelay' = LastRelay
    BY <1>11, <2>1 DEF LegTo
  <2>7. IF ClientEnd.pending = NoKey THEN Quiet(l) /\ Idle(LastRelay)
        ELSE /\ ClientEnd.pending = l
             /\ \/ Quiet(l) /\ Idle(LastRelay)
                \/ (Quiet(l) \/ Asked(l) \/ Answered(l)) /\ Waiting(LastRelay)
                \/ Returning(l) /\ Joined(LastRelay)
    BY <1>1, <1>2, <2>1, <2>4 DEF Extending
  <2>8. /\ (Idle(LastRelay)' <=> Idle(LastRelay)) /\ (Waiting(LastRelay)' <=> Waiting(LastRelay))
        /\ Joined(LastRelay)' <=> Joined(LastRelay)
    BY <2>6 DEF Idle, Waiting, Joined
  <2>9. IF ClientEnd'.pending = NoKey THEN Quiet(l)' /\ Idle(LastRelay)'
        ELSE /\ ClientEnd'.pending = l
             /\ \/ Quiet(l)' /\ Idle(LastRelay)'
                \/ (Quiet(l)' \/ Asked(l)' \/ Answered(l)') /\ Waiting(LastRelay)'
                \/ Returning(l)' /\ Joined(LastRelay)'
    BY <2>2, <2>5, <2>7, <2>8
  <2>10. /\ Quiet(LegTo(Known + 1))' <=> Quiet(l)'
         /\ Asked(LegTo(Known + 1))' <=> Asked(l)'
         /\ Answered(LegTo(Known + 1))' <=> Answered(l)'
         /\ Returning(LegTo(Known + 1))' <=> Returning(l)'
         /\ LegTo(Known + 1)' = l
    <3>1. LegTo(Known + 1)' = l
      BY <1>4, <2>4 DEF LegTo
    <3>. QED
      BY <3>1 DEF Quiet, Asked, Answered, Returning, Absent, Fresh, CreateFor, CreatedBy, Auth, HopState, FK, BK, LinkSpecs
  <2>. QED
    BY <2>9, <2>10 DEF Extending, NoKey
<1>13. \A i \in 1..(Known' - 1) : Joined(relays[LegTo(i)])'
  <2>1. ASSUME NEW i \in 1..(k - 1) PROVE Joined(relays[LegTo(i)])'
    <3>1. i \in 1..PathLen /\ i # k + 1 /\ i \in 1..k
      BY <1>3
    <3>2. StageSame(LegTo(i)) /\ LegTo(i) \in DOMAIN relays
      BY <1>3, <1>9, <3>1
    <3>. QED
      BY <1>1, <1>2, <3>2 DEF StageSame, Joined, LegTo
  <2>. QED
    BY <1>4, <2>1
<1>14. Known' = PathLen => ClientEnd'.pending = NoKey' /\ Idle(LastRelay)'
  <2>1. SUFFICES ASSUME k = PathLen PROVE ClientEnd'.pending = NoKey' /\ Idle(LastRelay)'
    BY <1>4
  <2>2. leg = Meet
    BY <1>5, <2>1
  <2>. QED
    BY <1>1, <1>2, <1>3, <1>11, <2>1, <2>2 DEF Idle, NoKey, LegTo
<1>15. \A i \in 1..PathLen : i > Known' + 1 => Quiet(LegTo(i))'
  <2>1. ASSUME NEW i \in 1..PathLen, i > k + 1 PROVE Quiet(LegTo(i))'
    <3>1. StageSame(LegTo(i))
      BY <1>3, <1>9, <2>1
    <3>2. PICK l : l = LegTo(i)
      OBVIOUS
    <3>3. Quiet(l)
      BY <1>1, <1>2, <2>1, <3>2
    <3>4. Quiet(l)'
      BY <3>1, <3>2, <3>3, StageKept
    <3>. QED
      BY <3>2, <3>4 DEF Quiet, Absent, LegTo
  <2>. QED
    BY <1>4, <2>1
<1>16. Len(ServiceEnd'.hops) = 1 => ServiceEnd'.pending = NoKey' /\ Idle(relays[Meet])'
  <2>1. SUFFICES ASSUME Len(ServiceEnd.hops) = 1 PROVE ServiceEnd'.pending = NoKey' /\ Idle(relays[Meet])'
    BY <1>4
  <2>2. leg # Meet /\ Meet \in DOMAIN relays
    BY <1>3, <1>6, <2>1
  <2>3. StageSame(Meet)
    BY <1>3, <2>2
  <2>. QED
    BY <1>1, <2>1, <2>2, <2>3 DEF StageSame, Idle, NoKey, Meet
<1>. QED
  BY <1>10, <1>12, <1>13, <1>14, <1>15, <1>16 DEF Building

LEMMA CreateAsked ==
  ASSUME Good, NEW leg \in Leg, CellArrives(forward, leg, "create")
  PROVE  /\ Edge(leg) /\ Absent(leg) /\ (\E to \in LinkSpecs : AskedFor(leg, to))
         /\ leg # Meet => /\ leg = LegTo(Known + 1) /\ Known < PathLen /\ Known \in Nat /\ ClientEnd.pending = leg
                          /\ (Known = 0 => AskedFor(leg, "right")) /\ (Known >= 1 => Waiting(LastRelay))
         /\ leg = Meet => Len(ServiceEnd.hops) = 0 /\ ServiceEnd.pending = leg /\ AskedFor(leg, "right")
<1>1. Shape /\ Places /\ Building
  BY GoodFacts DEF Good, Facts
<1>2. PathLen \in Nat /\ Known \in Nat /\ Known <= PathLen
  BY <1>1, KnownIs
<1>3. forward[leg] # <<>> /\ "right" \in LinkSpecs
  BY DEF CellArrives, LinkSpecs
<1>4. \A e \in OriginEnd : Begun(e)
  BY <1>1 DEF Building
<1>5. CASE leg = Meet
  <2>1. Len(ServiceEnd.hops) = 0
    BY <1>1, <1>5 DEF Places
  <2>2. Begun("service") /\ <<"service", 1>> = leg
    BY <1>4, <1>5 DEF OriginEnd, Meet
  <2>3. ServiceEnd.pending = leg /\ AskedFor(leg, "right")
    BY <1>3, <2>1, <2>2, BegunIs DEF ServiceEnd, Quiet, Answered
  <2>. QED
    BY <1>3, <1>5, <2>1, <2>3 DEF Edge, AskedFor
<1>6. CASE leg # Meet
  <2>1. PICK i \in 1..PathLen : leg = LegTo(i)
    BY <1>6, LegIs
  <2>2. i = Known + 1
    BY <1>1, <2>1 DEF Places
  <2>3. leg = LegTo(Known + 1) /\ Known < PathLen
    BY <1>2, <2>1, <2>2
  <2>4. CASE Known = 0
    <3>1. Begun("client") /\ <<"client", 1>> = leg /\ Len(origin["client"].hops) = 0
      BY <1>4, <2>3, <2>4 DEF OriginEnd, LegTo, Known, ClientEnd
    <3>2. ClientEnd.pending = leg /\ AskedFor(leg, "right")
      BY <1>3, <3>1, BegunIs DEF ClientEnd, Quiet, Answered
    <3>. QED
      BY <1>2, <1>3, <1>6, <2>3, <2>4, <3>2 DEF Edge, AskedFor
  <2>5. CASE Known >= 1
    <3>1. Extending /\ Known \in 1..(PathLen - 1)
      BY <1>1, <1>2, <2>3, <2>5 DEF Building
    <3>2. ClientEnd.pending = leg /\ Asked(leg) /\ Waiting(LastRelay)
      BY <1>3, <2>3, <3>1 DEF Extending, Quiet, Answered, Returning
    <3>. QED
      BY <1>2, <1>6, <2>3, <2>5, <3>2 DEF Edge, Asked, AskedFor
  <2>. QED
    BY <1>2, <2>4, <2>5
<1>. QED
  BY <1>5, <1>6

\* A relay made at the edge changes nothing of what is behind it.
LEMMA EdgeSteps ==
  ASSUME Good, NEW leg, Edge(leg), leg \notin DOMAIN relays, \A l \in Leg : l # leg => StageSame(l),
         SameClient, SameService, UNCHANGED <<held, tables, ends0, ghosts>>,
         leg \in DOMAIN relays' => relays'[leg].hop.bn = 0, leg # Meet => (Known >= 1 => Waiting(LastRelay))
  PROVE  /\ ClientOut' /\ ServiceWayOut' /\ RelaysSaid' /\ ClientHears' /\ ClientBack' /\ Bridged' /\ ServiceBack'
         /\ Control' /\ Contents' /\ Timely'
<1>1. /\ Shape /\ ClientOut /\ ServiceWayOut /\ RelaysSaid /\ ClientHears /\ ClientBack
      /\ Bridged /\ ServiceBack /\ Control /\ Contents /\ Timely
  BY DEF Good
<1>2. ClientIs /\ ServiceIs /\ ClientChain /\ ServiceChain /\ BackIs /\ MeetBackIs
  BY GoodFacts DEF Facts
<1>3. PICK k : k = Known
  OBVIOUS
<1>4. /\ k \in Nat /\ k <= PathLen /\ PathLen \in Nat
      /\ \A i \in 1..Known : LegTo(i) \in Leg /\ LegTo(i) \in DOMAIN relays /\ i \in Int
      /\ Meet \in Leg /\ (Len(ServiceEnd.hops) = 1 => Meet \in DOMAIN relays) /\ Len(ServiceEnd.hops) \in 0..1
  BY <1>1, <1>3, KnownIs
<1>5. Known' = k
  BY <1>3 DEF SameClient
<1>6. leg # Meet => leg = LegTo(k + 1)
  BY <1>3 DEF Edge
<1>7. \A i \in 1..Known : LegTo(i) # leg /\ RelayHop(i)' = RelayHop(i) /\ relays'[LegTo(i)] = relays[LegTo(i)]
                          /\ forward'[LegTo(i)] = forward[LegTo(i)] /\ backward'[LegTo(i)] = backward[LegTo(i)]
  <2>1. ASSUME NEW i \in 1..Known PROVE LegTo(i) # leg
    BY <1>4, <2>1
  <2>2. ASSUME NEW i \in 1..Known PROVE StageSame(LegTo(i))
    BY <1>4, <2>1
  <2>. QED
    BY <1>4, <2>1, <2>2 DEF StageSame, RelayHop, LegTo
<1>8. Meet \in DOMAIN relays => StageSame(Meet) /\ MeetHop' = MeetHop
  BY <1>4 DEF StageSame, MeetHop, Meet
<1>9. Len(ServiceEnd.hops) > 0 => Meet \in DOMAIN relays
  BY <1>4
<1>10. cookie = "used" => Meet \in DOMAIN relays
  BY <1>1, <1>4 DEF Control
<1>11. (ClientEnd.e2e # <<>> => cookie = "used") /\ (cookie # "none" => k = PathLen)
  BY <1>1, <1>3, E2EUsed DEF Control
<1>12. ClientOut'
  <2>1. OutHopsStill
    BY <1>7 DEF OutHopsStill
  <2>. QED
    BY <1>1, <1>2, <2>1, ClientOutStays
<1>13. ServiceWayOut'
  <2>1. MeetOutStill
    BY <1>8, <1>9 DEF MeetOutStill, StageSame
  <2>. QED
    BY <1>1, <1>2, <2>1, ServiceWayOutStays
<1>14. SaidStill /\ BackHopsStill
  BY <1>7 DEF SaidStill, BackHopsStill
<1>15. \A i \in 1..Known : SaidAt(i)' = SaidAt(i)
  <2>1. \A i : Extended2(i)' = Extended2(i) /\ BK(LegTo(i))' = BK(LegTo(i))
    BY DEF Extended2, BK, LegTo, Auth
  <2>2. Established' = Established /\ Rendezvous2' = Rendezvous2 /\ cookie' = cookie
    BY DEF Established, Rendezvous2, ServiceKey, Auth, Meeting, tables
  <2>3. ASSUME NEW i \in 1..Known PROVE SaidAt(i)' = SaidAt(i)
    <3>1. CASE i < k
      BY <1>3, <1>5, <2>1, <3>1 DEF SaidAt
    <3>2. CASE ~(i < PathLen) /\ ~(i < k)
      BY <1>3, <1>5, <2>1, <2>2, <3>2 DEF SaidAt
    <3>3. CASE i = k /\ i < PathLen
      <4>1. SaidAt(i) = (IF LegTo(i + 1) \in DOMAIN relays /\ ~relays[LegTo(i)].awaiting
                         THEN <<BK(LegTo(i)), Extended2(i)>> ELSE <<BK(LegTo(i))>>)
        BY <1>3, <3>3 DEF SaidAt
      <4>2. SaidAt(i)' = (IF LegTo(i + 1) \in DOMAIN relays' /\ ~relays'[LegTo(i)].awaiting
                         THEN <<BK(LegTo(i)), Extended2(i)>> ELSE <<BK(LegTo(i))>>)
        BY <1>4, <1>5, <2>1, <3>3 DEF SaidAt, LegTo
      <4>3. relays'[LegTo(i)] = relays[LegTo(i)]
        BY <1>7
      <4>4. CASE leg # Meet
        <5>1. relays[LegTo(i)].awaiting = TRUE
          BY <1>3, <1>4, <3>3, <4>4 DEF Waiting, LastRelay
        <5>. QED
          BY <4>1, <4>2, <4>3, <5>1
      <4>5. CASE leg = Meet
        <5>1. LegTo(i + 1) \in Leg /\ LegTo(i + 1) # leg
          <6>1. i + 1 \in 1..PathLen /\ i + 1 \in Int
            BY <1>4, <3>3
          <6>. QED
            BY <4>5, <6>1, LegIs, LegApart
        <5>2. LegTo(i + 1) \in DOMAIN relays' <=> LegTo(i + 1) \in DOMAIN relays
          BY <5>1 DEF StageSame
        <5>. QED
          BY <4>1, <4>2, <4>3, <5>2
      <4>. QED
        BY <4>4, <4>5
    <3>4. i <= k
      BY <1>3, <1>4
    <3>. QED
      BY <1>4, <3>1, <3>2, <3>3, <3>4
  <2>. QED
    BY <2>3
<1>16. RelaysSaid'
  <2>1. \A i \in 1..Known' : RelayHop(i)'.bd = SaidAt(i)'
    BY <1>1, <1>3, <1>5, <1>7, <1>15 DEF RelaysSaid
  <2>2. cookie' = cookie
    BY DEF tables
  <2>3. k > 0 => k \in 1..Known
    BY <1>3, <1>4
  <2>4. k > 0 => RelayHop(Known)' = RelayHop(k)' /\ RelayHop(Known) = RelayHop(k) /\ RelayHop(k)' = RelayHop(k)
    BY <1>3, <1>5, <1>7, <2>3, AtKnown
  <2>5. k > 0 => RelayHop(Known).bn + 1 = IF cookie = "used" THEN MeetHop.fn + 2 ELSE Len(RelayHop(Known).bd)
    BY <1>1, <1>3 DEF RelaysSaid
  <2>6. k > 0 => RelayHop(Known)'.bn + 1 = IF cookie' = "used" THEN MeetHop'.fn + 2 ELSE Len(RelayHop(Known)'.bd)
    BY <1>8, <1>10, <2>2, <2>4, <2>5
  <2>. QED
    BY <1>5, <2>1, <2>6 DEF RelaysSaid
<1>17. ChainBack' = ChainBack
  BY <1>3, <1>5, <1>14, ChainBackStays DEF SameService
<1>18. ClientHears'
  BY <1>1, <1>17, ClientHearsStays DEF SameClient
<1>19. ClientBack'
  BY <1>1, <1>2, <1>14, <1>17, ClientBackStays DEF SameClient
<1>20. Bridged'
  <2>1. CASE leg = Meet
    <3>1. ClientEnd.e2e = <<>>
      BY <1>10, <1>11, <2>1
    <3>2. ClientEnd'.e2e = <<>>
      BY <3>1 DEF SameClient
    <3>3. Meet \in DOMAIN relays' => MeetHop'.bn = 0
      BY <2>1 DEF MeetHop, Meet
    <3>. QED
      BY <3>2, <3>3 DEF Bridged, Meet
  <2>2. CASE leg # Meet
    <3>1. StageSame(Meet)
      BY <1>4, <2>2
    <3>2. Meet \in DOMAIN relays' => Meet \in DOMAIN relays /\ MeetHop'.bn = MeetHop.bn
      BY <1>8, <3>1 DEF StageSame
    <3>3. ClientEnd.e2e # <<>> => RelayHop(PathLen)'.fn = RelayHop(PathLen).fn
      <4>1. SUFFICES ASSUME ClientEnd.e2e # <<>> PROVE RelayHop(PathLen)'.fn = RelayHop(PathLen).fn
        OBVIOUS
      <4>2. PathLen \in 1..Known
        BY <1>2, <1>3, <1>4, <1>11, <4>1, LegIs
      <4>. QED
        BY <1>7, <4>2
    <3>. QED
      BY <1>1, <3>2, <3>3, BridgedStays
  <2>. QED
    BY <2>1, <2>2
<1>21. ServiceBack'
  <2>1. MeetBackStill
    BY <1>8, <1>9 DEF MeetBackStill, StageSame
  <2>2. MeetBack' = MeetBack /\ Len(ServiceEnd.hops)' = Len(ServiceEnd.hops) /\ ServiceLayers' = ServiceLayers
    BY DEF SameClient, SameService
  <2>. QED
    BY <1>1, <1>2, <2>1, <2>2, ServiceBackStays
<1>22. Control'
  <2>1. cookie # "none" => PointEstablished'
    <3>1. SUFFICES ASSUME cookie # "none" PROVE PointEstablished'
      OBVIOUS
    <3>2. PointEstablished
      BY <1>1, <3>1 DEF Control, PointEstablished
    <3>3. PathLen \in 1..Known
      BY <1>3, <1>4, <1>11, <3>1, LegIs
    <3>. QED
      BY <1>7, <3>2, <3>3 DEF PointEstablished
  <2>2. cookie = "used" => MeetHop'.fn > 0
    BY <1>1, <1>8, <1>10 DEF Control
  <2>. QED
    BY <1>1, <2>1, <2>2, ControlStays
<1>23. Contents'
  BY <1>1, ContentsStays
<1>24. Timely'
  BY <1>1, TimelyStays DEF SameClient, SameService
<1>. QED
  BY <1>12, <1>13, <1>16, <1>18, <1>19, <1>20, <1>21, <1>22, <1>23, <1>24

LEMMA ShapeGrows ==
  ASSUME Shape, origin' = origin, Tables', relays' = [l \in DOMAIN relays' |-> relays'[l]],
         DOMAIN relays \subseteq DOMAIN relays', DOMAIN relays' \subseteq Leg, \A l \in DOMAIN relays' : RelayOK(l)'
  PROVE  Shape'
<1>1. SameClient /\ SameService
  BY SameEnds
<1>2. ASSUME NEW e \in OriginEnd PROVE EndOK(e)'
  <2>1. EndOK(e)
    BY DEF Shape
  <2>. QED
    BY <2>1 DEF EndOK
<1>3. /\ DOMAIN origin' = OriginEnd /\ origin' = [e \in OriginEnd |-> origin'[e]]
      /\ \A i \in 1..Len(ClientEnd'.e2e) : ClientEnd'.e2e[i].fk = C2H /\ ClientEnd'.e2e[i].bk = H2C
      /\ \A i \in 1..Len(ServiceEnd'.e2e) : ServiceEnd'.e2e[i].fk = H2C /\ ServiceEnd'.e2e[i].bk = C2H
  BY <1>1 DEF Shape, SameClient, SameService
<1>. QED
  BY <1>2, <1>3 DEF Shape, Tables

\* A relay's table gains an entry with fresh keys.
Gained(leg) ==
  relays' = [l \in DOMAIN relays \union {leg} |->
               IF l = leg THEN [hop |-> HopState(FK(leg), BK(leg)), next |-> FALSE, awaiting |-> FALSE] ELSE relays[l]]
LEMMA GainedIs ==
  ASSUME Shape, NEW leg \in Leg, leg \notin DOMAIN relays, Gained(leg)
  PROVE  /\ relays' = [l \in DOMAIN relays' |-> relays'[l]] /\ DOMAIN relays \subseteq DOMAIN relays'
         /\ DOMAIN relays' \subseteq Leg /\ (\A l \in DOMAIN relays' : RelayOK(l)')
         /\ \A l \in Leg : l # leg => (l \in DOMAIN relays' <=> l \in DOMAIN relays) /\ (l \in DOMAIN relays => relays'[l] = relays[l])
         /\ leg \in DOMAIN relays' /\ relays'[leg] = [hop |-> HopState(FK(leg), BK(leg)), next |-> FALSE, awaiting |-> FALSE]
         /\ relays'[leg].hop.bn = 0
<1>1. PICK D, f, r : /\ D = DOMAIN relays \union {leg} /\ f = [hop |-> HopState(FK(leg), BK(leg)), next |-> FALSE, awaiting |-> FALSE]
                     /\ r = relays
  OBVIOUS
<1>2. relays' = [l \in D |-> IF l = leg THEN f ELSE r[l]]
  BY <1>1 DEF Gained
<1>3. DOMAIN relays' = D /\ relays'[leg] = f /\ \A l \in DOMAIN r : l # leg => relays'[l] = r[l]
  BY <1>1, <1>2
<1>4. relays' = [l \in D |-> relays'[l]]
  BY <1>2, <1>3
<1>5. D \subseteq Leg
  BY <1>1 DEF Shape
<1>6. PICK h, n : h = HopState(FK(leg), BK(leg)) /\ n = FALSE
  OBVIOUS
<1>7. IsHop(h) /\ h.fk = FK(leg) /\ h.bk = BK(leg) /\ h.bn = 0
  BY <1>6, HopStateIs
<1>8. f = [hop |-> h, next |-> n, awaiting |-> n]
  BY <1>1, <1>6
<1>9. f.hop = h /\ f = [hop |-> f.hop, next |-> f.next, awaiting |-> f.awaiting]
  BY ONLY <1>8
<1>10. RelayOK(leg)'
  BY <1>3, <1>7, <1>9 DEF RelayOK, FK, BK
<1>11. ASSUME NEW l \in D, l # leg PROVE RelayOK(l)'
  <2>1. l \in DOMAIN r /\ relays'[l] = relays[l] /\ RelayOK(l)
    BY <1>1, <1>3, <1>11 DEF Shape
  <2>. QED
    BY <2>1 DEF RelayOK, FK, BK
<1>12. \A l \in DOMAIN relays' : RelayOK(l)'
  BY <1>3, <1>10, <1>11
<1>. QED
  BY <1>1, <1>3, <1>4, <1>5, <1>7, <1>9, <1>12

\* The message taken off the leg; and its answer, or none.
Made(leg, to) ==
  /\ Loses(forward, forward', leg)
  /\ IF to = "right" THEN Gained(leg) /\ Gains(backward, backward', leg, CreatedBy(leg)) ELSE UNCHANGED <<relays, backward>>
LEMMA CreateMakes ==
  ASSUME Shape, NEW leg \in Leg, NEW to, AskedFor(leg, to), HandleCreate(leg)
  PROVE  Made(leg, to) /\ UNCHANGED <<origin, held, tables, ends, ghosts>>
<1>1. PICK msg : msg = Head(forward[leg])
  OBVIOUS
<1>2. PICK c : c = CreateFor(leg, to)
  OBVIOUS
<1>3. forward[leg] = <<c>>
  BY <1>2 DEF AskedFor
<1>4. msg = c
  BY <1>1, <1>3
<1>5. msg.x = leg /\ msg.to = to
  BY <1>2, <1>4 DEF CreateFor
<1>6. Answers(msg) <=> to = "right"
  BY <1>5 DEF Answers
<1>7. PICK h : h = HopState(FK(leg), BK(leg))
  OBVIOUS
<1>8. from_ntor(NtorKeys(msg.x, leg)) = h
  BY <1>5, <1>7 DEF from_ntor, NtorKeys, FK, BK
<1>9. /\ IF to = "right"
         THEN /\ relays' = [l \in DOMAIN relays \union {leg} |->
                              IF l = leg THEN [hop |-> from_ntor(NtorKeys(msg.x, leg)), next |-> FALSE, awaiting |-> FALSE] ELSE relays[l]]
              /\ backward' = On(backward, leg, [kind |-> "created", y |-> leg, auth |-> Auth(msg.x, leg)])
         ELSE UNCHANGED <<relays, backward>>
      /\ forward' = Off(forward, leg)
      /\ UNCHANGED <<origin, held, tables, ends, ghosts>>
  BY <1>1, <1>6 DEF HandleCreate
<1>10. forward = [l \in Leg |-> forward[l]] /\ backward = [l \in Leg |-> backward[l]]
  BY DEF Shape
<1>11. Loses(forward, forward', leg)
  BY <1>9, <1>10, OffIs
<1>12. to = "right" => Gained(leg)
  BY <1>7, <1>8, <1>9 DEF Gained
<1>13. to = "right" => Gains(backward, backward', leg, CreatedBy(leg))
  <2>1. PICK a : a = CreatedBy(leg)
    OBVIOUS
  <2>2. a = [kind |-> "created", y |-> leg, auth |-> Auth(msg.x, leg)]
    BY <1>5, <2>1 DEF CreatedBy
  <2>3. to = "right" => backward' = On(backward, leg, a)
    BY <1>9, <2>2
  <2>4. to = "right" => Gains(backward, backward', leg, a)
    BY <1>10, <2>3, OnIs
  <2>. QED
    BY <2>1, <2>4
<1>. QED
  BY <1>9, <1>11, <1>12, <1>13 DEF Made

LEMMA MadeStage ==
  ASSUME Shape, NEW leg \in Leg, NEW to, AskedFor(leg, to), Made(leg, to)
  PROVE  /\ \A l \in Leg : l # leg => StageSame(l)
         /\ (to = "right" => Answered(leg)') /\ (to # "right" => Quiet(leg)')
         /\ leg \in DOMAIN relays' => relays'[leg].hop.bn = 0
<1>1. PICK c : c = CreateFor(leg, to)
  OBVIOUS
<1>2. leg \notin DOMAIN relays /\ backward[leg] = <<>> /\ forward[leg] = <<c>>
  BY <1>1 DEF AskedFor, Absent
<1>3. Tail(<<c>>) = <<>>
  <2>1. IsSeq(<<c>>) /\ Len(<<c>>) = 1 /\ <<c>> # <<>>
    BY OneIs
  <2>2. IsSeq(Tail(<<c>>)) /\ Len(Tail(<<c>>)) = 1 - 1
    BY <2>1, TailIs
  <2>. QED
    BY <2>2, EmptyLen
<1>4. forward'[leg] = <<>> /\ \A l \in Leg : l # leg => forward'[l] = forward[l]
  BY <1>2, <1>3 DEF Made, Loses
<1>5. CASE to = "right"
  <2>1. Gained(leg) /\ Gains(backward, backward', leg, CreatedBy(leg))
    BY <1>5 DEF Made
  <2>2. /\ \A l \in Leg : l # leg => (l \in DOMAIN relays' <=> l \in DOMAIN relays) /\ (l \in DOMAIN relays => relays'[l] = relays[l])
        /\ leg \in DOMAIN relays' /\ relays'[leg] = [hop |-> HopState(FK(leg), BK(leg)), next |-> FALSE, awaiting |-> FALSE]
        /\ relays'[leg].hop.bn = 0
    BY <1>2, <2>1, GainedIs
  <2>3. PICK a : a = CreatedBy(leg)
    OBVIOUS
  <2>4. backward'[leg] = Append(<<>>, a) /\ \A l \in Leg : l # leg => backward'[l] = backward[l]
    BY <1>2, <2>1, <2>3 DEF Gains
  <2>5. Append(<<>>, a) = <<a>>
    OBVIOUS
  <2>6. \A l \in Leg : l # leg => StageSame(l)
    BY <1>4, <2>2, <2>4 DEF StageSame
  <2>7. Answered(leg)'
    BY <1>4, <2>2, <2>3, <2>4, <2>5 DEF Answered, Fresh, CreatedBy, Auth, HopState, FK, BK
  <2>. QED
    BY <1>5, <2>2, <2>6, <2>7
<1>6. CASE to # "right"
  <2>1. relays' = relays /\ backward' = backward
    BY <1>6 DEF Made
  <2>. QED
    BY <1>2, <1>4, <1>6, <2>1 DEF StageSame, Quiet, Absent
<1>. QED
  BY <1>5, <1>6

LEMMA HandleCreateGood ==
  ASSUME Good, NEW leg \in Leg, HandleCreate(leg)
  PROVE  Good'
<1>1. Shape /\ Building
  BY DEF Good
<1>2. CellArrives(forward, leg, "create")
  BY DEF HandleCreate
<1>3. /\ Edge(leg) /\ Absent(leg) /\ (\E to \in LinkSpecs : AskedFor(leg, to))
      /\ leg # Meet => /\ leg = LegTo(Known + 1) /\ Known < PathLen /\ Known \in Nat /\ ClientEnd.pending = leg
                       /\ (Known = 0 => AskedFor(leg, "right")) /\ (Known >= 1 => Waiting(LastRelay))
      /\ leg = Meet => Len(ServiceEnd.hops) = 0 /\ ServiceEnd.pending = leg /\ AskedFor(leg, "right")
  BY <1>2, CreateAsked
<1>4. PICK to \in LinkSpecs : AskedFor(leg, to)
  BY <1>3
<1>5. \A o : AskedFor(leg, o) => o = to
  <2>1. SUFFICES ASSUME NEW o, AskedFor(leg, o) PROVE o = to
    OBVIOUS
  <2>2. PICK c, d : c = CreateFor(leg, o) /\ d = CreateFor(leg, to)
    OBVIOUS
  <2>3. <<c>> = <<d>>
    BY <1>4, <2>1, <2>2 DEF AskedFor
  <2>4. c = d
    BY <2>3
  <2>. QED
    BY <2>2, <2>4 DEF CreateFor
<1>6. Made(leg, to) /\ UNCHANGED <<origin, held, tables, ends, ghosts>>
  BY <1>1, <1>4, CreateMakes
<1>7. /\ \A l \in Leg : l # leg => StageSame(l)
      /\ (to = "right" => Answered(leg)') /\ (to # "right" => Quiet(leg)')
      /\ leg \in DOMAIN relays' => relays'[leg].hop.bn = 0
  BY <1>1, <1>4, <1>6, MadeStage
<1>8. SameClient /\ SameService
  BY <1>6, SameEnds
<1>9. leg \notin DOMAIN relays
  BY <1>3 DEF Absent
<1>10. UNCHANGED <<held, tables, ends0, ghosts>>
  BY <1>6 DEF ends, ends0
<1>11. /\ ClientOut' /\ ServiceWayOut' /\ RelaysSaid' /\ ClientHears' /\ ClientBack' /\ Bridged' /\ ServiceBack'
       /\ Control' /\ Contents' /\ Timely'
  BY <1>3, <1>7, <1>8, <1>9, <1>10, EdgeSteps
<1>12. Shape'
  <2>1. Tables'
    <3>1. forward' = [l \in Leg |-> forward'[l]]
      BY <1>6 DEF Made, Loses
    <3>2. backward' = [l \in Leg |-> backward'[l]]
      <4>1. CASE to = "right"
        BY <1>6, <4>1 DEF Made, Gains
      <4>2. CASE to # "right"
        BY <1>1, <1>6, <4>2 DEF Made, Shape
      <4>. QED
        BY <4>1, <4>2
    <3>3. held' = [t \in OnionTask |-> held'[t]]
      BY <1>1, <1>6 DEF Shape
    <3>4. Leg' = Leg /\ OnionTask' = OnionTask
      BY DEF Leg, OnionTask, FromClient, AtPoint, Hops, OriginEnd
    <3>. QED
      BY <3>1, <3>2, <3>3, <3>4 DEF Tables
  <2>2. CASE to = "right"
    <3>1. Gained(leg)
      BY <1>6, <2>2 DEF Made
    <3>. QED
      BY <1>1, <1>6, <1>9, <2>1, <3>1, GainedIs, ShapeGrows
  <2>3. CASE to # "right"
    <3>1. relays' = relays
      BY <1>6, <2>3 DEF Made
    <3>2. Steps({})
      BY <1>1, <3>1, RelaysAreSame DEF RelaysSame
    <3>. QED
      BY <1>1, <1>6, <2>1, <3>2, ShapeStays
  <2>. QED
    BY <2>2, <2>3
<1>13. Building'
  <2>1. \A e \in OriginEnd : Len(origin'[e].hops) = Len(origin[e].hops)
    BY <1>6
  <2>2. leg = Meet => ClientEnd'.pending = ClientEnd.pending /\ Begun("service")'
    <3>1. SUFFICES ASSUME leg = Meet PROVE Begun("service")'
      BY <1>8 DEF SameClient
    <3>2. <<"service", 1>> = leg /\ origin'["service"].pending = leg
      BY <1>3, <1>6, <3>1 DEF Meet, ServiceEnd
    <3>3. Answered(leg)'
      BY <1>3, <1>5, <1>7, <3>1
    <3>4. Answered(<<"service", 1>>)'
      BY <3>2, <3>3 DEF Answered, Fresh, CreatedBy, HopState, FK, BK, Auth
    <3>5. leg # NoKey
      <4>1. PICK s : s = "service"
        OBVIOUS
      <4>2. Len(<<s, 1>>) = 2
        BY TwoIs
      <4>. QED
        BY <3>2, <4>1, <4>2, EmptyIs DEF NoKey
    <3>. QED
      BY <3>2, <3>4, <3>5, BegunIsNext
  <2>3. leg # Meet => ServiceEnd'.pending = ServiceEnd.pending
    BY <1>8 DEF SameService
  <2>4. leg # Meet /\ Known = 0 => Begun("client")'
    <3>1. SUFFICES ASSUME leg # Meet, Known = 0 PROVE Begun("client")'
      OBVIOUS
    <3>2. <<"client", 1>> = leg /\ origin'["client"].pending = leg
      BY <1>3, <1>6, <3>1 DEF LegTo, ClientEnd
    <3>3. Answered(leg)'
      BY <1>3, <1>5, <1>7, <3>1
    <3>4. Answered(<<"client", 1>>)'
      BY <3>2, <3>3 DEF Answered, Fresh, CreatedBy, HopState, FK, BK, Auth
    <3>5. leg # NoKey
      BY <1>3, <3>1, LegToNotNone
    <3>. QED
      BY <3>2, <3>4, <3>5, BegunIsNext
  <2>5. leg # Meet /\ Known \in 1..(PathLen - 1) => Extending'
    <3>1. SUFFICES ASSUME leg # Meet, Known \in 1..(PathLen - 1) PROVE Extending'
      OBVIOUS
    <3>2. PICK k : k = Known
      OBVIOUS
    <3>3. Known' = k /\ ClientEnd'.pending = leg /\ leg = LegTo(k + 1) /\ Waiting(LastRelay) /\ k >= 1 /\ k \in Nat /\ PathLen \in Nat
      BY <1>1, <1>3, <1>8, <3>1, <3>2, KnownIs DEF SameClient
    <3>4. Quiet(leg)' \/ Answered(leg)'
      BY <1>7
    <3>5. Waiting(LastRelay)'
      <4>1. LegTo(k) \in Leg /\ LegTo(k) # leg /\ LegTo(k) \in DOMAIN relays
        <5>1. k \in 1..Known /\ k \in Int /\ k + 1 \in Int /\ k # k + 1
          BY <3>2, <3>3
        <5>2. LegTo(k) # LegTo(k + 1)
          BY <5>1, LegApart
        <5>. QED
          BY <1>1, <3>3, <5>1, <5>2, KnownIs
      <4>2. relays'[LegTo(k)] = relays[LegTo(k)]
        BY <1>7, <4>1 DEF StageSame
      <4>3. LastRelay' = LastRelay
        BY <3>2, <3>3, <4>2 DEF LastRelay, LegTo
      <4>. QED
        BY <3>3, <4>3 DEF Waiting
    <3>6. leg # NoKey
      BY <3>3, LegToNotNone
    <3>7. LegTo(Known + 1)' = leg
      BY <3>3 DEF LegTo
    <3>8. (Quiet(LegTo(Known + 1))' <=> Quiet(leg)') /\ (Answered(LegTo(Known + 1))' <=> Answered(leg)')
      BY <3>7 DEF Quiet, Answered, Absent, Fresh, CreatedBy, Auth, HopState, FK, BK
    <3>. QED
      BY <3>3, <3>4, <3>5, <3>6, <3>7, <3>8 DEF Extending, NoKey
  <2>. QED
    BY <1>1, <1>3, <1>7, <2>1, <2>2, <2>3, <2>4, <2>5, BuildingEdge
<1>. QED
  BY <1>11, <1>12, <1>13 DEF Good

LEMMA PendingSet ==
  ASSUME Shape, NEW e \in OriginEnd, NEW p, origin' = [origin EXCEPT ![e].pending = p]
  PROVE  \E v : /\ origin' = [origin EXCEPT ![e] = v] /\ v.hops = origin[e].hops /\ v.e2e = origin[e].e2e /\ v.pending = p
                /\ EndFits(e, v)
<1>1. PICK oc, v : oc = origin[e] /\ v = [oc EXCEPT !.pending = p]
  OBVIOUS
<1>2. EndOK(e)
  BY DEF Shape
<1>3. oc = [hops |-> oc.hops, e2e |-> oc.e2e, pending |-> oc.pending] /\ IsSeq(oc.hops) /\ IsSeq(oc.e2e)
  BY <1>1, <1>2 DEF EndOK, OriginOK
<1>4. v = [hops |-> oc.hops, e2e |-> oc.e2e, pending |-> p]
  BY <1>1, <1>3
<1>5. v.hops = oc.hops /\ v.e2e = oc.e2e /\ v.pending = p
  BY <1>4
<1>6. OriginOK(v)
  BY <1>3, <1>4, <1>5 DEF OriginOK
<1>7. origin' = [origin EXCEPT ![e] = v]
  BY <1>1
<1>8. EndFits(e, v)
  BY <1>1, <1>2, <1>5, <1>6 DEF EndFits, EndOK
<1>. QED
  BY <1>1, <1>5, <1>7, <1>8

\* The message that begins a circuit, and nothing else.
LEMMA StartSends ==
  ASSUME Shape, NEW leg \in Leg, NEW c, Quiet(leg), forward' = On(forward, leg, c), c = CreateFor(leg, "right"),
         relays' = relays, backward' = backward, held' = held
  PROVE  /\ Tables' /\ (\A l \in Leg : l # leg => StageSame(l)) /\ AskedFor(leg, "right")'
         /\ \A l \in Leg : l # leg => forward'[l] = forward[l]
<1>1. forward = [l \in Leg |-> forward[l]]
  BY DEF Shape
<1>2. Gains(forward, forward', leg, c)
  BY <1>1, OnIs
<1>3. forward[leg] = <<>> /\ Append(<<>>, c) = <<c>>
  BY DEF Quiet
<1>4. AskedFor(leg, "right")'
  BY <1>2, <1>3 DEF Gains, AskedFor, Quiet, Absent, CreateFor
<1>5. Tables'
  <2>1. Leg' = Leg /\ OnionTask' = OnionTask
    BY DEF Leg, OnionTask, FromClient, AtPoint, Hops, OriginEnd
  <2>. QED
    BY <1>2, <2>1 DEF Tables, Gains, Shape
<1>. QED
  BY <1>2, <1>4, <1>5 DEF Gains, StageSame

LEMMA StartClientGood ==
  ASSUME Good, StartCircuit("client")
  PROVE  Good'
<1>1. /\ Shape /\ Building /\ ClientOut /\ ServiceWayOut /\ RelaysSaid /\ ClientHears /\ ClientBack
      /\ Bridged /\ ServiceBack /\ Control /\ Contents /\ Timely
  BY DEF Good
<1>2. ClientIs /\ ServiceIs /\ ServiceChain
  BY GoodFacts DEF Facts
<1>3. PICK p, leg, c, m : p = Ephemeral("client") /\ leg = LegTo(1) /\ c = CreateFor(leg, "right") /\ m = [kind |-> "create", x |-> p, to |-> "right"]
  OBVIOUS
<1>4. /\ fetching = "start" /\ fetching' = "build" /\ rendezvousing' = rendezvousing
      /\ origin' = [origin EXCEPT !["client"].pending = p]
      /\ forward' = On(forward, leg, m)
      /\ UNCHANGED <<relays, backward, held, tables, meeting, intro, ghosts>>
  BY <1>3 DEF StartCircuit, LegTo
<1>5. PathLen \in Nat /\ PathLen >= 1 /\ leg \in Leg /\ "client" \in OriginEnd /\ leg # Meet
  BY <1>3, LegIs, LegApart DEF OriginEnd
<1>6. /\ Known = 0 /\ ClientEnd.pending = NoKey /\ rendezvousing = "idle" /\ Len(ServiceEnd.hops) = 0 /\ ServiceEnd.pending = NoKey
      /\ ServiceEnd.e2e = <<>> /\ ClientEnd.e2e = <<>> /\ cookie = "none" /\ meeting = NoKey /\ intro = NoKey /\ bridged = FALSE
  <2>1. Known = 0 /\ ClientEnd.pending = NoKey
    BY <1>1, <1>4 DEF Control
  <2>2. rendezvousing = "idle" /\ ClientEnd.e2e = <<>>
    BY <1>1, <1>4 DEF Control
  <2>3. Len(ServiceEnd.hops) = 0 /\ ServiceEnd.pending = NoKey
    BY <1>1, <2>2 DEF Control
  <2>4. ServiceEnd.e2e = <<>>
    BY <1>1, <2>2 DEF Control
  <2>5. cookie = "none"
    BY <1>1, <1>5, <2>1 DEF Control
  <2>6. bridged = FALSE
    BY <1>1, <2>5 DEF Control
  <2>7. meeting = NoKey
    BY <1>1, <1>4 DEF Control
  <2>8. intro = NoKey
    BY <1>1, <1>4 DEF Control
  <2>. QED
    BY <2>1, <2>2, <2>3, <2>4, <2>5, <2>6, <2>7, <2>8
<1>7. Quiet(leg)
  <2>1. Begun("client") /\ <<"client", 1>> = leg
    BY <1>1, <1>3, <1>5 DEF Building, LegTo
  <2>. QED
    BY <1>6, <2>1, BegunIs DEF Known, ClientEnd
<1>8. p = leg /\ m = c
  <2>1. p = leg
    BY <1>3, <1>6 DEF Ephemeral, LegTo, Known, ClientEnd
  <2>. QED
    BY <1>3, <2>1 DEF CreateFor
<1>9. /\ Tables' /\ (\A l \in Leg : l # leg => StageSame(l)) /\ AskedFor(leg, "right")'
  BY <1>1, <1>3, <1>4, <1>5, <1>7, <1>8, StartSends
<1>10. PICK v : /\ origin' = [origin EXCEPT !["client"] = v] /\ v.hops = origin["client"].hops /\ v.e2e = origin["client"].e2e /\ v.pending = p
                /\ EndFits("client", v)
  BY <1>1, <1>4, <1>5, PendingSet
<1>11. E2EFits(v, C2H, H2C)
  BY <1>1, <1>10 DEF Shape, E2EFits, ClientEnd
<1>12. Shape' /\ ClientEnd' = v /\ SameService /\ RelaysSame
  BY <1>1, <1>4, <1>9, <1>10, <1>11, ClientChanges
<1>13. v.hops = ClientEnd.hops /\ v.e2e = ClientEnd.e2e
  BY <1>10 DEF ClientEnd
<1>14. /\ Known' = 0 /\ ClientEnd'.e2e = <<>> /\ ClientEnd'.pending = p /\ ServiceEnd' = ServiceEnd
       /\ ClientLayers' = ClientLayers /\ Len(ClientLayers) = 0
  <2>1. ClientLayers' = ClientLayers
    BY <1>12, <1>13 DEF ClientLayers, Layers
  <2>2. Len(ClientLayers) = 0
    BY <1>2, <1>6 DEF ClientIs, EndLayers, ClientLayers
  <2>. QED
    BY <1>6, <1>10, <1>12, <1>13, <2>1, <2>2 DEF Known, SameService
<1>15. ClientOut'
  BY <1>1, <1>4, <1>6, <1>14 DEF ClientOut, Free
<1>16. ServiceWayOut'
  <2>1. ~(Len(ServiceEnd.hops) > 0)
    BY <1>6
  <2>2. MeetOutStill
    BY <2>1 DEF MeetOutStill
  <2>. QED
    BY <1>1, <1>2, <1>12, <2>2, ServiceWayOutStays
<1>17. RelaysSaid'
  BY <1>14 DEF RelaysSaid
<1>18. ClientHears'
  BY <1>14 DEF ClientHears
<1>19. ClientBack'
  BY <1>1, <1>4, <1>6, <1>14 DEF ClientBack, Free
<1>20. Bridged'
  BY <1>1, <1>4, <1>6, <1>14 DEF Bridged, MeetHop, Meet
<1>21. ServiceBack' /\ Timely'
  <2>1. Len(ServiceEnd'.hops) = 0
    BY <1>6, <1>14
  <2>2. excuses' = excuses /\ lost' = lost
    BY <1>4 DEF ghosts
  <2>3. ServiceBack'
    BY <2>1 DEF ServiceBack
  <2>4. Len(ServiceEnd'.hops) # 1
    BY <2>1
  <2>5. "keys late" \notin excuses' => ~lost'
    BY <1>1, <2>2 DEF Timely
  <2>. QED
    BY <2>3, <2>4, <2>5 DEF Timely
<1>22. Control'
  <2>1. cookie' = cookie /\ bridged' = bridged
    BY <1>4 DEF tables
  <2>2. NoKey' = NoKey /\ Known' # PathLen /\ ~(Known' > 0) /\ Len(ServiceEnd'.hops) = 0
    BY <1>5, <1>6, <1>14 DEF NoKey
  <2>. QED
    BY <1>4, <1>6, <1>14, <2>1, <2>2 DEF Control
<1>23. Contents'
  <2>1. Len(ServiceEnd'.hops) # 1 /\ ServiceEnd'.e2e = <<>> /\ Known' = 0 /\ ClientEnd'.e2e = <<>>
    <3>1. Len(ServiceEnd'.hops) = 0
      BY <1>6, <1>14
    <3>2. ServiceEnd'.e2e = <<>>
      BY <1>6, <1>14
    <3>3. Len(ServiceEnd'.hops) # 1
      BY <3>1
    <3>. QED
      BY <1>14, <3>2, <3>3
  <2>. QED
    BY <2>1 DEF Contents
<1>24. Building'
  <2>1. Edge(leg)
    BY <1>3, <1>5, <1>6 DEF Edge
  <2>2. \A e \in OriginEnd : Len(origin'[e].hops) = Len(origin[e].hops)
    BY <1>6, <1>14 DEF OriginEnd, Known, ClientEnd, ServiceEnd
  <2>3. Begun("client")'
    <3>1. <<"client", 1>> = leg /\ origin'["client"].pending = leg /\ leg # NoKey
      BY <1>3, <1>8, <1>14, LegToNotNone DEF LegTo, ClientEnd
    <3>2. AskedFor(<<"client", 1>>, "right")'
      BY <1>9, <3>1 DEF AskedFor, Absent, CreateFor
    <3>. QED
      BY <3>1, <3>2, BegunIsNext
  <2>4. ServiceEnd'.pending = ServiceEnd.pending
    BY <1>14
  <2>5. Known \notin 1..(PathLen - 1)
    BY <1>5, <1>6
  <2>. QED
    BY <1>1, <1>5, <1>9, <2>1, <2>2, <2>3, <2>4, <2>5, BuildingEdge
<1>. QED
  BY <1>12, <1>15, <1>16, <1>17, <1>18, <1>19, <1>20, <1>21, <1>22, <1>23, <1>24 DEF Good

LEMMA StartServiceGood ==
  ASSUME Good, StartCircuit("service")
  PROVE  Good'
<1>1. /\ Shape /\ Building /\ ClientOut /\ ServiceWayOut /\ RelaysSaid /\ ClientHears /\ ClientBack
      /\ Bridged /\ ServiceBack /\ Control /\ Contents /\ Timely
  BY DEF Good
<1>2. ClientIs /\ ServiceIs /\ ClientChain /\ BackIs
  BY GoodFacts DEF Facts
<1>3. PICK p, leg, c, m : p = Ephemeral("service") /\ leg = Meet /\ c = CreateFor(leg, "right") /\ m = [kind |-> "create", x |-> p, to |-> "right"]
  OBVIOUS
<1>4. /\ rendezvousing = "opened" /\ rendezvousing' = "build" /\ fetching' = fetching
      /\ origin' = [origin EXCEPT !["service"].pending = p]
      /\ forward' = On(forward, leg, m)
      /\ UNCHANGED <<relays, backward, held, tables, meeting, intro, ghosts>>
  BY <1>3 DEF StartCircuit, Meet
<1>5. PathLen \in Nat /\ PathLen >= 1 /\ leg \in Leg /\ "service" \in OriginEnd
  BY <1>3, LegIs DEF OriginEnd
<1>6. /\ Len(ServiceEnd.hops) = 0 /\ ServiceEnd.pending = NoKey /\ ServiceEnd.e2e = <<>> /\ fetching = "introduced"
      /\ cookie # "used" /\ Known = PathLen
  <2>1. Len(ServiceEnd.hops) = 0 /\ ServiceEnd.pending = NoKey
    BY <1>1, <1>4 DEF Control
  <2>2. ServiceEnd.e2e = <<>>
    BY <1>1, <1>4 DEF Control
  <2>3. fetching = "introduced"
    BY <1>1, <1>4 DEF Control
  <2>4. Known = PathLen
    BY <1>1, <2>3 DEF Control
  <2>5. cookie # "used"
    BY <1>1, <2>1 DEF Control
  <2>. QED
    BY <2>1, <2>2, <2>3, <2>4, <2>5
<1>7. Quiet(leg)
  <2>1. Begun("service") /\ <<"service", 1>> = leg
    BY <1>1, <1>3, <1>5 DEF Building, Meet
  <2>. QED
    BY <1>6, <2>1, BegunIs DEF ServiceEnd
<1>8. p = leg /\ m = c
  <2>1. p = leg
    BY <1>3, <1>6 DEF Ephemeral, Meet, ServiceEnd
  <2>. QED
    BY <1>3, <2>1 DEF CreateFor
<1>9. /\ Tables' /\ (\A l \in Leg : l # leg => StageSame(l)) /\ AskedFor(leg, "right")'
      /\ \A l \in Leg : l # leg => forward'[l] = forward[l]
  BY <1>1, <1>3, <1>4, <1>5, <1>7, <1>8, StartSends
<1>10. PICK v : /\ origin' = [origin EXCEPT !["service"] = v] /\ v.hops = origin["service"].hops /\ v.e2e = origin["service"].e2e /\ v.pending = p
                /\ EndFits("service", v)
  BY <1>1, <1>4, <1>5, PendingSet
<1>11. E2EFits(v, H2C, C2H)
  BY <1>1, <1>10 DEF Shape, E2EFits, ServiceEnd
<1>12. Shape' /\ ServiceEnd' = v /\ SameClient /\ RelaysSame
  BY <1>1, <1>4, <1>9, <1>10, <1>11, ServiceChanges
<1>13. v.hops = ServiceEnd.hops /\ v.e2e = ServiceEnd.e2e
  BY <1>10 DEF ServiceEnd
<1>14. /\ Len(ServiceEnd'.hops) = 0 /\ ServiceEnd'.e2e = <<>> /\ ServiceEnd'.pending = p
       /\ ServiceLayers' = ServiceLayers
  <2>1. ServiceLayers' = ServiceLayers
    BY <1>12, <1>13 DEF ServiceLayers, Layers
  <2>. QED
    BY <1>6, <1>10, <1>12, <1>13, <2>1
<1>15. Steps({}) /\ StagesStay /\ (\A i : RelayHop(i)' = RelayHop(i)) /\ MeetHop' = MeetHop
  BY <1>12 DEF RelaysSame
<1>16. /\ Known' = Known /\ cookie' = cookie /\ bridged' = bridged
       /\ \A i \in 1..Known : LegTo(i) \in Leg /\ LegTo(i) # leg /\ i \in Int
  <2>1. \A i \in 1..Known : LegTo(i) \in Leg /\ i \in Int
    BY <1>1, KnownIs
  <2>. QED
    BY <1>3, <1>4, <1>12, <2>1, LegApart DEF SameClient, tables
<1>17. ClientOut'
  <2>1. OutHopsStill
    BY <1>9, <1>15, <1>16 DEF OutHopsStill
  <2>2. held'["fetch"] = held["fetch"] /\ held'["pump"] = held["pump"]
    BY <1>4
  <2>. QED
    BY <1>1, <1>2, <1>12, <2>1, <2>2, ClientOutStays
<1>18. ServiceWayOut'
  BY <1>1, <1>14 DEF ServiceWayOut
<1>19. SaidStill /\ BackHopsStill
  BY <1>4, <1>15, <1>16 DEF SaidStill, BackHopsStill
<1>20. RelaysSaid'
  BY <1>1, <1>2, <1>15, <1>16, <1>19, RelaysSaidStays
<1>21. ChainBack' = ChainBack
  BY <1>6, <1>14, <1>15, <1>16 DEF ChainBack, BK, LegTo, H2C, Meeting, ServiceKey
<1>22. ClientHears'
  BY <1>1, <1>12, <1>21, ClientHearsStays DEF SameClient
<1>23. ClientBack'
  BY <1>1, <1>2, <1>4, <1>12, <1>19, <1>21, ClientBackStays DEF SameClient
<1>24. Bridged'
  BY <1>1, <1>4, <1>12, <1>15, BridgedStays
<1>25. ServiceBack' /\ Timely'
  <2>1. Len(ServiceEnd'.hops) = 0
    BY <1>14
  <2>2. excuses' = excuses /\ lost' = lost
    BY <1>4 DEF ghosts
  <2>3. ServiceBack'
    BY <2>1 DEF ServiceBack
  <2>4. Len(ServiceEnd'.hops) # 1
    BY <2>1
  <2>5. "keys late" \notin excuses' => ~lost'
    BY <1>1, <2>2 DEF Timely
  <2>. QED
    BY <2>3, <2>4, <2>5 DEF Timely
<1>26. ClientEnd' = ClientEnd /\ Read' = Read
  BY <1>12 DEF SameClient
<1>27. Control'
  <2>1. PointEstablished' <=> PointEstablished
    BY <1>15 DEF PointEstablished
  <2>2. NoKey' = NoKey /\ Meeting' = Meeting /\ Len(ServiceEnd'.hops) = 0
    BY <1>14 DEF NoKey, Meeting
  <2>. QED
    BY <1>1, <1>4, <1>6, <1>14, <1>16, <1>26, <2>1, <2>2 DEF Control, PointEstablished
<1>28. Contents'
  <2>1. Len(ServiceEnd'.hops) # 1 /\ ServiceEnd'.e2e = <<>>
    BY <1>14
  <2>2. \A i, m2 : ExtendSaid(i, m2) => ExtendSaid(i, m2)'
    BY <1>16, <1>26 DEF ExtendSaid, LegTo, NoKey, LinkSpecs
  <2>3. \A s : EstablishSaid(s) => EstablishSaid(s)'
    BY <1>4 DEF EstablishSaid
  <2>4. ASSUME NEW i \in 1..Known', NEW q \in 2..Len(ClientLayers'[i].fd) PROVE ExtendSaid(i, ClientLayers[i].fd[q])'
    BY <1>1, <1>12, <1>16, <2>2 DEF Contents, SameClient
  <2>5. ASSUME NEW i \in 1..Known' PROVE EstablishSaid(ClientLayers[i].fd)'
    BY <1>1, <1>12, <1>16, <2>3 DEF Contents, SameClient
  <2>6. (\A i \in 1..Known : /\ \A q \in 2..Len(ClientLayers[i].fd) : ExtendSaid(i, ClientLayers[i].fd[q])
                             /\ EstablishSaid(ClientLayers[i].fd))'
    BY ONLY <2>4, <2>5, Zenon
  <2>7. (ClientEnd.e2e # <<>> => ClientEnd.e2e[1].fd[1] = C2H)'
    BY <1>1, <1>26 DEF Contents, C2H, Meeting, ServiceKey
  <2>. QED
    BY <2>1, <2>6, <2>7 DEF Contents
<1>29. Building'
  <2>1. Edge(leg)
    BY <1>3, <1>5, <1>6 DEF Edge
  <2>2. \A e \in OriginEnd : Len(origin'[e].hops) = Len(origin[e].hops)
    BY <1>6, <1>14, <1>26 DEF OriginEnd, ClientEnd, ServiceEnd
  <2>3. Begun("service")'
    <3>1. leg # NoKey
      <4>1. PICK s : s = "service"
        OBVIOUS
      <4>2. Len(<<s, 1>>) = 2
        BY TwoIs
      <4>. QED
        BY <1>3, <4>1, <4>2, EmptyIs DEF NoKey, Meet
    <3>2. <<"service", 1>> = leg /\ origin'["service"].pending = leg
      BY <1>3, <1>8, <1>14 DEF Meet, ServiceEnd
    <3>3. AskedFor(<<"service", 1>>, "right")'
      BY <1>9, <3>2 DEF AskedFor, Absent, CreateFor
    <3>. QED
      BY <3>1, <3>2, <3>3, BegunIsNext
  <2>4. ClientEnd'.pending = ClientEnd.pending
    BY <1>26
  <2>. QED
    BY <1>1, <1>3, <1>9, <2>1, <2>2, <2>3, <2>4, BuildingEdge
<1>. QED
  BY <1>12, <1>17, <1>18, <1>20, <1>22, <1>23, <1>24, <1>25, <1>27, <1>28, <1>29 DEF Good

LEMMA LegFirst == ASSUME NEW e \in OriginEnd PROVE <<e, 1>> \in Leg /\ <<e, 1>> # NoKey /\ Hops(e) >= 1 /\ Hops(e) \in Nat
<1>1. PathLen \in Nat /\ PathLen >= 1
  BY LegIs
<1>2. <<e, 1>> \in Leg /\ Hops(e) >= 1 /\ Hops(e) \in Nat
  BY <1>1 DEF Leg, Hops, OriginEnd
<1>3. Len(<<e, 1>>) = 2
  BY TwoIs
<1>. QED
  BY <1>2, <1>3, EmptyIs DEF NoKey

\* The first hop of a circuit: what its end makes of the answer.
FirstMade(e, v) ==
  /\ origin' = [origin EXCEPT ![e] = v] /\ FirstHop(v.hops, FK(<<e, 1>>), BK(<<e, 1>>)) /\ v.e2e = <<>> /\ v.pending = NoKey
  /\ EndFits(e, v) /\ Len(v.hops) = 1 /\ FirstHop(Layers(v), FK(<<e, 1>>), BK(<<e, 1>>))
LEMMA FirstIs ==
  ASSUME Shape, NEW e \in OriginEnd, NEW leg, leg = <<e, 1>>, Len(origin[e].hops) = 0, origin[e].e2e = <<>>, origin[e].pending = leg,
         Answered(leg), HandleCreated(e)
  PROVE  \E v : FirstMade(e, v)
<1>1. PICK oc, reply, h, v : /\ oc = origin[e] /\ reply = Head(backward[leg]) /\ h = HopState(FK(leg), BK(leg))
                             /\ v = [oc EXCEPT !.hops = Append(@, h), !.pending = NoKey]
  OBVIOUS
<1>2. EndOK(e)
  BY DEF Shape
<1>3. oc = [hops |-> oc.hops, e2e |-> oc.e2e, pending |-> oc.pending] /\ IsSeq(oc.hops) /\ IsSeq(oc.e2e)
  BY <1>1, <1>2 DEF EndOK, OriginOK
<1>4. leg \in Leg /\ leg # NoKey /\ Hops(e) >= 1 /\ Hops(e) \in Nat
  BY LegFirst
<1>5. reply = CreatedBy(leg)
  <2>1. PICK a : a = CreatedBy(leg)
    OBVIOUS
  <2>2. backward[leg] = <<a>>
    BY <2>1 DEF Answered
  <2>. QED
    BY <1>1, <2>1, <2>2
<1>6. reply.y = leg /\ AuthHolds(oc.pending, reply)
  BY <1>1, <1>5 DEF CreatedBy, AuthHolds, Auth
<1>7. from_ntor(NtorKeys(oc.pending, reply.y)) = h
  BY <1>1, <1>6 DEF from_ntor, NtorKeys, FK, BK
<1>8. Finished(oc, reply) = v
  BY <1>1, <1>4, <1>6, <1>7 DEF Finished
<1>9. origin' = [origin EXCEPT ![e] = v]
  BY <1>1, <1>8 DEF HandleCreated
<1>10. PICK hs : hs = Append(oc.hops, h)
  OBVIOUS
<1>11. hs = <<h>>
  <2>1. oc.hops = <<>>
    BY <1>1, <1>3, EmptyLen
  <2>2. Append(<<>>, h) = <<h>>
    OBVIOUS
  <2>. QED
    BY <1>10, <2>1, <2>2
<1>12. v = [hops |-> hs, e2e |-> oc.e2e, pending |-> NoKey]
  BY <1>1, <1>3, <1>10
<1>13. v.hops = hs /\ v.e2e = oc.e2e /\ v.pending = NoKey
  BY <1>12
<1>14. IsSeq(hs) /\ Len(hs) = 1 /\ hs[1] = h
  BY <1>11, OneIs
<1>15. OriginOK(v)
  BY <1>3, <1>12, <1>13, <1>14 DEF OriginOK
<1>16. h.fk = FK(leg) /\ h.bk = BK(leg)
  BY <1>1, HopStateIs
<1>17. leg \in DOMAIN relays
  BY DEF Answered, Fresh
<1>18. EndFits(e, v)
  <2>1. \A i \in 1..Len(v.hops) : i = 1
    BY <1>13, <1>14
  <2>2. \A i \in 1..Len(v.hops) : v.hops[i].fk = FK(<<e, i>>) /\ v.hops[i].bk = BK(<<e, i>>) /\ <<e, i>> \in DOMAIN relays
    BY <1>13, <1>14, <1>16, <1>17, <2>1
  <2>3. Len(v.hops) <= Hops(e) /\ v.e2e = <<>> /\ Len(v.e2e) <= 1
    BY <1>1, <1>4, <1>13, <1>14, EmptyIs
  <2>. QED
    BY <1>15, <2>2, <2>3 DEF EndFits
<1>19. Layers(v) = hs
  <2>1. /\ IsSeq(Layers(v)) /\ Len(Layers(v)) = Len(v.hops) + Len(v.e2e)
        /\ \A i \in 1..Len(v.hops) : Layers(v)[i] = v.hops[i]
    BY <1>15, LayersOf
  <2>2. Len(v.e2e) = 0 /\ Len(v.hops) = 1
    BY <1>1, <1>13, <1>14, EmptyIs
  <2>3. Len(Layers(v)) = Len(hs) /\ \A i \in 1..Len(Layers(v)) : Layers(v)[i] = hs[i]
    BY <1>13, <1>14, <2>1, <2>2
  <2>. QED
    BY <1>14, <2>1, <2>3, SeqEq
<1>20. FirstHop(hs, FK(<<e, 1>>), BK(<<e, 1>>))
  BY <1>1, <1>11 DEF FirstHop
<1>21. FirstMade(e, v)
  BY <1>1, <1>9, <1>13, <1>14, <1>18, <1>19, <1>20 DEF FirstMade
<1>. QED
  BY <1>21

LEMMA FirstTaken ==
  ASSUME Shape, NEW e \in OriginEnd, NEW leg, leg = <<e, 1>>, Answered(leg), HandleCreated(e)
  PROVE  /\ Tables' /\ backward'[leg] = <<>> /\ forward[leg] = <<>> /\ (\A l \in Leg : l # leg => StageSame(l))
         /\ UNCHANGED <<relays, forward, held, tables, ends, ghosts>> /\ Fresh(leg)
<1>1. leg \in Leg
  BY LegFirst
<1>2. backward = [l \in Leg |-> backward[l]] /\ backward' = Off(backward, leg) /\ UNCHANGED <<relays, forward, held, tables, ends, ghosts>>
  BY DEF Shape, HandleCreated
<1>3. Loses(backward, backward', leg)
  BY <1>1, <1>2, OffIs
<1>4. PICK c : c = CreatedBy(leg)
  OBVIOUS
<1>5. backward[leg] = <<c>>
  BY <1>4 DEF Answered
<1>6. Tail(<<c>>) = <<>>
  <2>1. IsSeq(<<c>>) /\ Len(<<c>>) = 1 /\ <<c>> # <<>>
    BY OneIs
  <2>2. IsSeq(Tail(<<c>>)) /\ Len(Tail(<<c>>)) = 1 - 1
    BY <2>1, TailIs
  <2>. QED
    BY <2>2, EmptyLen
<1>7. Tables'
  <2>1. Leg' = Leg /\ OnionTask' = OnionTask
    BY DEF Leg, OnionTask, FromClient, AtPoint, Hops, OriginEnd
  <2>. QED
    BY <1>2, <1>3, <2>1 DEF Tables, Loses, Shape
<1>. QED
  BY <1>2, <1>3, <1>5, <1>6, <1>7 DEF Loses, StageSame, Answered

LEMMA FreshIs ==
  ASSUME NEW leg, Fresh(leg)
  PROVE  /\ leg \in DOMAIN relays /\ relays[leg].hop = HopState(FK(leg), BK(leg)) /\ relays[leg].next = FALSE /\ relays[leg].awaiting = FALSE
         /\ relays[leg].hop.fn = 0 /\ relays[leg].hop.bn = 0 /\ relays[leg].hop.fd = <<FK(leg)>> /\ relays[leg].hop.bd = <<BK(leg)>>
<1>1. PICK r, h, n : r = relays[leg] /\ h = HopState(FK(leg), BK(leg)) /\ n = FALSE
  OBVIOUS
<1>2. leg \in DOMAIN relays /\ r = [hop |-> h, next |-> n, awaiting |-> n]
  BY <1>1 DEF Fresh
<1>3. r.hop = h /\ r.next = n /\ r.awaiting = n
  BY <1>2
<1>4. h.fn = 0 /\ h.bn = 0 /\ h.fd = <<FK(leg)>> /\ h.bd = <<BK(leg)>>
  BY <1>1, HopStateIs
<1>. QED
  BY <1>1, <1>2, <1>3, <1>4

LEMMA CreatedClient ==
  ASSUME Good, HandleCreated("client")
  PROVE  /\ Known = 0 /\ ClientEnd.pending = LegTo(1) /\ Answered(LegTo(1)) /\ fetching = "build" /\ rendezvousing = "idle"
         /\ Len(ServiceEnd.hops) = 0 /\ ServiceEnd.e2e = <<>> /\ ClientEnd.e2e = <<>> /\ cookie = "none" /\ bridged = FALSE
         /\ meeting = NoKey /\ intro = NoKey
<1>1. Shape /\ Building /\ Control /\ Places
  BY GoodFacts DEF Good, Facts
<1>2. <<"client", 1>> = LegTo(1) /\ PathLen \in Nat /\ PathLen >= 1 /\ 1 \in 1..PathLen
  BY LegIs DEF LegTo
<1>3. CellArrives(backward, LegTo(1), "created")
  BY <1>2 DEF HandleCreated
<1>4. Known = 0
  <2>1. 1 = Known + 1 /\ Known \in Nat
    BY <1>1, <1>2, <1>3, KnownIs DEF Places
  <2>. QED
    BY <2>1
<1>5. Begun("client") /\ backward[LegTo(1)] # <<>> /\ Len(origin["client"].hops) = 0
  BY <1>1, <1>3, <1>4 DEF Building, OriginEnd, CellArrives, Known, ClientEnd
<1>6. ClientEnd.pending = LegTo(1) /\ Answered(LegTo(1)) /\ ClientEnd.pending # NoKey
  BY <1>2, <1>5, BegunIs, LegToNotNone DEF Quiet, Absent, AskedFor, ClientEnd
<1>7. fetching = "build"
  BY <1>1, <1>2, <1>4, <1>6 DEF Control
<1>8. rendezvousing = "idle" /\ ClientEnd.e2e = <<>>
  BY <1>1, <1>7 DEF Control
<1>9. Len(ServiceEnd.hops) = 0 /\ ServiceEnd.e2e = <<>>
  BY <1>1, <1>8 DEF Control
<1>10. cookie = "none"
  BY <1>1, <1>2, <1>4 DEF Control
<1>11. bridged = FALSE
  BY <1>1, <1>10 DEF Control
<1>12. meeting = NoKey
  BY <1>1, <1>7 DEF Control
<1>13. intro = NoKey
  BY <1>1, <1>7 DEF Control
<1>. QED
  BY <1>4, <1>6, <1>7, <1>8, <1>9, <1>10, <1>11, <1>12, <1>13

LEMMA HandleCreatedClientGood ==
  ASSUME Good, HandleCreated("client")
  PROVE  Good'
<1>1. /\ Shape /\ Building /\ ClientOut /\ ServiceWayOut /\ RelaysSaid /\ ClientHears /\ ClientBack
      /\ Bridged /\ ServiceBack /\ Control /\ Contents /\ Timely
  BY DEF Good
<1>2. ClientIs /\ ServiceIs /\ ServiceChain
  BY GoodFacts DEF Facts
<1>3. PICK leg : leg = LegTo(1)
  OBVIOUS
<1>4. /\ Known = 0 /\ ClientEnd.pending = leg /\ Answered(leg) /\ fetching = "build" /\ rendezvousing = "idle"
      /\ Len(ServiceEnd.hops) = 0 /\ ServiceEnd.e2e = <<>> /\ ClientEnd.e2e = <<>> /\ cookie = "none" /\ ~bridged
      /\ meeting = NoKey /\ intro = NoKey
  BY <1>3, CreatedClient
<1>5. /\ PathLen \in Nat /\ PathLen >= 1 /\ leg \in Leg /\ "client" \in OriginEnd /\ leg # Meet /\ leg = <<"client", 1>> /\ Meet \in Leg
  BY <1>3, LegIs, LegApart DEF OriginEnd, LegTo
<1>6. /\ Tables' /\ backward'[leg] = <<>> /\ forward[leg] = <<>> /\ (\A l \in Leg : l # leg => StageSame(l))
      /\ UNCHANGED <<relays, forward, held, tables, ends, ghosts>> /\ Fresh(leg)
  BY <1>1, <1>4, <1>5, FirstTaken
<1>7. PICK v : FirstMade("client", v)
  <2>1. Len(origin["client"].hops) = 0 /\ origin["client"].e2e = <<>> /\ origin["client"].pending = leg
    BY <1>4 DEF Known, ClientEnd
  <2>. QED
    BY <1>1, <1>4, <1>5, <2>1, FirstIs
<1>8. /\ origin' = [origin EXCEPT !["client"] = v] /\ FirstHop(v.hops, FK(leg), BK(leg)) /\ v.e2e = <<>> /\ v.pending = NoKey
      /\ EndFits("client", v) /\ Len(v.hops) = 1 /\ FirstHop(Layers(v), FK(leg), BK(leg))
  BY <1>5, <1>7 DEF FirstMade
<1>9. E2EFits(v, C2H, H2C)
  BY <1>8, EmptyIs DEF E2EFits
<1>10. Shape' /\ ClientEnd' = v /\ SameService /\ RelaysSame
  BY <1>1, <1>6, <1>8, <1>9, ClientChanges
<1>11. PICK ms, fk, bk : ms = Layers(v) /\ fk = FK(leg) /\ bk = BK(leg)
  OBVIOUS
<1>12. FirstHop(ms, fk, bk) /\ ClientLayers' = ms
  BY <1>8, <1>10, <1>11 DEF ClientLayers
<1>13. /\ Known' = 1 /\ ClientEnd'.e2e = <<>> /\ ClientEnd'.pending = NoKey /\ ServiceEnd' = ServiceEnd
  BY <1>8, <1>10 DEF Known, SameService
<1>14. /\ leg \in DOMAIN relays /\ relays[leg].next = FALSE /\ relays[leg].awaiting = FALSE
       /\ relays[leg].hop.fn = 0 /\ relays[leg].hop.bn = 0 /\ relays[leg].hop.fd = <<fk>> /\ relays[leg].hop.bd = <<bk>>
  BY <1>6, <1>11, FreshIs
<1>15. PICK hop : hop = relays[leg].hop
  OBVIOUS
<1>16. RelayHop(1) = hop /\ RelayHop(1)' = hop /\ relays' = relays
  BY <1>3, <1>6, <1>15 DEF RelayHop, LegTo
<1>17. /\ Relayed'[1] = hop /\ OutQueues'[1] = <<>> /\ BackQueues'[1] = <<>>
  BY <1>3, <1>6, <1>13, <1>16 DEF Relayed, OutQueues, BackQueues, RelayHop, LegTo
<1>18. ms = <<HopState(fk, bk)>> /\ Len(ms) = 1 /\ ms[1] = HopState(fk, bk) /\ LayersOK(ms)
       /\ ms[1].fn = 0 /\ ms[1].bn = 0 /\ ms[1].fd = <<fk>> /\ ms[1].bd = <<bk>> /\ ms[1].bk = bk
  <2>1. ms = <<HopState(fk, bk)>>
    BY <1>12 DEF FirstHop
  <2>2. PICK h : h = HopState(fk, bk)
    OBVIOUS
  <2>3. h.fn = 0 /\ h.bn = 0 /\ h.fd = <<fk>> /\ h.bd = <<bk>> /\ h.bk = bk
    BY <2>2, HopStateIs
  <2>4. Len(<<h>>) = 1 /\ <<h>>[1] = h
    BY OneIs
  <2>5. LayersOK(ms)
    <3>1. PICK R, Q : R = <<hop>> /\ Q = <<forward[leg]>>
      OBVIOUS
    <3>2. R[1].fn = 0 /\ R[1].fd = <<fk>> /\ Q[1] = <<>>
      BY <1>6, <1>14, <1>15, <3>1
    <3>. QED
      BY <1>12, <3>2, LineFirst
  <2>. QED
    BY <2>1, <2>2, <2>3, <2>4, <2>5
<1>19. Read' = 0 /\ Sent' = 0 /\ Len(ClientLayers') = 1
  BY <1>12, <1>18 DEF Read, Sent
<1>20. ClientOut'
  <2>1. PICK R, Q : R = Relayed' /\ Q = OutQueues'
    OBVIOUS
  <2>2. R[1].fn = 0 /\ R[1].fd = <<fk>> /\ Q[1] = <<>>
    BY <1>14, <1>15, <1>17, <2>1
  <2>3. LayersOK(ms) /\ OutLine(Chain(ms), 1, ms[1].fn, <<>>, <<>>, R, Q)
    BY <1>12, <2>2, LineFirst
  <2>4. held'["fetch"] = <<>> /\ held'["pump"] = <<>>
    BY <1>1, <1>4, <1>6 DEF ClientOut, Free
  <2>5. ChainOut' = Chain(ms) /\ Sent' = ms[1].fn
    BY <1>12, <1>18, <1>19 DEF ChainOut
  <2>6. OutLine(ChainOut', Known', Sent', held'["fetch"], held'["pump"], Relayed', OutQueues')
    BY <1>13, <2>1, <2>3, <2>4, <2>5
  <2>7. LayersOK(ClientLayers')
    BY <1>12, <2>3
  <2>8. Known' # 0
    BY <1>13
  <2>. QED
    BY <2>6, <2>7, <2>8 DEF ClientOut
<1>21. ServiceWayOut'
  <2>1. ~(Len(ServiceEnd.hops) > 0)
    BY <1>4
  <2>2. MeetOutStill
    BY <2>1 DEF MeetOutStill
  <2>. QED
    BY <1>1, <1>2, <1>10, <2>2, ServiceWayOutStays
<1>22. \A i \in 1..Known' : i = 1
  BY <1>13
<1>23. BK(LegTo(1))' = bk /\ BK(LegTo(1)) = bk
  BY <1>3, <1>11 DEF BK, LegTo
<1>24. SaidAt(1)' = <<bk>>
  <2>1. CASE PathLen = 1
    <3>1. cookie' = "none"
      BY <1>4, <1>6 DEF tables
    <3>. QED
      BY <1>13, <1>23, <2>1, <3>1 DEF SaidAt
  <2>2. CASE PathLen # 1
    <3>1. 2 \in 1..PathLen /\ 2 > Known + 1 /\ 1 < PathLen
      BY <1>4, <1>5, <2>2
    <3>2. Quiet(LegTo(2))
      BY <1>1, <3>1 DEF Building
    <3>3. LegTo(1 + 1) \notin DOMAIN relays
      BY <3>2 DEF Quiet, Absent
    <3>4. LegTo(1 + 1)' \notin DOMAIN relays'
      BY <1>16, <3>3 DEF LegTo
    <3>. QED
      BY <1>13, <1>23, <3>1, <3>4 DEF SaidAt
  <2>. QED
    BY <2>1, <2>2
<1>25. RelaysSaid'
  <2>1. RelayHop(1)'.bd = SaidAt(1)'
    BY <1>14, <1>15, <1>16, <1>24
  <2>2. cookie' # "used"
    BY <1>4, <1>6 DEF tables
  <2>3. Len(<<bk>>) = 1
    BY OneIs
  <2>4. RelayHop(1)'.bn + 1 = Len(RelayHop(1)'.bd)
    <3>1. PICK h, s : h = RelayHop(1)' /\ s = <<bk>>
      OBVIOUS
    <3>2. h.bn = 0 /\ h.bd = s /\ Len(s) = 1
      BY <1>14, <1>15, <1>16, <2>3, <3>1
    <3>3. h.bn + 1 = Len(h.bd)
      BY ONLY <3>2
    <3>. QED
      BY <3>1, <3>3
  <2>5. RelayHop(Known)' = RelayHop(1)'
    BY <1>13 DEF RelayHop, LegTo
  <2>. QED
    BY <1>13, <1>22, <2>1, <2>2, <2>4, <2>5 DEF RelaysSaid
<1>26. /\ Len(ChainBack') = 1 /\ ChainBack'[1] = [k |-> bk, o |-> 0, d |-> <<bk>>]
  <2>1. ServiceEnd'.e2e = <<>>
    BY <1>4, <1>13
  <2>2. ChainBack' = [i \in 1..1 |-> IF i <= 1 THEN [k |-> BK(LegTo(i))', o |-> i - 1, d |-> RelayHop(i)'.bd]
                       ELSE [k |-> H2C', o |-> PathLen + 1, d |-> ServiceEnd'.e2e[1].fd]]
    BY <1>13, <2>1 DEF ChainBack
  <2>3. Len(ChainBack') = 1
    <3>1. PICK q : q = ChainBack'
      OBVIOUS
    <3>2. 1 \in Nat /\ q = [i \in 1..1 |-> q[i]]
      BY <2>2, <3>1
    <3>3. Len(q) = 1
      BY <3>2, FunIs
    <3>. QED
      BY <3>1, <3>3
  <2>4. ChainBack'[1] = [k |-> BK(LegTo(1))', o |-> 0, d |-> RelayHop(1)'.bd]
    BY <2>2
  <2>. QED
    BY <1>14, <1>15, <1>16, <1>23, <2>3, <2>4
<1>27. PICK H : H = ChainBack'
  OBVIOUS
<1>28. ChainOK(H)
  <2>1. Good' => Facts'
    BY GoodFactsNext
  <2>2. ClientIs' /\ ServiceIs'
    BY <1>10, EndsAreNext
  <2>3. IsSeq(H) /\ Len(H) = 1 /\ H[1].o = 0 /\ H[1].d = <<bk>>
    <3>1. ServiceEnd'.e2e = <<>>
      BY <1>4, <1>13
    <3>2. H = [i \in 1..1 |-> H[i]]
      BY <1>13, <1>27, <3>1 DEF ChainBack
    <3>3. 1 \in Nat
      OBVIOUS
    <3>4. IsSeq(H)
      BY ONLY <3>2, <3>3, FunIs
    <3>5. H[1] = [k |-> bk, o |-> 0, d |-> <<bk>>] /\ Len(H) = 1
      BY <1>26, <1>27
    <3>6. PICK s : s = <<bk>>
      OBVIOUS
    <3>7. H[1] = [k |-> bk, o |-> 0, d |-> s]
      BY <3>5, <3>6
    <3>8. H[1].o = 0 /\ H[1].d = s
      BY ONLY <3>7
    <3>. QED
      BY <3>4, <3>5, <3>6, <3>8
  <2>4. IsSeq(<<bk>>) /\ Len(<<bk>>) = 1
    BY OneIs
  <2>5. \A i \in 1..Len(H) : i = 1
    BY <2>3
  <2>. QED
    BY <2>3, <2>4, <2>5 DEF ChainOK
<1>29. Len(H) = 1 /\ H[1].o = 0 /\ H[1].d = <<bk>>
  BY <1>26, <1>27
<1>30. ClientHears'
  <2>1. Upto(<<bk>>, 1) = <<bk>>
    BY OneIs, UptoAll
  <2>2. Heard(H, 1, 0, <<bk>>)
    <3>1. H[1].d = <<bk>> /\ ~(1 < Len(H)) /\ 0 + 1 = 1
      BY <1>29
    <3>. QED
      BY <2>1, <3>1 DEF Heard
  <2>3. ClientHeard(1)'
    <3>1. Starts(1)' = 0
      BY <1>5 DEF Starts
    <3>2. ClientLayers'[1].bn = 0 /\ ClientLayers'[1].bd = <<bk>>
      BY <1>12, <1>18
    <3>3. Heard(ChainBack, 1, ClientLayers[1].bn, ClientLayers[1].bd)'
      BY <1>27, <2>2, <3>2 DEF Heard, Upto
    <3>4. ~(1 > Len(ChainBack'))
      BY <1>26
    <3>. QED
      BY <3>1, <3>2, <3>3, <3>4 DEF ClientHeard
  <2>4. ASSUME NEW i \in 1..Len(ClientLayers') PROVE ClientHeard(i)'
    <3>1. i = 1
      BY <1>19
    <3>. QED
      BY <2>3, <3>1 DEF ClientHeard, Starts
  <2>. QED
    BY <2>4 DEF ClientHears
<1>31. ClientBack'
  <2>1. PICK R, Q : R = Relayed' /\ Q = BackQueues'
    OBVIOUS
  <2>2. R[1].bn = 0 /\ Q[1] = <<>> /\ Len(H) >= 1
    BY <1>14, <1>15, <1>17, <1>29, <2>1
  <2>3. BackLine(H, 1, 0, <<>>, <<>>, R, Q)
    BY <1>28, <1>29, <2>2, BackLineFirst
  <2>4. held'["clientReader"] = <<>> /\ held'["serviceReader"] = <<>>
    BY <1>1, <1>4, <1>5, <1>6 DEF ClientBack, Free
  <2>5. BackLine(ChainBack', Known', Read', held'["clientReader"], held'["serviceReader"], Relayed', BackQueues')
    BY <1>13, <1>19, <1>27, <2>1, <2>3, <2>4
  <2>. QED
    BY <2>4, <2>5 DEF ClientBack, Free
<1>32. Bridged'
  BY <1>1, <1>4, <1>13, <1>16 DEF Bridged, MeetHop, Meet
<1>33. ServiceBack' /\ Timely'
  <2>1. Len(ServiceEnd'.hops) = 0
    BY <1>4, <1>13
  <2>2. excuses' = excuses /\ lost' = lost
    BY <1>6 DEF ghosts
  <2>3. ServiceBack'
    BY <2>1 DEF ServiceBack
  <2>4. Len(ServiceEnd'.hops) # 1
    BY <2>1
  <2>5. "keys late" \notin excuses' => ~lost'
    BY <1>1, <2>2 DEF Timely
  <2>. QED
    BY <2>3, <2>4, <2>5 DEF Timely
<1>34. Control'
  <2>1. fetching' = "build" /\ rendezvousing' = "idle" /\ meeting' = NoKey /\ intro' = NoKey /\ cookie' = "none" /\ bridged' = bridged
    BY <1>4, <1>6 DEF ends, tables
  <2>2. NoKey' = NoKey /\ ~(Read' > PathLen)
    BY <1>5, <1>19 DEF NoKey
  <2>3. Len(ServiceEnd'.hops) = 0 /\ ServiceEnd'.pending = NoKey /\ ServiceEnd'.e2e = <<>>
    BY <1>1, <1>4, <1>13 DEF Control
  <2>4. bridged' = (cookie' = "used")
    BY <1>1, <1>4, <2>1 DEF Control
  <2>. QED
    BY <1>13, <2>1, <2>2, <2>3, <2>4 DEF Control
<1>35. Contents'
  <2>1. Len(ServiceEnd'.hops) = 0
    BY <1>4, <1>13
  <2>2. Len(ServiceEnd'.hops) # 1
    BY <2>1
  <2>3. ServiceEnd'.e2e = <<>>
    BY <1>4, <1>13
  <2>4. ClientLayers'[1].fd = <<fk>> /\ Len(<<fk>>) = 1
    BY <1>12, <1>18, OneIs
  <2>5. \A q : q \notin 2..1
    OBVIOUS
  <2>6. ASSUME NEW i \in 1..Known', NEW q \in 2..Len(ClientLayers'[i].fd) PROVE ExtendSaid(i, ClientLayers[i].fd[q])'
    <3>1. i = 1
      BY <1>22
    <3>. QED
      BY <2>4, <2>5, <3>1
  <2>7. ASSUME NEW i \in 1..Known' PROVE EstablishSaid(ClientLayers[i].fd)'
    <3>1. i = 1
      BY <1>22
    <3>2. PICK s : s = ClientLayers'[i].fd
      OBVIOUS
    <3>3. \A q : q \notin 2..Len(s)
      BY <2>4, <2>5, <3>1, <3>2
    <3>. QED
      BY <3>2, <3>3 DEF EstablishSaid
  <2>8. (\A i \in 1..Known : /\ \A q \in 2..Len(ClientLayers[i].fd) : ExtendSaid(i, ClientLayers[i].fd[q])
                             /\ EstablishSaid(ClientLayers[i].fd))'
    BY ONLY <2>6, <2>7, Zenon
  <2>. QED
    BY <1>13, <2>2, <2>3, <2>8 DEF Contents
<1>36. Building'
  <2>1. /\ \A e \in OriginEnd : Begun(e)
        /\ \A i \in 1..PathLen : i > Known + 1 => Quiet(LegTo(i))
    BY <1>1 DEF Building
  <2>2. Begun("client")'
    <3>1. Len(origin'["client"].hops) # 0
      BY <1>13 DEF Known, ClientEnd
    <3>. QED
      BY <3>1, BegunIsNext
  <2>3. Begun("service")'
    <3>1. StageSame(<<"service", 1>>)
      BY <1>5, <1>6 DEF Meet
    <3>2. Begun("service") /\ origin'["service"] = origin["service"]
      BY <1>13, <2>1 DEF ServiceEnd, OriginEnd
    <3>. QED
      BY <3>1, <3>2, BegunKept
  <2>4. LastRelay' = relays[leg] /\ Idle(LastRelay)'
    <3>1. LastRelay' = relays[leg]
      BY <1>3, <1>13, <1>16 DEF LastRelay, LegTo
    <3>. QED
      BY <1>14, <3>1 DEF Idle
  <2>5. \A i \in 1..PathLen : i > 1 => Quiet(LegTo(i))'
    <3>1. ASSUME NEW i \in 1..PathLen, i > 1 PROVE Quiet(LegTo(i))'
      <4>1. PICK l : l = LegTo(i)
        OBVIOUS
      <4>2. l \in Leg /\ l # leg /\ Quiet(l)
        BY <1>3, <1>4, <2>1, <3>1, <4>1, LegIs, LegApart
      <4>3. Quiet(l)'
        BY <1>6, <4>2, StageKept
      <4>. QED
        BY <4>1, <4>3 DEF Quiet, Absent, LegTo
    <3>. QED
      BY <3>1
  <2>6. Extending'
    <3>1. SUFFICES ASSUME 1 \in 1..(PathLen - 1) PROVE Quiet(LegTo(Known + 1))' /\ Idle(LastRelay)'
      BY <1>13 DEF Extending, NoKey
    <3>2. Quiet(LegTo(2))'
      BY <1>5, <2>5, <3>1
    <3>. QED
      BY <1>13, <2>4, <3>2 DEF Quiet, Absent, LegTo
  <2>7. \A i : i \notin 1..(1 - 1)
    OBVIOUS
  <2>8. Len(ServiceEnd'.hops) = 0
    BY <1>4, <1>13
  <2>. QED
    BY <1>13, <2>2, <2>3, <2>4, <2>5, <2>6, <2>7, <2>8 DEF Building, OriginEnd, NoKey
<1>. QED
  BY <1>10, <1>20, <1>21, <1>25, <1>30, <1>31, <1>32, <1>33, <1>34, <1>35, <1>36 DEF Good

\* What the client has said, through the layers it has.
ClientSaid ==
  /\ \A i \in 1..Known : /\ \A q \in 2..Len(ClientLayers[i].fd) : ExtendSaid(i, ClientLayers[i].fd[q])
                         /\ EstablishSaid(ClientLayers[i].fd)
  /\ ClientEnd.e2e # <<>> => ClientEnd.e2e[1].fd[1] = C2H

LEMMA ClientSaidStays ==
  ASSUME Contents, SameClient, fetching' = fetching
  PROVE  ClientSaid'
<1>1. Known' = Known /\ ClientEnd' = ClientEnd /\ ClientLayers' = ClientLayers
  BY DEF SameClient
<1>2. \A i, m2 : ExtendSaid(i, m2) => ExtendSaid(i, m2)'
  BY <1>1 DEF ExtendSaid, LegTo, NoKey, LinkSpecs
<1>3. \A s : EstablishSaid(s) => EstablishSaid(s)'
  BY DEF EstablishSaid
<1>4. ASSUME NEW i \in 1..Known', NEW q \in 2..Len(ClientLayers'[i].fd) PROVE ExtendSaid(i, ClientLayers[i].fd[q])'
  BY <1>1, <1>2 DEF Contents
<1>5. ASSUME NEW i \in 1..Known' PROVE EstablishSaid(ClientLayers[i].fd)'
  BY <1>1, <1>3 DEF Contents
<1>6. (\A i \in 1..Known : /\ \A q \in 2..Len(ClientLayers[i].fd) : ExtendSaid(i, ClientLayers[i].fd[q])
                           /\ EstablishSaid(ClientLayers[i].fd))'
  BY ONLY <1>4, <1>5, Zenon
<1>7. (ClientEnd.e2e # <<>> => ClientEnd.e2e[1].fd[1] = C2H)'
  BY <1>1 DEF Contents, C2H, Meeting, ServiceKey
<1>. QED
  BY <1>6, <1>7 DEF ClientSaid

LEMMA ServiceMoves ==
  ASSUME Good, SameClient, RelaysSame, UNCHANGED <<tables, held>>,
         \A l \in Leg : l # Meet => forward'[l] = forward[l] /\ backward'[l] = backward[l]
  PROVE  /\ ClientOut' /\ RelaysSaid' /\ Bridged' /\ SaidStill /\ BackHopsStill
         /\ (ChainBack' = ChainBack => ClientHears' /\ ClientBack')
<1>1. Shape /\ ClientOut /\ RelaysSaid /\ ClientHears /\ ClientBack /\ Bridged
  BY DEF Good
<1>2. ClientIs /\ ClientChain /\ BackIs
  BY GoodFacts DEF Facts
<1>3. Steps({}) /\ StagesStay /\ (\A i : RelayHop(i)' = RelayHop(i)) /\ MeetHop' = MeetHop
  BY DEF RelaysSame
<1>4. /\ Known' = Known /\ cookie' = cookie
      /\ \A i \in 1..Known : LegTo(i) \in Leg /\ LegTo(i) # Meet /\ i \in Int
  <2>1. \A i \in 1..Known : LegTo(i) \in Leg /\ i \in Int
    BY <1>1, KnownIs
  <2>. QED
    BY <2>1, LegApart DEF SameClient, tables
<1>5. ClientOut'
  <2>1. OutHopsStill
    BY <1>3, <1>4 DEF OutHopsStill
  <2>. QED
    BY <1>1, <1>2, <2>1, ClientOutStays
<1>6. SaidStill /\ BackHopsStill
  BY <1>3, <1>4 DEF SaidStill, BackHopsStill
<1>7. RelaysSaid'
  BY <1>1, <1>2, <1>3, <1>4, <1>6, RelaysSaidStays
<1>8. ASSUME ChainBack' = ChainBack PROVE ClientHears'
  BY <1>1, <1>8, ClientHearsStays DEF SameClient
<1>9. ASSUME ChainBack' = ChainBack PROVE ClientBack'
  BY <1>1, <1>2, <1>6, <1>9, ClientBackStays DEF SameClient
<1>10. Bridged'
  <2>1. DOMAIN relays' = DOMAIN relays
    BY <1>3 DEF Steps
  <2>. QED
    BY <1>1, <1>3, <2>1, BridgedStays
<1>. QED
  BY <1>5, <1>6, <1>7, <1>8, <1>9, <1>10

LEMMA CreatedService ==
  ASSUME Good, HandleCreated("service")
  PROVE  /\ Len(ServiceEnd.hops) = 0 /\ ServiceEnd.pending = Meet /\ Answered(Meet) /\ rendezvousing = "build"
         /\ fetching = "introduced" /\ Known = PathLen /\ ServiceEnd.e2e = <<>> /\ cookie # "used" /\ ~bridged
<1>1. Shape /\ Building /\ Control /\ Places
  BY GoodFacts DEF Good, Facts
<1>2. <<"service", 1>> = Meet
  BY DEF Meet
<1>3. CellArrives(backward, Meet, "created")
  BY <1>2 DEF HandleCreated
<1>4. Len(ServiceEnd.hops) = 0
  BY <1>1, <1>3 DEF Places
<1>5. Begun("service") /\ backward[Meet] # <<>> /\ Len(origin["service"].hops) = 0
  BY <1>1, <1>3, <1>4 DEF Building, OriginEnd, CellArrives, ServiceEnd
<1>6. ServiceEnd.pending = Meet /\ Answered(Meet) /\ ServiceEnd.pending # NoKey
  BY <1>2, <1>5, BegunIs DEF Quiet, Absent, AskedFor, ServiceEnd
<1>7. rendezvousing = "build"
  BY <1>1, <1>4, <1>6 DEF Control
<1>8. fetching = "introduced"
  BY <1>1, <1>7 DEF Control
<1>9. Known = PathLen
  BY <1>1, <1>8 DEF Control
<1>10. ServiceEnd.e2e = <<>>
  BY <1>1, <1>7 DEF Control
<1>11. cookie # "used"
  BY <1>1, <1>4 DEF Control
<1>12. ~bridged
  BY <1>1, <1>11 DEF Control
<1>. QED
  BY <1>4, <1>6, <1>7, <1>8, <1>9, <1>10, <1>11, <1>12

LEMMA HandleCreatedServiceGood ==
  ASSUME Good, HandleCreated("service")
  PROVE  Good'
<1>1. /\ Shape /\ Building /\ ClientOut /\ ServiceWayOut /\ RelaysSaid /\ ClientHears /\ ClientBack
      /\ Bridged /\ ServiceBack /\ Control /\ Contents /\ Timely
  BY DEF Good
<1>2. ClientIs /\ ServiceIs /\ ClientChain /\ BackIs /\ MeetBackIs
  BY GoodFacts DEF Facts
<1>3. PICK leg : leg = Meet
  OBVIOUS
<1>4. /\ Len(ServiceEnd.hops) = 0 /\ ServiceEnd.pending = leg /\ Answered(leg) /\ rendezvousing = "build"
      /\ fetching = "introduced" /\ Known = PathLen /\ ServiceEnd.e2e = <<>> /\ cookie # "used" /\ ~bridged
  BY <1>3, CreatedService
<1>5. PathLen \in Nat /\ PathLen >= 1 /\ leg \in Leg /\ "service" \in OriginEnd /\ leg = <<"service", 1>>
  BY <1>3, LegIs DEF OriginEnd, Meet
<1>6. /\ Tables' /\ backward'[leg] = <<>> /\ forward[leg] = <<>> /\ (\A l \in Leg : l # leg => StageSame(l))
      /\ UNCHANGED <<relays, forward, held, tables, ends, ghosts>> /\ Fresh(leg)
  BY <1>1, <1>4, <1>5, FirstTaken
<1>7. PICK v : FirstMade("service", v)
  <2>1. Len(origin["service"].hops) = 0 /\ origin["service"].e2e = <<>> /\ origin["service"].pending = leg
    BY <1>4 DEF ServiceEnd
  <2>. QED
    BY <1>1, <1>4, <1>5, <2>1, FirstIs
<1>8. /\ origin' = [origin EXCEPT !["service"] = v] /\ FirstHop(v.hops, FK(leg), BK(leg)) /\ v.e2e = <<>> /\ v.pending = NoKey
      /\ EndFits("service", v) /\ Len(v.hops) = 1 /\ FirstHop(Layers(v), FK(leg), BK(leg))
  BY <1>5, <1>7 DEF FirstMade
<1>9. E2EFits(v, H2C, C2H)
  BY <1>8, EmptyIs DEF E2EFits
<1>10. Shape' /\ ServiceEnd' = v /\ SameClient /\ RelaysSame
  BY <1>1, <1>6, <1>8, <1>9, ServiceChanges
<1>11. PICK ms, fk, bk : ms = Layers(v) /\ fk = FK(leg) /\ bk = BK(leg)
  OBVIOUS
<1>12. FirstHop(ms, fk, bk) /\ ServiceLayers' = ms
  BY <1>8, <1>10, <1>11 DEF ServiceLayers
<1>13. /\ Len(ServiceEnd'.hops) = 1 /\ ServiceEnd'.e2e = <<>> /\ ServiceEnd'.pending = NoKey /\ ClientEnd' = ClientEnd
       /\ Known' = Known /\ Read' = Read
  BY <1>8, <1>10 DEF SameClient
<1>14. /\ leg \in DOMAIN relays /\ relays[leg].next = FALSE /\ relays[leg].awaiting = FALSE
       /\ relays[leg].hop.fn = 0 /\ relays[leg].hop.bn = 0 /\ relays[leg].hop.fd = <<fk>> /\ relays[leg].hop.bd = <<bk>>
  BY <1>6, <1>11, FreshIs
<1>15. /\ MeetHop' = relays[leg].hop /\ \A l \in Leg : l # Meet => forward'[l] = forward[l] /\ backward'[l] = backward[l]
  <2>1. MeetHop' = relays[leg].hop
    BY <1>3, <1>6 DEF MeetHop, Meet
  <2>. QED
    BY <1>3, <1>6, <2>1 DEF StageSame
<1>16. ClientOut' /\ RelaysSaid' /\ Bridged' /\ (ChainBack' = ChainBack => ClientHears' /\ ClientBack')
  BY <1>6, <1>10, <1>15, ServiceMoves
<1>17. ChainBack' = ChainBack
  BY <1>4, <1>10, <1>13 DEF ChainBack, BK, LegTo, H2C, Meeting, ServiceKey, RelaysSame
<1>18. LayersOK(ms) /\ ms[1].bn = 0 /\ ServiceWayOut' /\ ms[1].fd = <<fk>>
  <2>1. PICK R, Q : R = <<MeetHop'>> /\ Q = <<forward'[Meet]>>
    OBVIOUS
  <2>2. R[1].fn = 0 /\ R[1].fd = <<fk>> /\ Q[1] = <<>>
    BY <1>3, <1>6, <1>14, <1>15, <2>1
  <2>3. LayersOK(ms) /\ OutLine(Chain(ms), 1, ms[1].fn, <<>>, <<>>, R, Q)
    BY <1>12, <2>2, LineFirst
  <2>4. OutLine(ServiceOut', 1, ServiceLayers'[1].fn, <<>>, <<>>, <<MeetHop'>>, <<forward'[Meet]>>)
    BY <1>12, <2>1, <2>3 DEF ServiceOut
  <2>5. LayersOK(ServiceLayers')
    BY <1>12, <2>3
  <2>6. ServiceWayOut'
    BY <2>4, <2>5 DEF ServiceWayOut, Meet
  <2>7. PICK h : h = HopState(fk, bk)
    OBVIOUS
  <2>8. h.bn = 0 /\ h.fd = <<fk>>
    BY <2>7, HopStateIs
  <2>9. ms = <<h>> /\ <<h>>[1] = h
    BY <1>12, <2>7, OneIs DEF FirstHop
  <2>. QED
    BY <2>3, <2>6, <2>8, <2>9
<1>19. ServiceBack'
  <2>1. PICK G, R, Q : G = MeetBack /\ R = <<MeetHop'>> /\ Q = <<backward'[Meet]>>
    OBVIOUS
  <2>2. R[1].bn = 0 /\ Q[1] = <<>>
    BY <1>3, <1>6, <1>14, <1>15, <2>1
  <2>3. ChainOK(G) /\ Len(G) >= 1 /\ G[1].o = 0
    BY <1>2, <2>1 DEF MeetBackIs
  <2>4. BackLine(G, 1, 0, <<>>, <<>>, R, Q)
    BY <2>2, <2>3, BackLineFirst
  <2>5. MeetBack' = G /\ ServiceLayers'[1].bn = 0
    BY <1>10, <1>12, <1>18, <2>1 DEF SameClient
  <2>6. BackLine(MeetBack', 1, ServiceLayers'[1].bn, <<>>, <<>>, <<MeetHop'>>, <<backward'[Meet]>>)
    BY <2>1, <2>4, <2>5
  <2>. QED
    BY <2>6 DEF ServiceBack, Meet
<1>20. Timely'
  <2>1. excuses' = excuses /\ lost' = lost
    BY <1>6 DEF ghosts
  <2>2. ServiceLayers'[1].bn = 0 /\ ServiceEnd'.e2e = <<>>
    BY <1>12, <1>13, <1>18
  <2>3. "keys late" \notin excuses' => ~lost'
    BY <1>1, <2>1 DEF Timely
  <2>. QED
    BY <2>2, <2>3 DEF Timely
<1>21. Control'
  <2>1. PointEstablished' <=> PointEstablished
    BY <1>10 DEF PointEstablished, RelaysSame
  <2>2. NoKey' = NoKey /\ Meeting' = Meeting
    BY DEF NoKey, Meeting
  <2>3. UNCHANGED <<fetching, meeting, intro, rendezvousing, cookie, bridged>>
    BY <1>6 DEF ends, tables
  <2>. QED
    BY <1>1, <1>4, <1>13, <2>1, <2>2, <2>3 DEF Control, PointEstablished
<1>22. Contents'
  <2>1. ClientSaid'
    BY <1>1, <1>6, <1>10, ClientSaidStays DEF ends
  <2>2. ServiceEnd'.hops = ms
    <3>1. v.hops = <<HopState(fk, bk)>> /\ ms = <<HopState(fk, bk)>>
      BY <1>8, <1>11, <1>12 DEF FirstHop
    <3>. QED
      BY <1>10, <3>1
  <2>3. ServiceEnd'.hops[1].fd = <<FK(leg)>>
    BY <1>11, <1>18, <2>2
  <2>4. (<<FK(Meet)>>)' = <<FK(leg)>>
    BY <1>3 DEF FK, Meet
  <2>5. rendezvousing' = "build"
    BY <1>4, <1>6 DEF ends
  <2>6. ServiceEnd'.e2e = <<>>
    BY <1>13
  <2>7. (Len(ServiceEnd.hops) = 1 =>
           ServiceEnd.hops[1].fd = IF rendezvousing \in {"sent", "installed"} THEN <<FK(Meet), Rendezvous1>> ELSE <<FK(Meet)>>)'
    BY <2>3, <2>4, <2>5
  <2>. QED
    BY <2>1, <2>6, <2>7 DEF Contents, ClientSaid
<1>23. Building'
  <2>1. /\ \A e \in OriginEnd : Begun(e)
        /\ \A i \in 1..(Known - 1) : Joined(relays[LegTo(i)])
        /\ Known = PathLen => ClientEnd.pending = NoKey /\ Idle(LastRelay)
    BY <1>1 DEF Building
  <2>2. Begun("service")'
    <3>1. Len(origin'["service"].hops) # 0
      BY <1>13 DEF ServiceEnd
    <3>. QED
      BY <3>1, BegunIsNext
  <2>3. Begun("client")'
    <3>1. StageSame(<<"client", 1>>)
      <4>1. LegTo(1) \in Leg /\ LegTo(1) # leg
        BY <1>3, <1>5, LegIs, LegApart
      <4>. QED
        BY <1>6, <4>1 DEF LegTo
    <3>2. Begun("client") /\ origin'["client"] = origin["client"]
      BY <1>13, <2>1 DEF ClientEnd, OriginEnd
    <3>. QED
      BY <3>1, <3>2, BegunKept
  <2>4. Extending'
    <3>1. Known' \notin 1..(PathLen - 1)
      BY <1>4, <1>5, <1>13
    <3>. QED
      BY <3>1 DEF Extending
  <2>5. (\A i \in 1..(Known - 1) : Joined(relays[LegTo(i)]))'
    BY <1>6, <1>13, <2>1 DEF Joined, LegTo
  <2>6. (Known = PathLen => ClientEnd.pending = NoKey /\ Idle(LastRelay))'
    BY <1>6, <1>13, <2>1 DEF Idle, LastRelay, LegTo, NoKey
  <2>7. (\A i \in 1..PathLen : i > Known + 1 => Quiet(LegTo(i)))'
    BY <1>4, <1>5, <1>13
  <2>8. (Len(ServiceEnd.hops) = 1 => ServiceEnd.pending = NoKey /\ Idle(relays[Meet]))'
    BY <1>3, <1>6, <1>13, <1>14 DEF Idle, Meet, NoKey
  <2>9. (\A e \in OriginEnd : Begun(e))'
    BY <2>2, <2>3 DEF OriginEnd
  <2>. QED
    BY <2>4, <2>5, <2>6, <2>7, <2>8, <2>9 DEF Building
<1>. QED
  BY <1>10, <1>16, <1>17, <1>18, <1>19, <1>20, <1>21, <1>22, <1>23 DEF Good

KeysKept(ls, ms) == \A i \in 1..Len(ls) : ms[i].fk = ls[i].fk /\ ms[i].bk = ls[i].bk

\* An origin with the hops it had, their counters and digests moved on.
LEMMA FitsAfter ==
  ASSUME NEW e, NEW oc, NEW k, NEW ck, NEW sk, EndLayers(oc, e, k, ck, sk), NEW v, SameShape(oc, v),
         KeysKept(Layers(oc), Layers(v))
  PROVE  EndFits(e, v) /\ E2EFits(v, ck, sk) /\ Len(v.hops) = k /\ (v.e2e # <<>> <=> oc.e2e # <<>>) /\ v.pending = oc.pending
<1>1. OriginOK(oc) /\ Len(Layers(oc)) = k + Len(oc.e2e) /\ k \in Nat /\ Len(oc.e2e) \in 0..1 /\ Len(oc.hops) = k
  BY DEF EndLayers
<1>2. Len(v.hops) = k /\ Len(v.e2e) = Len(oc.e2e) /\ OriginOK(v)
  BY <1>1 DEF SameShape
<1>3. v.e2e # <<>> <=> oc.e2e # <<>>
  <2>1. IsSeq(v.e2e) /\ IsSeq(oc.e2e)
    BY <1>1, <1>2 DEF OriginOK
  <2>2. (v.e2e = <<>> <=> Len(v.e2e) = 0) /\ (oc.e2e = <<>> <=> Len(oc.e2e) = 0)
    BY ONLY <2>1, EmptyLen
  <2>. QED
    BY <1>2, <2>2
<1>4. ASSUME NEW i \in 1..Len(v.hops)
      PROVE  v.hops[i].fk = FK(<<e, i>>) /\ v.hops[i].bk = BK(<<e, i>>) /\ <<e, i>> \in DOMAIN relays
  <2>1. i \in 1..k /\ i \in 1..Len(oc.hops) /\ i \in 1..Len(Layers(oc))
    BY <1>1, <1>2
  <2>2. v.hops[i] = Layers(v)[i]
    BY <2>1 DEF SameShape
  <2>3. Layers(v)[i].fk = Layers(oc)[i].fk /\ Layers(v)[i].bk = Layers(oc)[i].bk
    BY <2>1 DEF KeysKept
  <2>. QED
    BY <2>1, <2>2, <2>3 DEF EndLayers
<1>5. ASSUME NEW i \in 1..Len(v.e2e) PROVE v.e2e[i].fk = ck /\ v.e2e[i].bk = sk
  <2>1. i = 1 /\ i \in 1..Len(oc.e2e) /\ oc.e2e # <<>> /\ k + 1 \in 1..Len(Layers(oc))
    <3>1. i = 1 /\ Len(oc.e2e) = 1
      <4>1. PICK n : n = Len(oc.e2e)
        OBVIOUS
      <4>2. n \in 0..1 /\ i \in 1..n
        BY <1>1, <1>2, <4>1
      <4>3. i = 1 /\ n = 1
        BY ONLY <4>2
      <4>. QED
        BY <4>1, <4>3
    <3>. QED
      BY <1>1, <3>1 DEF EndLayers
  <2>2. v.e2e[i] = Layers(v)[k + 1]
    BY <1>1, <2>1 DEF SameShape
  <2>3. Layers(v)[k + 1].fk = Layers(oc)[k + 1].fk /\ Layers(v)[k + 1].bk = Layers(oc)[k + 1].bk
    BY <2>1 DEF KeysKept
  <2>. QED
    BY <2>1, <2>2, <2>3 DEF EndLayers
<1>6. EndFits(e, v)
  <2>1. k <= Hops(e) /\ (oc.e2e # <<>> => k = Hops(e)) /\ Len(v.e2e) <= 1
    <3>1. k <= Hops(e) /\ (oc.e2e # <<>> => k = Hops(e))
      BY DEF EndLayers
    <3>2. PICK n : n = Len(v.e2e)
      OBVIOUS
    <3>3. n \in 0..1
      BY <1>1, <1>2, <3>2
    <3>4. n <= 1
      BY ONLY <3>3
    <3>. QED
      BY <3>1, <3>2, <3>4
  <2>. QED
    BY <1>2, <1>3, <1>4, <2>1 DEF EndFits
<1>7. v.pending = oc.pending
  BY DEF SameShape
<1>. QED
  BY <1>2, <1>3, <1>5, <1>6, <1>7 DEF E2EFits

LEMMA SealKeepsKeys ==
  ASSUME NEW ls, NEW ms, NEW cell, SealedFrom(ls, ms, cell)
  PROVE  KeysKept(ls, ms)
<1>1. SealedFields(ls, ms, cell)
  BY SealFields
<1>. QED
  BY <1>1 DEF SealedFields, KeysKept

LEMMA ServiceSendsOut ==
  ASSUME NEW ls, LayersOK(ls), KeysApart(ls), Len(ls) >= 1, NEW ms, NEW cell, SealedFrom(ls, ms, cell),
         OutLine(Chain(ls), 1, ls[1].fn, <<>>, <<>>, <<MeetHop>>, <<forward[Meet]>>),
         NEW c, CellOK(Chain(ms), c, 1, ls[1].fn), forward'[Meet] = Append(forward[Meet], c), MeetHop' = MeetHop,
         ServiceLayers' = ms
  PROVE  ServiceWayOut'
<1>1. PICK R, Q, Q2 : R = <<MeetHop>> /\ Q = <<forward[Meet]>> /\ Q2 = <<forward'[Meet]>>
  OBVIOUS
<1>2. Q2[1] = Append(Q[1], c)
  BY <1>1
<1>3. \A i \in 2..1 : Q2[i] = Q[i]
  OBVIOUS
<1>4. OutLine(Chain(ls), 1, ls[1].fn, <<>>, <<>>, R, Q)
  BY <1>1
<1>5. 1 \in Nat /\ 1 >= 1 /\ 1 <= Len(ls)
  BY LayersNat
<1>6. OutLine(Chain(ms), 1, ms[1].fn, <<>>, <<>>, R, Q2)
  BY <1>2, <1>3, <1>4, <1>5, LineSend
<1>7. LayersOK(ms)
  BY SealLayers
<1>8. OutLine(ServiceOut', 1, ServiceLayers'[1].fn, <<>>, <<>>, <<MeetHop'>>, <<forward'[Meet]>>)
  BY <1>1, <1>6 DEF ServiceOut
<1>9. LayersOK(ServiceLayers')
  BY <1>7
<1>. QED
  BY <1>8, <1>9 DEF ServiceWayOut, Meet

LEMMA ServiceBuilding ==
  ASSUME Good, Len(ServiceEnd.hops) = 1, CircuitsStay, RelaysSame,
         \A l \in Leg : l # Meet => forward'[l] = forward[l] /\ backward'[l] = backward[l]
  PROVE  Building'
<1>1. PICK Z : Z = {Meet}
  OBVIOUS
<1>2. Shape /\ Building
  BY DEF Good
<1>3. Steps(Z) /\ StagesStay
  BY DEF RelaysSame, Steps
<1>4. TouchOnly(Z)
  BY <1>1 DEF TouchOnly
<1>5. Near(Z)
  BY <1>1, LegApart DEF Near
<1>. QED
  BY <1>2, <1>3, <1>4, <1>5, BuildingStays

LEMMA SendRendezvous1Good ==
  ASSUME Good, SendRendezvous1
  PROVE  Good'
<1>1. /\ Shape /\ Building /\ ClientOut /\ ServiceWayOut /\ RelaysSaid /\ ClientHears /\ ClientBack
      /\ Bridged /\ ServiceBack /\ Control /\ Contents /\ Timely
  BY DEF Good
<1>2. ClientIs /\ ServiceIs /\ ServiceChain /\ BackIs /\ MeetBackIs
  BY GoodFacts DEF Facts
<1>3. PICK oc, cell, c, v : /\ oc = origin["service"] /\ cell = <<"rendezvous1", ServiceKey, Auth(intro, ServiceKey)>>
                            /\ c = Outbound(oc, cell) /\ v = AfterOutbound(oc, cell)
  OBVIOUS
<1>4. /\ rendezvousing = "build" /\ oc.hops # <<>> /\ rendezvousing' = "sent"
      /\ forward' = On(forward, Meet, c) /\ origin' = [origin EXCEPT !["service"] = v]
      /\ UNCHANGED <<relays, backward, held, tables, fetching, meeting, intro, ghosts>>
  BY <1>3 DEF SendRendezvous1, ServiceSends
<1>5. /\ fetching = "introduced" /\ intro = Meeting /\ ServiceEnd.e2e = <<>> /\ oc = ServiceEnd /\ Known = PathLen
      /\ Len(oc.hops) = 1
  <2>1. fetching = "introduced"
    BY <1>1, <1>4 DEF Control
  <2>2. intro = Meeting
    BY <1>1, <2>1 DEF Control
  <2>3. ServiceEnd.e2e = <<>>
    BY <1>1, <1>4 DEF Control
  <2>4. Known = PathLen
    BY <1>1, <2>1 DEF Control
  <2>5. oc = ServiceEnd
    BY <1>3 DEF ServiceEnd
  <2>6. Len(oc.hops) \in 0..1 /\ (oc.hops = <<>> <=> Len(oc.hops) = 0)
    BY <1>1, <1>2, <2>5, KnownIs DEF ServiceIs, EndLayers
  <2>7. Len(oc.hops) = 1
    <3>1. PICK n : n = Len(oc.hops)
      OBVIOUS
    <3>2. n \in 0..1 /\ n # 0
      BY <1>4, <2>6, <3>1
    <3>. QED
      BY <3>1, <3>2
  <2>. QED
    BY <2>1, <2>2, <2>3, <2>4, <2>5, <2>7
<1>6. cell = Rendezvous1
  BY <1>3, <1>5 DEF Rendezvous1
<1>7. EndLayers(oc, "service", 1, H2C, C2H) /\ OriginOK(oc) /\ LayersOK(Layers(oc)) /\ KeysApart(Layers(oc)) /\ Len(Layers(oc)) = 1
      /\ ServiceLayers = Layers(oc)
  <2>1. ServiceLayers = Layers(oc)
    BY <1>5 DEF ServiceLayers
  <2>2. EndLayers(oc, "service", 1, H2C, C2H)
    BY <1>2, <1>5 DEF ServiceIs
  <2>3. LayersOK(Layers(oc))
    BY <1>1, <2>1 DEF ServiceWayOut
  <2>4. Len(Layers(oc)) = 1
    BY <1>5, <2>2, EmptyIs DEF EndLayers
  <2>. QED
    BY <2>1, <2>2, <2>3, <2>4 DEF EndLayers
<1>8. SameShape(oc, v) /\ SealedFrom(Layers(oc), Layers(v), cell) /\ CellOK(Chain(Layers(v)), c, 1, Layers(oc)[1].fn)
  BY <1>3, <1>7, OutboundIs
<1>9. EndFits("service", v) /\ E2EFits(v, H2C, C2H) /\ Len(v.hops) = 1 /\ (v.e2e # <<>> <=> oc.e2e # <<>>) /\ v.pending = oc.pending
  <2>1. PICK e, k, ck, sk : e = "service" /\ k = 1 /\ ck = H2C /\ sk = C2H
    OBVIOUS
  <2>2. EndLayers(oc, e, k, ck, sk)
    BY <1>7, <2>1
  <2>3. KeysKept(Layers(oc), Layers(v))
    BY <1>8, SealKeepsKeys
  <2>4. EndFits(e, v) /\ E2EFits(v, ck, sk) /\ Len(v.hops) = k /\ (v.e2e # <<>> <=> oc.e2e # <<>>) /\ v.pending = oc.pending
    BY ONLY <1>8, <2>2, <2>3, FitsAfter
  <2>. QED
    BY <2>1, <2>4
<1>10. Meet \in Leg /\ Gains(forward, forward', Meet, c)
  <2>1. Meet \in Leg /\ forward = [l \in Leg |-> forward[l]]
    BY <1>1, LegIs DEF Shape
  <2>. QED
    BY <1>4, <2>1, OnIs
<1>11. Tables'
  <2>1. forward' = [l \in Leg |-> forward'[l]]
    BY <1>10 DEF Gains
  <2>. QED
    BY <1>1, <1>4, <2>1 DEF Tables, Shape, Leg, OnionTask, OriginEnd, Hops, FromClient, AtPoint
<1>12. Shape' /\ ServiceEnd' = v /\ SameClient /\ RelaysSame
  BY <1>1, <1>4, <1>9, <1>11, ServiceChanges
<1>13. \A l \in Leg : l # Meet => forward'[l] = forward[l] /\ backward'[l] = backward[l]
  BY <1>4, <1>10 DEF Gains
<1>14. ClientOut' /\ RelaysSaid' /\ Bridged' /\ (ChainBack' = ChainBack => ClientHears' /\ ClientBack')
  BY <1>4, <1>12, <1>13, ServiceMoves
<1>15. v.e2e = <<>> /\ ServiceEnd'.e2e = <<>> /\ Len(ServiceEnd'.hops) = 1 /\ ServiceEnd'.pending = ServiceEnd.pending
       /\ ServiceLayers' = Layers(v)
  BY <1>5, <1>9, <1>12 DEF ServiceLayers
<1>16. ChainBack' = ChainBack
  <2>1. Known' = Known
    BY <1>12 DEF SameClient
  <2>. QED
    BY <1>5, <1>12, <1>15, <2>1 DEF ChainBack, BK, LegTo, H2C, Meeting, ServiceKey, RelaysSame
<1>17. MeetHop' = MeetHop
  BY <1>12 DEF RelaysSame
<1>18. ServiceWayOut'
  <2>1. PICK ls, ms : ls = Layers(oc) /\ ms = Layers(v)
    OBVIOUS
  <2>2. /\ LayersOK(ls) /\ KeysApart(ls) /\ Len(ls) >= 1 /\ SealedFrom(ls, ms, cell) /\ CellOK(Chain(ms), c, 1, ls[1].fn)
        /\ ServiceLayers' = ms /\ forward'[Meet] = Append(forward[Meet], c)
    <3>1. LayersOK(ls) /\ KeysApart(ls) /\ Len(ls) = 1 /\ SealedFrom(ls, ms, cell) /\ CellOK(Chain(ms), c, 1, ls[1].fn)
      BY <1>7, <1>8, <2>1
    <3>2. ServiceLayers' = ms
      BY <1>15, <2>1
    <3>3. forward'[Meet] = Append(forward[Meet], c)
      BY <1>10 DEF Gains
    <3>4. Len(ls) >= 1
      BY <3>1
    <3>. QED
      BY <3>1, <3>2, <3>3, <3>4
  <2>3. OutLine(Chain(ls), 1, ls[1].fn, <<>>, <<>>, <<MeetHop>>, <<forward[Meet]>>)
    BY <1>1, <1>5, <1>7, <2>1 DEF ServiceWayOut, ServiceOut
  <2>. QED
    BY <1>17, <2>2, <2>3, ServiceSendsOut
<1>19. SealedFields(Layers(oc), Layers(v), cell)
  BY <1>8, SealFields
<1>20. /\ Layers(v)[1].bn = Layers(oc)[1].bn /\ Layers(v)[1].fd = Append(Layers(oc)[1].fd, cell)
       /\ v.hops[1] = Layers(v)[1] /\ oc.hops[1] = Layers(oc)[1]
  <2>1. 1 \in 1..Len(Layers(oc)) /\ 1 = Len(Layers(oc)) /\ 1 \in 1..Len(oc.hops)
    BY <1>5, <1>7
  <2>2. Layers(v)[1].bn = Layers(oc)[1].bn /\ Layers(v)[1].fd = Append(Layers(oc)[1].fd, cell)
    BY <1>19, <2>1 DEF SealedFields
  <2>3. v.hops[1] = Layers(v)[1]
    BY <1>8, <2>1 DEF SameShape
  <2>4. oc.hops[1] = Layers(oc)[1]
    BY <1>7, <2>1 DEF EndLayers
  <2>. QED
    BY <2>2, <2>3, <2>4
<1>21. ServiceLayers'[1].bn = ServiceLayers[1].bn
  BY <1>7, <1>15, <1>20
<1>22. ServiceBack'
  <2>1. MeetBackStill
    BY <1>4, <1>17 DEF MeetBackStill
  <2>2. (Len(ServiceEnd.hops))' = Len(ServiceEnd.hops) /\ MeetBack' = MeetBack
    BY <1>5, <1>12, <1>15 DEF SameClient
  <2>. QED
    BY <1>1, <1>2, <1>21, <2>1, <2>2, ServiceBackStays
<1>23. Timely'
  <2>1. excuses' = excuses /\ lost' = lost
    BY <1>4 DEF ghosts
  <2>2. "keys late" \notin excuses' => ServiceLayers[1].bn = 0
    BY <1>1, <1>5, <2>1 DEF Timely
  <2>3. "keys late" \notin excuses' => ~lost'
    BY <1>1, <2>1 DEF Timely
  <2>. QED
    BY <1>15, <1>21, <2>2, <2>3 DEF Timely
<1>24. Control'
  <2>1. PointEstablished' <=> PointEstablished
    BY <1>12 DEF PointEstablished, RelaysSame
  <2>2. NoKey' = NoKey /\ Meeting' = Meeting
    BY DEF NoKey, Meeting
  <2>3. UNCHANGED <<fetching, meeting, intro, cookie, bridged>> /\ rendezvousing' = "sent"
    BY <1>4 DEF tables
  <2>4. ClientEnd' = ClientEnd /\ Known' = Known /\ Read' = Read
    BY <1>12 DEF SameClient
  <2>. QED
    BY <1>1, <1>4, <1>5, <1>15, <1>17, <2>1, <2>2, <2>3, <2>4 DEF Control, PointEstablished
<1>25. Contents'
  <2>1. ClientSaid'
    BY <1>1, <1>4, <1>12, ClientSaidStays
  <2>2. ServiceEnd.hops[1].fd = <<FK(Meet)>>
    BY <1>1, <1>4, <1>5 DEF Contents
  <2>3. ServiceEnd'.hops[1].fd = Append(<<FK(Meet)>>, cell)
    BY <1>5, <1>12, <1>20, <2>2
  <2>4. ServiceEnd'.hops[1].fd = <<FK(Meet), Rendezvous1>>
    BY <1>6, <2>3, Append1
  <2>5. (<<FK(Meet), Rendezvous1>>)' = <<FK(Meet), Rendezvous1>>
    BY DEF FK, Meet, Rendezvous1, ServiceKey, Meeting, Auth
  <2>6. (Len(ServiceEnd.hops) = 1 =>
           ServiceEnd.hops[1].fd = IF rendezvousing \in {"sent", "installed"} THEN <<FK(Meet), Rendezvous1>> ELSE <<FK(Meet)>>)'
    BY <1>4, <2>4, <2>5
  <2>. QED
    BY <1>15, <2>1, <2>6 DEF Contents, ClientSaid
<1>26. Building'
  <2>1. CircuitsStay
    BY <1>5, <1>12, <1>15 DEF CircuitsStay, OriginEnd, SameClient, ClientEnd, ServiceEnd
  <2>2. Len(ServiceEnd.hops) = 1
    BY <1>5
  <2>. QED
    BY <1>12, <1>13, <2>1, <2>2, ServiceBuilding
<1>. QED
  BY <1>12, <1>14, <1>16, <1>18, <1>22, <1>23, <1>24, <1>25, <1>26 DEF Good

LEMMA MeetPassed ==
  ASSUME Good, Len(ServiceEnd.hops) = 1
  PROVE  MeetHop.fn \in Nat /\ ServiceLayers[1].fn \in Nat /\ MeetHop.fn <= ServiceLayers[1].fn
<1>1. ServiceChain /\ ServiceWayOut
  BY GoodFacts DEF Good, Facts
<1>2. PICK G, N, R, Q : G = ServiceOut /\ N = ServiceLayers[1].fn /\ R = <<MeetHop>> /\ Q = <<forward[Meet]>>
  OBVIOUS
<1>3. OutLine(G, 1, N, <<>>, <<>>, R, Q) /\ ChainOK(G) /\ N \in Nat /\ 1 <= Len(G) /\ G[1].o = 0 /\ R[1] = MeetHop
  BY <1>1, <1>2 DEF ServiceWayOut, ServiceChain, ChainIsFor, ServiceOut
<1>4. PICK x, top : x = <<>> /\ top = N - One(x) - One(x)
  OBVIOUS
<1>5. 1 \in Nat /\ 1 \in 0..1 /\ 1 \in 1..1
  OBVIOUS
<1>6. OutWay(G, 1, N, top, R, Q)
  BY <1>3, <1>4, <1>5, LineTop
<1>7. OutTurn(G, top, R, 1) <= N /\ OutTurn(G, top, R, 1) = R[1].fn + G[1].o /\ OutHop(G, N, top, R, Q, 1)
  BY <1>3, <1>5, <1>6, OutTurns
<1>8. R[1].fn \in Nat
  BY <1>7 DEF OutHop
<1>. QED
  BY <1>2, <1>3, <1>7, <1>8

LEMMA BackSoFar ==
  ASSUME Good, Known = PathLen, rendezvousing = "sent", ServiceEnd.e2e = <<>>, Len(ServiceEnd.hops) = 1, NEW k, k = Known
  PROVE  RelayHop(k).bn \in Nat /\ RelayHop(k).bn <= 2 /\ k \in Nat /\ k >= 1
<1>1. Shape /\ RelaysSaid /\ Contents /\ ServiceWayOut
  BY DEF Good
<1>2. ServiceIs
  BY GoodFacts DEF Facts
<1>3. k \in Nat /\ k >= 1 /\ k \in 1..Known /\ Known > 0
  BY <1>1, KnownIs
<1>4. RelayHop(k).bn \in Nat
  BY <1>3, BackAtLast
<1>5. RelayHop(Known).bn + 1 = (IF cookie = "used" THEN MeetHop.fn + 2 ELSE Len(RelayHop(Known).bd))
  BY <1>1, <1>3 DEF RelaysSaid
<1>6. CASE cookie # "used"
  <2>1. RelayHop(k).bd = SaidAt(k)
    BY <1>1, <1>3 DEF RelaysSaid
  <2>2. PICK n : n = Len(SaidAt(k))
    OBVIOUS
  <2>3. n \in 1..3
    BY <2>2, SaidIs
  <2>4. PICK bn : bn = RelayHop(k).bn
    OBVIOUS
  <2>5. bn + 1 = n /\ bn \in Nat
    BY <1>4, <1>5, <1>6, <2>1, <2>2, <2>4
  <2>6. bn <= 2
    BY ONLY <2>3, <2>5
  <2>. QED
    BY <1>3, <1>4, <2>4, <2>6
<1>7. CASE cookie = "used"
  <2>1. ServiceEnd.hops[1].fd = <<FK(Meet), Rendezvous1>>
    BY <1>1 DEF Contents
  <2>2. Len(ServiceLayers[1].fd) = 2 /\ Len(ServiceLayers) = 1 /\ LayersOK(ServiceLayers)
    <3>1. PICK u, w : u = FK(Meet) /\ w = Rendezvous1
      OBVIOUS
    <3>2. Len(<<u, w>>) = 2
      BY TwoIs
    <3>3. ServiceLayers[1] = ServiceEnd.hops[1] /\ Len(ServiceLayers) = 1
      <4>1. 1 \in 1..Len(ServiceEnd.hops) /\ Len(ServiceEnd.e2e) = 0
        BY EmptyIs
      <4>. QED
        BY <1>2, <4>1 DEF ServiceIs, EndLayers, ServiceLayers
    <3>. QED
      BY <1>1, <2>1, <3>1, <3>2, <3>3 DEF ServiceWayOut
  <2>3. PICK ls : ls = ServiceLayers
    OBVIOUS
  <2>4. Len(ls[1].fd) = (IF 1 < Len(ls) THEN ls[1].fn - ls[2].fn ELSE ls[1].fn) + 1 /\ ls[1].fn \in Nat
    <3>1. Len(ls) = 1 /\ LayersOK(ls)
      BY <2>2, <2>3
    <3>2. 1 \in 1..Len(ls)
      BY ONLY <3>1
    <3>. QED
      BY <3>1, <3>2 DEF LayersOK, IsHop
  <2>5. ls[1].fn = 1
    <3>1. PICK n, z, y : n = ls[1].fn /\ z = Len(ls[1].fd) /\ y = ls[2].fn
      OBVIOUS
    <3>2. Len(ls) = 1 /\ z = 2
      BY <2>2, <2>3, <3>1
    <3>3. ~(1 < Len(ls))
      BY ONLY <3>2
    <3>4. z = n + 1 /\ n \in Nat
      BY <2>4, <3>1, <3>3
    <3>5. n = 1
      BY ONLY <3>2, <3>4
    <3>. QED
      BY <3>1, <3>5
  <2>6. MeetHop.fn \in Nat /\ MeetHop.fn <= 1
    BY <2>3, <2>5, MeetPassed
  <2>7. RelayHop(k).bn + 1 = MeetHop.fn + 2
    BY <1>5, <1>7
  <2>. QED
    BY <1>3, <1>4, <2>6, <2>7
<1>. QED
  BY <1>6, <1>7

LEMMA KeysInstalled ==
  ASSUME Good, InstallKeys
  PROVE  /\ rendezvousing = "sent" /\ rendezvousing' = "installed" /\ fetching = "introduced" /\ intro = Meeting
         /\ Len(ServiceEnd.hops) = 1 /\ ServiceEnd.e2e = <<>> /\ Known = PathLen
         /\ UNCHANGED <<relays, forward, backward, held, tables, fetching, meeting, intro, ghosts>>
         /\ \E v : /\ origin' = [origin EXCEPT !["service"] = v] /\ v.hops = ServiceEnd.hops /\ v.pending = ServiceEnd.pending
                   /\ v.e2e = <<HopState(H2C, C2H)>> /\ EndFits("service", v) /\ E2EFits(v, H2C, C2H)
<1>1. Shape /\ Control
  BY DEF Good
<1>2. ServiceIs
  BY GoodFacts DEF Facts
<1>3. /\ rendezvousing = "sent" /\ rendezvousing' = "installed"
      /\ UNCHANGED <<relays, forward, backward, held, tables, fetching, meeting, intro, ghosts>>
  BY DEF InstallKeys
<1>4. fetching = "introduced"
  BY <1>1, <1>3 DEF Control
<1>5. intro = Meeting
  BY <1>1, <1>4 DEF Control
<1>6. Len(ServiceEnd.hops) = 1
  BY <1>1, <1>3 DEF Control
<1>7. ServiceEnd.e2e = <<>>
  BY <1>1, <1>3 DEF Control
<1>8. Known = PathLen
  BY <1>1, <1>4 DEF Control
<1>9. PICK oc, h, v : oc = origin["service"] /\ h = HopState(H2C, C2H) /\ v = [oc EXCEPT !.e2e = <<h>>]
  OBVIOUS
<1>10. from_e2e_keys(E2EKeys(intro, ServiceKey), FALSE) = h
  BY <1>5, <1>9 DEF from_e2e_keys, E2EKeys, H2C, C2H
<1>11. origin' = [origin EXCEPT !["service"] = v]
  BY <1>9, <1>10 DEF InstallKeys
<1>12. OriginOK(oc) /\ oc = ServiceEnd
  BY <1>2, <1>9 DEF ServiceIs, EndLayers, ServiceEnd
<1>13. oc = [hops |-> oc.hops, e2e |-> oc.e2e, pending |-> oc.pending] /\ IsSeq(oc.hops)
  BY <1>12 DEF OriginOK
<1>14. PICK e1 : e1 = <<h>>
  OBVIOUS
<1>15. v = [hops |-> oc.hops, e2e |-> e1, pending |-> oc.pending]
  BY <1>9, <1>13, <1>14
<1>16. v.hops = oc.hops /\ v.e2e = e1 /\ v.pending = oc.pending
  BY ONLY <1>15
<1>17. IsSeq(e1) /\ Len(e1) = 1 /\ e1[1] = h
  BY <1>14, OneIs
<1>18. OriginOK(v)
  BY <1>13, <1>15, <1>16, <1>17 DEF OriginOK
<1>19. h.fk = H2C /\ h.bk = C2H
  <2>1. PICK a, b : a = H2C /\ b = C2H
    OBVIOUS
  <2>2. h = HopState(a, b)
    BY <1>9, <2>1
  <2>. QED
    BY <2>1, <2>2, HopStateIs
<1>20. EndFits("service", v)
  <2>1. EndOK("service")
    BY <1>1 DEF Shape, OriginEnd
  <2>2. Hops("service") = 1
    BY DEF Hops
  <2>3. Len(v.hops) = 1
    BY <1>6, <1>12, <1>16
  <2>4. \A i \in 1..Len(v.hops) : v.hops[i].fk = FK(<<"service", i>>) /\ v.hops[i].bk = BK(<<"service", i>>) /\ <<"service", i>> \in DOMAIN relays
    BY <1>9, <1>16, <2>1 DEF EndOK
  <2>5. Len(v.hops) <= Hops("service") /\ Len(v.e2e) <= 1 /\ (v.e2e # <<>> => Len(v.hops) = Hops("service"))
    BY <1>16, <1>17, <2>2, <2>3
  <2>. QED
    BY <1>18, <2>4, <2>5 DEF EndFits
<1>21. E2EFits(v, H2C, C2H)
  <2>1. \A i \in 1..Len(v.e2e) : i = 1
    BY <1>16, <1>17
  <2>. QED
    BY <1>16, <1>17, <1>19, <2>1 DEF E2EFits
<1>. QED
  BY <1>3, <1>4, <1>5, <1>6, <1>7, <1>8, <1>9, <1>11, <1>12, <1>14, <1>16, <1>20, <1>21

\* The service's end is the last in the chain from then on, and has said nothing yet.
LEMMA ChainBackGrows ==
  ASSUME Good, Known = PathLen, rendezvousing = "sent", ServiceEnd.e2e = <<>>, Len(ServiceEnd.hops) = 1, SameClient, RelaysSame,
         BackIs', ServiceEnd'.e2e # <<>>, ServiceEnd'.e2e[1].fd = <<H2C>>, NEW b, b = BackTurn(ChainBack, Read, Relayed, Known)
  PROVE  ClientHears' /\ Grows(ChainBack, ChainBack', b) /\ ChainOK(ChainBack')
<1>1. Shape /\ ClientHears /\ ClientOut
  BY DEF Good
<1>2. ClientIs /\ ClientChain /\ BackIs
  BY GoodFacts DEF Facts
<1>3. PICK k : k = Known
  OBVIOUS
<1>4. k \in Nat /\ k >= 1 /\ k = PathLen /\ Known > 0
  BY <1>1, <1>3, KnownIs
<1>5. /\ b = RelayHop(k).bn + (k - 1) /\ RelayHop(k).bn \in Nat /\ b \in Nat /\ Read \in Nat /\ Read <= b
      /\ ChainOK(ChainBack) /\ k <= Len(ChainBack)
  BY <1>3, <1>4, BackAtLast
<1>6. RelayHop(k).bn <= 2
  BY <1>3, BackSoFar
<1>7. PICK G, H, n, a, u : G = ChainBack /\ H = ChainBack' /\ n = RelayHop(k).bn /\ a = Read /\ u = H2C
  OBVIOUS
<1>8. n \in Nat /\ n <= 2 /\ b = n + (k - 1) /\ a \in Nat /\ a <= b /\ b \in Nat
  BY <1>5, <1>6, <1>7
<1>9. b <= k + 1 /\ a <= k + 1
  BY ONLY <1>4, <1>8
<1>10. /\ Len(G) = k /\ ChainOK(G)
       /\ \A i \in 1..k : G[i].k = BK(LegTo(i)) /\ G[i].o = i - 1 /\ G[i].d = RelayHop(i).bd
  BY <1>2, <1>3, <1>5, <1>7 DEF BackIs
<1>11. Known' = k /\ ClientLayers' = ClientLayers /\ Read' = a /\ (\A i : RelayHop(i)' = RelayHop(i))
  BY <1>3, <1>7 DEF SameClient, RelaysSame
<1>12. /\ Len(H) = k + 1 /\ ChainOK(H)
       /\ \A i \in 1..k : H[i].k = BK(LegTo(i)) /\ H[i].o = i - 1 /\ H[i].d = RelayHop(i).bd
       /\ H[k + 1].k = u /\ H[k + 1].o = k + 1 /\ H[k + 1].d = <<u>>
  <2>1. /\ ChainOK(H) /\ Len(H) = PathLen + 1
        /\ \A i \in 1..Known' : H[i].k = BK(LegTo(i))' /\ H[i].o = i - 1 /\ H[i].d = RelayHop(i)'.bd
        /\ H[PathLen + 1].k = H2C' /\ H[PathLen + 1].o = PathLen + 1 /\ H[PathLen + 1].d = ServiceEnd'.e2e[1].fd
    BY <1>7 DEF BackIs
  <2>2. (\A i : BK(LegTo(i))' = BK(LegTo(i))) /\ H2C' = H2C
    BY DEF BK, LegTo, H2C, Meeting, ServiceKey
  <2>. QED
    BY <1>4, <1>7, <1>11, <2>1, <2>2
<1>13. Grows(G, H, b)
  <2>1. Len(G) <= Len(H) /\ b <= H[Len(G) + 1].o
    <3>1. PICK z : z = H[k + 1].o
      OBVIOUS
    <3>2. z = k + 1 /\ b <= z
      BY <1>9, <1>12, <3>1
    <3>3. H[Len(G) + 1].o = z
      BY <1>10, <3>1
    <3>4. Len(G) <= Len(H)
      BY <1>4, <1>10, <1>12
    <3>. QED
      BY <3>2, <3>3, <3>4
  <2>2. ASSUME NEW i \in 1..Len(G)
        PROVE  /\ H[i].k = G[i].k /\ H[i].o = G[i].o /\ Len(G[i].d) <= Len(H[i].d)
               /\ \A q \in 1..Len(G[i].d) : H[i].d[q] = G[i].d[q]
    <3>1. H[i].k = G[i].k /\ H[i].o = G[i].o /\ H[i].d = G[i].d
      BY <1>10, <1>12
    <3>2. Len(G[i].d) \in Nat
      BY <1>10, IsSeqShape DEF ChainOK
    <3>3. PICK z : z = Len(G[i].d)
      OBVIOUS
    <3>4. z <= z
      BY <3>2, <3>3
    <3>. QED
      BY <3>1, <3>3, <3>4
  <2>. QED
    BY <2>1, <2>2 DEF Grows
<1>14. PICK ls : ls = ClientLayers
  OBVIOUS
<1>15. ASSUME NEW i \in 1..Len(ls)
       PROVE  ls[i].bn \in Nat /\ ls[i].bn + Starts(i) = a /\ i \in Nat /\ i >= 1
              /\ (i <= k => Heard(G, i, ls[i].bn, ls[i].bd)) /\ (i > k => ls[i].bd = <<ls[i].bk>>)
  <2>1. ChainIsFor(ls, Known)
    BY <1>2, <1>4, <1>14 DEF ClientChain
  <2>2. ls[i].bn \in Nat /\ i \in Nat /\ i >= 1
    <3>1. IsHop(ls[i]) /\ Len(ls) \in Nat
      BY <2>1 DEF ChainIsFor
    <3>2. ls[i].bn \in Nat
      BY <3>1 DEF IsHop
    <3>3. i \in Nat /\ i >= 1
      BY <3>1
    <3>. QED
      BY <3>2, <3>3
  <2>3. ls[i].bn + Starts(i) = ls[1].bn /\ IF i > Len(G) THEN ls[i].bd = <<ls[i].bk>> ELSE Heard(G, i, ls[i].bn, ls[i].bd)
    BY <1>1, <1>7, <1>14 DEF ClientHears, ClientHeard
  <2>4. ls[1].bn = a
    BY <1>7, <1>14 DEF Read
  <2>. QED
    BY <1>4, <1>10, <2>2, <2>3, <2>4
<1>16. ASSUME NEW i \in 1..Len(ls), i <= k PROVE Heard(H, i, ls[i].bn, ls[i].bd)
  <2>1. PICK r, fd : r = ls[i].bn /\ fd = ls[i].bd
    OBVIOUS
  <2>2. r \in Nat /\ r + (i - 1) = a /\ Heard(G, i, r, fd) /\ i \in 1..k /\ i \in Nat
    <3>1. Starts(i) = i - 1
      BY <1>4, <1>16 DEF Starts
    <3>. QED
      BY <1>4, <1>15, <1>16, <2>1, <3>1
  <2>3. CASE i < k
    <3>1. i + 1 \in 1..k
      BY <1>4, <2>2, <2>3
    <3>2. H[i].d = G[i].d /\ H[i].o = G[i].o /\ H[i + 1].o = G[i + 1].o /\ i < Len(G) /\ i < Len(H)
      BY <1>4, <1>10, <1>12, <2>2, <2>3, <3>1
    <3>3. Heard(H, i, r, fd)
      BY <2>2, <3>2 DEF Heard
    <3>. QED
      BY <2>1, <3>3
  <2>4. CASE i = k
    <3>1. fd = Upto(G[k].d, r + 1)
      <4>1. ~(k < Len(G))
        BY <1>4, <1>10
      <4>. QED
        BY <2>2, <2>4, <4>1 DEF Heard
    <3>2. k \in 1..k /\ H[k].d = G[k].d /\ H[k].o = k - 1 /\ H[k + 1].o = k + 1
      BY <1>4, <1>10, <1>12
    <3>3. ~(r > H[k + 1].o - H[k].o)
      <4>1. PICK y, z : y = H[k + 1].o /\ z = H[k].o
        OBVIOUS
      <4>2. y = k + 1 /\ z = k - 1 /\ r + (k - 1) = a
        BY <2>2, <2>4, <3>2, <4>1
      <4>3. ~(r > y - z)
        BY ONLY <1>4, <1>8, <1>9, <2>2, <4>2
      <4>. QED
        BY <4>1, <4>3
    <3>4. Heard(H, k, r, fd)
      BY <3>1, <3>2, <3>3 DEF Heard
    <3>. QED
      BY <2>1, <2>4, <3>4
  <2>. QED
    BY <1>4, <1>16, <2>2, <2>3, <2>4
<1>17. ASSUME NEW i \in 1..Len(ls), i > k PROVE i = k + 1 /\ Heard(H, i, ls[i].bn, ls[i].bd)
  <2>1. /\ Len(ls) = k + Len(ClientEnd.e2e) /\ Len(ClientEnd.e2e) \in 0..1
        /\ ClientEnd.e2e # <<>> <=> Len(ClientEnd.e2e) = 1
        /\ ClientEnd.e2e # <<>> => ls[k + 1].bk = u
    BY <1>2, <1>3, <1>7, <1>14 DEF ClientIs, EndLayers, ClientLayers
  <2>2. PICK z : z = Len(ClientEnd.e2e)
    OBVIOUS
  <2>3. z \in 0..1 /\ i \in 1..(k + z)
    BY <2>1, <2>2
  <2>4. i = k + 1 /\ z = 1
    BY ONLY <1>4, <1>17, <2>3
  <2>5. ls[i].bk = u /\ ls[i].bd = <<u>>
    BY <1>15, <1>17, <2>1, <2>2, <2>4
  <2>6. PICK r : r = ls[i].bn
    OBVIOUS
  <2>7. r \in Nat /\ r + (k + 1) = a
    <3>1. Starts(i) = k + 1
      BY <1>4, <2>4 DEF Starts
    <3>. QED
      BY <1>15, <2>6, <3>1
  <2>8. r = 0
    BY ONLY <1>4, <1>8, <1>9, <2>7
  <2>9. Upto(<<u>>, 1) = <<u>>
    BY OneIs, UptoAll
  <2>10. H[i].d = <<u>> /\ ~(i < Len(H))
    BY <1>4, <1>12, <2>4
  <2>11. r + 1 = 1
    BY <2>8
  <2>12. Heard(H, i, r, <<u>>)
    BY <2>9, <2>10, <2>11 DEF Heard
  <2>. QED
    BY <2>4, <2>5, <2>6, <2>12
<1>18. ClientHears'
  <2>1. ASSUME NEW i \in 1..Len(ClientLayers') PROVE ClientHeard(i)'
    <3>1. i \in 1..Len(ls) /\ ClientLayers' = ls /\ ls[1].bn = a
      BY <1>7, <1>11, <1>14 DEF Read
    <3>2. i \in Nat /\ ls[i].bn + Starts(i) = a /\ Starts(i)' = Starts(i)
      BY <1>15, <3>1 DEF Starts
    <3>3. Heard(H, i, ls[i].bn, ls[i].bd) /\ ~(i > Len(H))
      <4>1. CASE i <= k
        <5>1. ~(i > k + 1)
          BY <1>4, <3>2, <4>1
        <5>. QED
          BY <1>12, <1>16, <3>1, <4>1, <5>1
      <4>2. CASE i > k
        <5>1. i = k + 1 /\ Heard(H, i, ls[i].bn, ls[i].bd)
          BY <1>17, <3>1, <4>2
        <5>2. ~(i > k + 1)
          BY <1>4, <5>1
        <5>. QED
          BY <1>12, <5>1, <5>2
      <4>. QED
        BY <1>4, <3>2, <4>1, <4>2
    <3>. QED
      BY <1>7, <3>1, <3>2, <3>3 DEF ClientHeard
  <2>. QED
    BY <2>1 DEF ClientHears
<1>. QED
  BY <1>7, <1>12, <1>13, <1>18

LEMMA InstallKeysGood ==
  ASSUME Good, InstallKeys
  PROVE  Good'
<1>1. /\ Shape /\ Building /\ ClientOut /\ ServiceWayOut /\ RelaysSaid /\ ClientHears /\ ClientBack
      /\ Bridged /\ ServiceBack /\ Control /\ Contents /\ Timely
  BY DEF Good
<1>2. ClientIs /\ ServiceIs /\ ServiceChain /\ BackIs /\ MeetBackIs
  BY GoodFacts DEF Facts
<1>3. /\ rendezvousing = "sent" /\ rendezvousing' = "installed" /\ fetching = "introduced" /\ intro = Meeting
      /\ Len(ServiceEnd.hops) = 1 /\ ServiceEnd.e2e = <<>> /\ Known = PathLen
      /\ UNCHANGED <<relays, forward, backward, held, tables, fetching, meeting, intro, ghosts>>
  BY KeysInstalled
<1>4. PICK v : /\ origin' = [origin EXCEPT !["service"] = v] /\ v.hops = ServiceEnd.hops /\ v.pending = ServiceEnd.pending
               /\ v.e2e = <<HopState(H2C, C2H)>> /\ EndFits("service", v) /\ E2EFits(v, H2C, C2H)
  BY KeysInstalled
<1>5. Tables'
  BY <1>1, <1>3 DEF Tables, Shape, Leg, OnionTask, OriginEnd, Hops, FromClient, AtPoint
<1>6. Shape' /\ ServiceEnd' = v /\ SameClient /\ RelaysSame
  BY <1>1, <1>3, <1>4, <1>5, ServiceChanges
<1>7. PICK h, fk, bk : fk = H2C /\ bk = C2H /\ h = HopState(fk, bk)
  OBVIOUS
<1>8. h.fn = 0 /\ h.bn = 0 /\ h.fd = <<fk>> /\ h.bd = <<bk>>
  BY <1>7, HopStateIs
<1>9. ServiceEnd'.e2e = <<h>> /\ <<h>>[1] = h /\ <<h>> # <<>> /\ ServiceEnd'.hops = ServiceEnd.hops /\ ServiceEnd'.pending = ServiceEnd.pending
  BY <1>4, <1>6, <1>7, OneIs
<1>10. PICK ls, ms : ls = ServiceLayers /\ ms = ServiceLayers'
  OBVIOUS
<1>11. LayersOK(ls) /\ KeysApart(ls) /\ Len(ls) = 1 /\ NewKey(ls, fk) /\ ls[1].fk = FK(Meet)
  <2>1. Len(ls) = 1 /\ KeysApart(ls) /\ \A i \in 1..1 : ls[i].fk = FK(<<"service", i>>)
    <3>1. Len(ServiceEnd.e2e) = 0
      BY <1>3, EmptyIs
    <3>. QED
      BY <1>2, <1>3, <1>10, <3>1 DEF ServiceIs, EndLayers, ServiceLayers
  <2>2. NewKey(ls, fk)
    BY <1>7, <2>1, KeysAre DEF NewKey
  <2>. QED
    BY <1>1, <1>10, <2>1, <2>2 DEF ServiceWayOut, Meet
<1>12. ms = Append(ls, h) /\ Grown(ls, ms, fk, bk)
  <2>1. PICK hs : hs = ServiceEnd.hops
    OBVIOUS
  <2>2. ls = hs \o <<>> /\ ms = hs \o <<h>> /\ IsSeq(hs)
    BY <1>2, <1>3, <1>9, <1>10, <2>1 DEF ServiceLayers, Layers, ServiceIs, EndLayers
  <2>3. ls = hs
    BY <2>2 DEF IsSeq
  <2>4. ms = Append(hs, h)
    BY <2>2 DEF IsSeq
  <2>5. ms = Append(ls, HopState(fk, bk))
    BY <1>7, <2>3, <2>4
  <2>. QED
    BY <1>7, <1>11, <2>5, GrownLayers
<1>13. ms[1] = ls[1]
  <2>1. 1 \in 1..Len(ls)
    BY <1>11
  <2>. QED
    BY <1>12, <2>1 DEF Grown
<1>14. MeetHop' = MeetHop
  BY <1>6 DEF RelaysSame
<1>15. ServiceWayOut'
  <2>1. PICK x, R, Q : x = <<>> /\ R = <<MeetHop>> /\ Q = <<forward[Meet]>>
    OBVIOUS
  <2>2. OutLine(Chain(ls), 1, ls[1].fn, x, x, R, Q)
    BY <1>1, <1>3, <1>10, <2>1 DEF ServiceWayOut, ServiceOut
  <2>3. 1 \in Nat /\ 1 <= Len(ls) /\ Len(ls) >= 1
    BY <1>11
  <2>4. LayersOK(ms) /\ OutLine(Chain(ms), 1, ms[1].fn, x, x, R, Q)
    BY ONLY <1>11, <1>12, <2>2, <2>3, LineGrow
  <2>5. OutLine(ServiceOut', 1, ServiceLayers'[1].fn, <<>>, <<>>, <<MeetHop'>>, <<forward'[Meet]>>)
    BY <1>3, <1>10, <1>14, <2>1, <2>4 DEF ServiceOut
  <2>6. LayersOK(ServiceLayers')
    BY <1>10, <2>4
  <2>. QED
    BY <2>5, <2>6 DEF ServiceWayOut, Meet
<1>16. \A l \in Leg : l # Meet => forward'[l] = forward[l] /\ backward'[l] = backward[l]
  BY <1>3
<1>17. ClientOut' /\ RelaysSaid' /\ Bridged' /\ SaidStill /\ BackHopsStill
  BY <1>3, <1>6, <1>16, ServiceMoves
<1>18. Control'
  <2>1. PointEstablished' <=> PointEstablished
    BY <1>6 DEF PointEstablished, RelaysSame
  <2>2. NoKey' = NoKey /\ Meeting' = Meeting
    BY DEF NoKey, Meeting
  <2>3. UNCHANGED <<fetching, meeting, intro, cookie, bridged>>
    BY <1>3 DEF tables
  <2>4. ClientEnd' = ClientEnd /\ Known' = Known /\ Read' = Read
    BY <1>6 DEF SameClient
  <2>5. ServiceEnd'.e2e # <<>> /\ ~(ServiceEnd'.e2e[1].fn > 0) /\ Len(ServiceEnd'.hops) = 1
    BY <1>3, <1>8, <1>9
  <2>. QED
    BY <1>1, <1>3, <1>14, <2>1, <2>2, <2>3, <2>4, <2>5 DEF Control, PointEstablished
<1>19. BackIs'
  <2>1. ClientIs' /\ ServiceIs'
    BY <1>6, EndsAreNext
  <2>. QED
    BY <1>15, <1>17, <1>18, <2>1, BackChainNext
<1>20. PICK b : b = BackTurn(ChainBack, Read, Relayed, Known)
  OBVIOUS
<1>21. ClientHears' /\ Grows(ChainBack, ChainBack', b) /\ ChainOK(ChainBack')
  <2>1. ServiceEnd'.e2e # <<>> /\ ServiceEnd'.e2e[1].fd = <<H2C>>
    BY <1>7, <1>8, <1>9
  <2>. QED
    BY <1>3, <1>6, <1>19, <1>20, <2>1, ChainBackGrows
<1>22. ClientBack'
  <2>1. Known \in Nat /\ Known >= 1 /\ Known' = Known /\ Read' = Read /\ PathLen \in Nat
    BY <1>1, <1>3, <1>6, KnownIs DEF SameClient
  <2>2. PICK G, H, m, w, x, y, R, Q, R2, Q2 :
           /\ G = ChainBack /\ H = ChainBack' /\ m = Known /\ w = Read /\ x = held["clientReader"] /\ y = held["serviceReader"]
           /\ R = Relayed /\ Q = BackQueues /\ R2 = Relayed' /\ Q2 = BackQueues'
    OBVIOUS
  <2>3. ChainOK(G) /\ ChainOK(H) /\ m <= Len(G) /\ b = BackTurn(G, w, R, m) /\ Grows(G, H, b) /\ m \in Nat /\ m >= 1
    BY <1>2, <1>20, <1>21, <2>1, <2>2 DEF BackIs
  <2>4. BackLine(G, m, w, x, y, R, Q)
    BY <1>1, <2>1, <2>2 DEF ClientBack
  <2>5. \A i \in 1..m : R2[i].bn = R[i].bn /\ Q2[i] = Q[i]
    BY <1>17, <2>1, <2>2, RelayedIs DEF BackHopsStill
  <2>6. BackLine(H, m, w, x, y, R2, Q2)
    BY ONLY <2>3, <2>4, <2>5, BackLineGrows
  <2>7. BackLine(ChainBack', Known', Read', held'["clientReader"], held'["serviceReader"], Relayed', BackQueues')
    BY <1>3, <2>1, <2>2, <2>6
  <2>8. ~(Known' < PathLen)
    BY <1>3, <2>1
  <2>. QED
    BY <2>7, <2>8 DEF ClientBack
<1>23. ServiceBack'
  <2>1. MeetBackStill
    BY <1>3, <1>14 DEF MeetBackStill
  <2>2. (Len(ServiceEnd.hops))' = Len(ServiceEnd.hops) /\ MeetBack' = MeetBack
    BY <1>6, <1>9 DEF SameClient
  <2>3. ServiceLayers'[1].bn = ServiceLayers[1].bn
    BY <1>10, <1>13
  <2>. QED
    BY <1>1, <1>2, <2>1, <2>2, <2>3, ServiceBackStays
<1>24. Timely'
  <2>1. excuses' = excuses /\ lost' = lost
    BY <1>3 DEF ghosts
  <2>2. SUFFICES ASSUME "keys late" \notin excuses
        PROVE  /\ ~lost'
               /\ ServiceEnd'.e2e[1].bn = ServiceLayers'[1].bn
               /\ IF ClientEnd'.e2e = <<>> THEN ServiceEnd'.e2e[1].bd = <<C2H>>
                  ELSE Heard(MeetBack', 2, ServiceEnd'.e2e[1].bn, ServiceEnd'.e2e[1].bd)
    BY <1>9, <2>1 DEF Timely, C2H, Meeting, ServiceKey
  <2>3. ~lost'
    BY <1>1, <2>1, <2>2 DEF Timely
  <2>4. ServiceLayers[1].bn = 0
    BY <1>1, <1>3, <2>1, <2>2 DEF Timely
  <2>5. ServiceEnd'.e2e[1].bn = ServiceLayers'[1].bn
    BY <1>8, <1>9, <1>10, <1>13, <2>4
  <2>6. ServiceEnd'.e2e[1].bd = <<bk>> /\ ServiceEnd'.e2e[1].bn = 0
    BY <1>8, <1>9
  <2>7. ASSUME ClientEnd'.e2e # <<>> PROVE Heard(MeetBack', 2, 0, <<bk>>)
    <3>1. ClientEnd'.e2e = ClientEnd.e2e /\ MeetBack' = MeetBack
      BY <1>6 DEF SameClient
    <3>2. Len(MeetBack) = 2 /\ MeetBack[2].d = ClientEnd.e2e[1].fd /\ ClientEnd.e2e[1].fd[1] = bk
      BY <1>1, <1>2, <1>7, <2>7, <3>1 DEF MeetBackIs, Contents
    <3>3. PICK s : s = ClientEnd.e2e[1].fd
      OBVIOUS
    <3>4. Upto(s, 1) = <<bk>>
      <4>1. Upto(s, 1) = Upto(<<bk>>, 1)
        <5>1. \A i \in 1..1 : i = 1
          OBVIOUS
        <5>2. s[1] = <<bk>>[1]
          BY <3>2, <3>3, OneIs
        <5>3. \A i \in 1..1 : s[i] = <<bk>>[i]
          BY ONLY <5>1, <5>2
        <5>4. 1 \in Nat
          OBVIOUS
        <5>. QED
          BY <5>3, <5>4, UptoSame
      <4>2. Upto(<<bk>>, 1) = <<bk>>
        BY OneIs, UptoAll
      <4>. QED
        BY <4>1, <4>2
    <3>5. ~(2 < Len(MeetBack)) /\ 0 + 1 = 1
      BY <3>2
    <3>. QED
      BY <3>1, <3>2, <3>3, <3>4, <3>5 DEF Heard
  <2>. QED
    BY <1>7, <2>3, <2>5, <2>6, <2>7
<1>25. Contents'
  <2>1. ClientSaid'
    BY <1>1, <1>3, <1>6, ClientSaidStays
  <2>2. ServiceEnd.hops[1].fd = <<FK(Meet), Rendezvous1>>
    BY <1>1, <1>3 DEF Contents
  <2>3. (<<FK(Meet), Rendezvous1>>)' = <<FK(Meet), Rendezvous1>>
    BY DEF FK, Meet, Rendezvous1, ServiceKey, Meeting, Auth
  <2>4. (Len(ServiceEnd.hops) = 1 =>
           ServiceEnd.hops[1].fd = IF rendezvousing \in {"sent", "installed"} THEN <<FK(Meet), Rendezvous1>> ELSE <<FK(Meet)>>)'
    BY <1>3, <1>9, <2>2, <2>3
  <2>5. ServiceEnd'.e2e[1].fd = <<fk>> /\ Len(<<fk>>) = 1 /\ <<fk>>[1] = fk
    BY <1>8, <1>9, OneIs
  <2>6. \A q : q \notin 2..1
    OBVIOUS
  <2>7. H2C' = fk
    BY <1>7 DEF H2C, Meeting, ServiceKey
  <2>8. (ServiceEnd.e2e # <<>> =>
           /\ ServiceEnd.e2e[1].fd[1] = H2C
           /\ \A q \in 2..Len(ServiceEnd.e2e[1].fd) : ServiceEnd.e2e[1].fd[q][1] = "answer")'
    BY <2>5, <2>6, <2>7
  <2>. QED
    BY <2>1, <2>4, <2>8 DEF Contents, ClientSaid
<1>26. Building'
  <2>1. CircuitsStay
    BY <1>6, <1>9 DEF CircuitsStay, OriginEnd, SameClient, ClientEnd, ServiceEnd
  <2>. QED
    BY <1>3, <1>6, <1>16, <2>1, ServiceBuilding
<1>. QED
  BY <1>6, <1>15, <1>17, <1>18, <1>21, <1>22, <1>23, <1>24, <1>25, <1>26 DEF Good

\* The client's layers and the chain they hear, side by side.
Abreast(G, ls, T, k, h, n) ==
  /\ k \in Nat /\ k >= 1 /\ k <= PathLen /\ PathLen \in Nat /\ h \in Nat /\ n \in Nat /\ T \in Nat
  /\ Len(ls) = h /\ Len(G) = n /\ ChainOK(G) /\ (h = k \/ (h = k + 1 /\ k = PathLen)) /\ (n = k \/ (n = k + 1 /\ k = PathLen))
  /\ \A i \in 1..n : G[i].o = Starts(i)
  /\ \A i \in 1..h : ls[i].bn \in Nat /\ ls[i].bn + Starts(i) = T /\ i \in Nat /\ i >= 1
  /\ \A i \in 1..h : i <= n => G[i].k = ls[i].bk /\ Heard(G, i, ls[i].bn, ls[i].bd)
  /\ \A i \in 1..h : i > n => ls[i].bd = <<ls[i].bk>>
  /\ (h = k => T <= PathLen)
  /\ \A i \in 1..k : Len(G[i].d) \in 1..3 /\ G[i].d = SaidAt(i)

LEMMA ClientAbreast ==
  ASSUME Good, Known > 0, NEW G, G = ChainBack, NEW ls, ls = ClientLayers, NEW T, T = Read, NEW k, k = Known,
         NEW h, h = Len(ls), NEW n, n = Len(G)
  PROVE  /\ Abreast(G, ls, T, k, h, n) /\ (h = k <=> ClientEnd.e2e = <<>>) /\ (n = k <=> ServiceEnd.e2e = <<>>)
<1>1. Shape /\ ClientHears /\ ClientOut /\ RelaysSaid /\ Control
  BY DEF Good
<1>2. ClientIs /\ ClientChain /\ BackIs
  BY GoodFacts DEF Facts
<1>3. k \in Nat /\ k >= 1 /\ k <= PathLen /\ PathLen \in Nat
  BY <1>1, KnownIs
<1>4. /\ h = k + Len(ClientEnd.e2e) /\ Len(ClientEnd.e2e) \in 0..1
      /\ ClientEnd.e2e = <<>> <=> Len(ClientEnd.e2e) = 0
      /\ ClientEnd.e2e # <<>> => k = PathLen /\ ls[k + 1].bk = H2C
      /\ \A i \in 1..k : ls[i].bk = BK(LegTo(i))
  <2>1. Hops("client") = PathLen
    BY DEF Hops
  <2>2. \A i : <<"client", i>> = LegTo(i)
    BY DEF LegTo
  <2>. QED
    BY <1>2, <2>1, <2>2 DEF ClientIs, EndLayers, ClientLayers
<1>5. (h = k \/ (h = k + 1 /\ k = PathLen)) /\ (h = k <=> ClientEnd.e2e = <<>>) /\ h \in Nat
  <2>1. PICK z : z = Len(ClientEnd.e2e)
    OBVIOUS
  <2>2. h = k + z /\ z \in 0..1 /\ (ClientEnd.e2e = <<>> <=> z = 0) /\ (ClientEnd.e2e # <<>> => k = PathLen)
    BY <1>4, <2>1
  <2>. QED
    BY <1>3, <2>2
<1>6. /\ ChainOK(G) /\ n \in Nat /\ n = (IF ServiceEnd.e2e = <<>> THEN k ELSE PathLen + 1)
      /\ ServiceEnd.e2e # <<>> => k = PathLen
      /\ \A i \in 1..k : G[i].k = BK(LegTo(i)) /\ G[i].o = i - 1 /\ G[i].d = RelayHop(i).bd
      /\ ServiceEnd.e2e # <<>> => G[PathLen + 1].k = H2C /\ G[PathLen + 1].o = PathLen + 1
  BY <1>2 DEF BackIs
<1>7. (n = k \/ (n = k + 1 /\ k = PathLen)) /\ (n = k <=> ServiceEnd.e2e = <<>>)
  BY <1>3, <1>6
<1>8. T \in Nat
  BY <1>3, BackAtLast
<1>9. ASSUME NEW i \in 1..n PROVE G[i].o = Starts(i)
  <2>1. CASE i <= k
    BY <1>3, <1>6, <1>9, <2>1 DEF Starts
  <2>2. CASE i > k
    <3>1. i = PathLen + 1 /\ ServiceEnd.e2e # <<>>
      BY <1>3, <1>6, <1>7, <1>9, <2>2
    <3>. QED
      BY <1>3, <1>6, <3>1 DEF Starts
  <2>. QED
    BY <1>3, <2>1, <2>2
<1>10. ASSUME NEW i \in 1..h
       PROVE  /\ ls[i].bn \in Nat /\ ls[i].bn + Starts(i) = T /\ i \in Nat /\ i >= 1
              /\ (i <= n => Heard(G, i, ls[i].bn, ls[i].bd)) /\ (i > n => ls[i].bd = <<ls[i].bk>>)
  <2>1. ChainIsFor(ls, Known)
    BY <1>2 DEF ClientChain
  <2>2. IsHop(ls[i])
    BY <2>1 DEF ChainIsFor
  <2>3. ls[i].bn \in Nat
    BY <2>2 DEF IsHop
  <2>4. i \in Nat /\ i >= 1
    BY <1>5
  <2>5. ls[i].bn + Starts(i) = ls[1].bn /\ IF i > Len(G) THEN ls[i].bd = <<ls[i].bk>> ELSE Heard(G, i, ls[i].bn, ls[i].bd)
    BY <1>1 DEF ClientHears, ClientHeard
  <2>6. ls[1].bn = T
    BY DEF Read
  <2>. QED
    BY <1>6, <2>3, <2>4, <2>5, <2>6
<1>11. ASSUME NEW i \in 1..h, i <= n PROVE G[i].k = ls[i].bk
  <2>1. CASE i <= k
    BY <1>3, <1>4, <1>6, <1>10, <2>1
  <2>2. CASE i > k
    <3>1. i = k + 1 /\ k = PathLen /\ ClientEnd.e2e # <<>> /\ ServiceEnd.e2e # <<>>
      BY <1>3, <1>5, <1>6, <1>7, <1>11, <2>2
    <3>. QED
      BY <1>4, <1>6, <3>1
  <2>. QED
    BY <1>3, <2>1, <2>2
<1>12. h = k => T <= PathLen
  <2>1. ClientEnd.e2e = <<>> => ~(Read > PathLen)
    BY <1>1 DEF Control
  <2>. QED
    BY <1>3, <1>5, <1>8, <2>1
<1>13. ASSUME NEW i \in 1..k PROVE Len(G[i].d) \in 1..3 /\ G[i].d = SaidAt(i)
  <2>1. RelayHop(i).bd = SaidAt(i)
    BY <1>1 DEF RelaysSaid
  <2>. QED
    BY <1>6, <2>1, SaidIs
<1>. QED
  BY <1>3, <1>5, <1>6, <1>7, <1>8, <1>9, <1>10, <1>11, <1>12, <1>13 DEF Abreast

\* What comes to the client is for the innermost layer it has.
LEMMA Innermost ==
  ASSUME NEW G, NEW ls, NEW T, NEW k, NEW h, NEW n, Abreast(G, ls, T, k, h, n), NEW g \in 1..n, EndsAt(G, g, T)
  PROVE  g = h
<1>1. /\ k \in Nat /\ k >= 1 /\ k <= PathLen /\ PathLen \in Nat /\ h \in Nat /\ n \in Nat /\ T \in Nat
      /\ Len(ls) = h /\ Len(G) = n /\ (h = k \/ (h = k + 1 /\ k = PathLen)) /\ (n = k \/ (n = k + 1 /\ k = PathLen))
      /\ (h = k => T <= PathLen)
  BY DEF Abreast
<1>2. G[g].o = Starts(g) /\ G[g].o <= T /\ T - G[g].o + 2 <= Len(G[g].d) /\ (g < n => T < G[g + 1].o)
  BY <1>1 DEF Abreast, EndsAt
<1>3. g <= h
  <2>1. SUFFICES ASSUME g > h PROVE FALSE
    BY <1>1
  <2>2. g = PathLen + 1 /\ h = k
    BY <1>1, <2>1
  <2>3. Starts(g) = PathLen + 1
    BY <1>1, <2>2 DEF Starts
  <2>. QED
    BY <1>1, <1>2, <2>2, <2>3
<1>4. g >= h
  <2>1. SUFFICES ASSUME g < h PROVE FALSE
    BY <1>1
  <2>2. g + 1 \in 1..h
    BY <1>1, <2>1
  <2>3. PICK r, s : r = ls[g + 1].bn /\ s = Starts(g + 1)
    OBVIOUS
  <2>4. r \in Nat /\ r + s = T
    BY <2>2, <2>3 DEF Abreast
  <2>5. CASE g < n
    <3>1. g + 1 \in 1..n
      BY <1>1, <2>5
    <3>2. G[g + 1].o = s
      BY <2>3, <3>1 DEF Abreast
    <3>3. T < s
      BY <1>2, <2>5, <3>2
    <3>4. s \in Nat
      <4>1. g + 1 \in Nat /\ g + 1 >= 1
        BY <2>2, <1>1
      <4>. QED
        BY <1>1, <2>3, <4>1 DEF Starts
    <3>. QED
      BY ONLY <1>1, <2>4, <3>3, <3>4
  <2>6. CASE g = n
    <3>1. n = k /\ k = PathLen /\ g = k /\ h = k + 1
      BY <1>1, <2>1, <2>6
    <3>2. s = k + 1 /\ Starts(g) = k - 1
      BY <1>1, <2>3, <3>1 DEF Starts
    <3>3. PICK z, o : z = Len(G[g].d) /\ o = G[g].o
      OBVIOUS
    <3>4. z \in 1..3
      <4>1. g \in 1..k
        BY <1>1, <3>1
      <4>. QED
        BY <3>3, <4>1 DEF Abreast
    <3>5. o = k - 1 /\ T - o + 2 <= z
      BY <1>2, <3>2, <3>3
    <3>. QED
      BY ONLY <1>1, <2>4, <3>2, <3>4, <3>5
  <2>. QED
    BY <1>1, <2>5, <2>6
<1>. QED
  BY <1>1, <1>3, <1>4

HeardLast(G, ls, T, h, cell) ==
  /\ cell = G[h].d[T - G[h].o + 2] /\ Append(ls[h].bd, cell) = Upto(G[h].d, T - G[h].o + 2)
  /\ h \in 1..Len(G) /\ EndsAt(G, h, T)

LEMMA ReadAt ==
  ASSUME Good, CellArrives(backward, Client, "relay"), NEW G, G = ChainBack, NEW ls, ls = ClientLayers, NEW T, T = Read,
         NEW h, h = Len(ls), NEW p, p = Head(backward[Client]), NEW oc, oc = ClientEnd
  PROVE  Known > 0 /\ HeardLast(G, ls, T, h, p.cell) /\ RecognisedBy(oc, p) = {h}
<1>1. Shape /\ ClientBack
  BY DEF Good
<1>2. BackIs /\ Places /\ ClientIs
  BY GoodFacts DEF Facts
<1>3. Known > 0
  <2>1. PathLen \in Nat /\ PathLen >= 1 /\ Client = LegTo(1) /\ Known \in Nat
    BY <1>1, KnownIs
  <2>2. 1 \in 1..PathLen
    BY <2>1
  <2>3. 1 \in 1..Known
    BY <1>2, <2>1, <2>2 DEF Places
  <2>. QED
    BY <2>1, <2>3
<1>4. PICK k, n : k = Known /\ n = Len(G)
  OBVIOUS
<1>5. Abreast(G, ls, T, k, h, n)
  BY <1>3, <1>4, ClientAbreast
<1>6. k \in Nat /\ k >= 1 /\ h \in Nat /\ n \in Nat /\ T \in Nat /\ Len(ls) = h /\ Len(G) = n /\ ChainOK(G) /\ k <= n /\ k <= h
  BY <1>5 DEF Abreast
<1>7. PICK x, y, R, Q : x = held["clientReader"] /\ y = held["serviceReader"] /\ R = Relayed /\ Q = BackQueues
  OBVIOUS
<1>8. BackLine(G, k, T, x, y, R, Q)
  BY <1>1, <1>3, <1>4, <1>7 DEF ClientBack
<1>9. Q[1] = backward[Client] /\ Q[1] # <<>>
  <2>1. 1 \in 1..Known /\ Client = LegTo(1)
    BY <1>1, <1>4, <1>6, KnownIs
  <2>. QED
    BY <1>7, <2>1, RelayedIs DEF CellArrives
<1>10. CellOK(G, p, 1, T)
  <2>1. 1 \in 1..k /\ k <= Len(G)
    BY <1>6
  <2>2. CellOK(G, Head(Q[1]), 1, BackTurn(G, T, R, 1 - 1))
    BY ONLY <1>6, <1>8, <1>9, <2>1, BackKind
  <2>3. BackTurn(G, T, R, 1 - 1) = T
    BY DEF BackTurn
  <2>. QED
    BY <1>9, <2>2, <2>3
<1>11. PICK g \in 1..n : EndsAt(G, g, T) /\ p = CellOf(G, 1, g, T)
  BY <1>6, <1>10 DEF CellOK
<1>12. g = h
  BY <1>5, <1>11, Innermost
<1>13. Layers(oc) = ls /\ IsSeq(ls)
  BY <1>2 DEF ClientIs, EndLayers, ClientLayers
<1>14. \A q \in 1..h : G[q].k = ls[q].bk /\ ls[q].bn = T - G[q].o
  <2>1. ASSUME NEW q \in 1..h PROVE G[q].k = ls[q].bk /\ ls[q].bn = T - G[q].o
    <3>1. q \in 1..n /\ q <= n
      BY <1>6, <1>11, <1>12
    <3>2. PICK r, o : r = ls[q].bn /\ o = G[q].o
      OBVIOUS
    <3>3. r \in Nat /\ r + o = T /\ o \in Nat
      BY <1>5, <1>6, <3>1, <3>2 DEF Abreast, ChainOK
    <3>4. r = T - o
      BY ONLY <1>6, <3>3
    <3>5. G[q].k = ls[q].bk
      BY <1>5, <3>1 DEF Abreast
    <3>. QED
      BY <3>2, <3>4, <3>5
  <2>. QED
    BY <2>1
<1>15. ls[h].bd = Upto(G[h].d, T - G[h].o + 1)
  <2>1. h \in 1..h /\ h <= n
    BY <1>6, <1>11, <1>12
  <2>2. Heard(G, h, ls[h].bn, ls[h].bd)
    BY <1>5, <2>1 DEF Abreast
  <2>3. ls[h].bn = T - G[h].o
    BY <1>14, <2>1
  <2>4. ~(h < Len(G) /\ ls[h].bn > G[h + 1].o - G[h].o)
    <3>1. SUFFICES ASSUME h < Len(G) PROVE ~(ls[h].bn > G[h + 1].o - G[h].o)
      OBVIOUS
    <3>2. PICK r, o, o2 : r = ls[h].bn /\ o = G[h].o /\ o2 = G[h + 1].o
      OBVIOUS
    <3>3. T < o2
      BY <1>11, <1>12, <3>1, <3>2 DEF EndsAt
    <3>4. o \in Nat /\ o2 \in Nat
      <4>1. h \in 1..Len(G) /\ h + 1 \in 1..Len(G)
        BY <1>6, <2>1, <3>1
      <4>. QED
        BY <1>6, <3>2, <4>1 DEF ChainOK
    <3>5. ~(r > o2 - o)
      <4>1. r = T - o
        BY <2>3, <3>2
      <4>. QED
        BY ONLY <1>6, <3>3, <3>4, <4>1
    <3>. QED
      BY <3>2, <3>5
  <2>. QED
    BY <2>2, <2>3, <2>4 DEF Heard
<1>16. h \in 1..Len(G)
  BY <1>6, <1>11, <1>12
<1>17. RecognisedBy(oc, CellOf(G, 1, h, T)) = {h} /\ CellOf(G, 1, h, T).cell = G[h].d[T - G[h].o + 2]
       /\ Append(ls[h].bd, CellOf(G, 1, h, T).cell) = Upto(G[h].d, T - G[h].o + 2)
  <2>1. T \in Int /\ IsSeq(Layers(oc)) /\ h = Len(Layers(oc)) /\ EndsAt(G, h, T)
    BY <1>6, <1>11, <1>12, <1>13
  <2>2. Layers(oc)[h].bd = Upto(G[h].d, T - G[h].o + 1)
    BY <1>13, <1>15
  <2>3. \A q \in 1..h : G[q].k = Layers(oc)[q].bk /\ Layers(oc)[q].bn = T - G[q].o
    BY <1>13, <1>14
  <2>4. RecognisedBy(oc, CellOf(G, 1, h, T)) = {h} /\ CellOf(G, 1, h, T).cell = G[h].d[T - G[h].o + 2]
        /\ Append(Layers(oc)[h].bd, CellOf(G, 1, h, T).cell) = Upto(G[h].d, T - G[h].o + 2)
    <3>1. ChainOK(G) /\ T \in Int /\ h \in 1..Len(G) /\ IsSeq(Layers(oc)) /\ h = Len(Layers(oc))
      BY <1>6, <1>16, <2>1
    <3>2. \A q \in 1..h : G[q].k = Layers(oc)[q].bk /\ Layers(oc)[q].bn = T - G[q].o
      BY <2>3
    <3>3. EndsAt(G, h, T)
      BY <2>1
    <3>4. LastTurn(oc, G, h, T)
      BY ONLY <3>1, <3>2, <3>3, <2>2 DEF LastTurn
    <3>. QED
      BY ONLY <3>4, RecognisedLast
  <2>. QED
    BY <1>13, <2>4
<1>. QED
  BY <1>3, <1>11, <1>12, <1>16, <1>17 DEF HeardLast

\* Each log before the innermost is whole.
LEMMA LogsWhole ==
  ASSUME Good, Known > 0, NEW G, G = ChainBack, NEW ls, ls = ClientLayers, NEW T, T = Read, NEW k, k = Known,
         NEW h, h = Len(ls), NEW n, n = Len(G), h <= n, NEW i \in 1..h, i < h
  PROVE  Len(G[i].d) = G[i + 1].o - G[i].o + 1 /\ G[i].o \in Nat /\ G[i + 1].o \in Nat /\ IsSeq(G[i].d)
<1>1. Abreast(G, ls, T, k, h, n) /\ (h = k <=> ClientEnd.e2e = <<>>)
  BY ClientAbreast
<1>2. /\ k \in Nat /\ k >= 1 /\ k <= PathLen /\ PathLen \in Nat /\ h \in Nat /\ n \in Nat
      /\ Len(G) = n /\ ChainOK(G) /\ (h = k \/ (h = k + 1 /\ k = PathLen))
  BY <1>1 DEF Abreast
<1>3. i \in 1..n /\ i + 1 \in 1..n /\ i \in 1..k
  BY <1>2
<1>4. G[i].o = Starts(i) /\ G[i + 1].o = Starts(i + 1) /\ G[i].d = SaidAt(i)
  BY <1>1, <1>3 DEF Abreast
<1>5. Starts(i) = i - 1
  BY <1>2, <1>3 DEF Starts
<1>6. IsSeq(G[i].d)
  BY <1>2, <1>3 DEF ChainOK
<1>7. CASE i < k
  <2>1. Starts(i + 1) = i
    BY <1>2, <1>3, <1>7 DEF Starts
  <2>2. Len(SaidAt(i)) = 2
    <3>1. SaidAt(i) = <<BK(LegTo(i)), Extended2(i)>>
      BY <1>7 DEF SaidAt
    <3>2. PICK a, b : a = BK(LegTo(i)) /\ b = Extended2(i)
      OBVIOUS
    <3>. QED
      BY <3>1, <3>2, TwoIs
  <2>3. PICK z, o, o2 : z = Len(G[i].d) /\ o = G[i].o /\ o2 = G[i + 1].o
    OBVIOUS
  <2>4. z = 2 /\ o = i - 1 /\ o2 = i /\ i \in Nat /\ i >= 1
    BY <1>2, <1>3, <1>4, <1>5, <2>1, <2>2, <2>3
  <2>5. z = o2 - o + 1 /\ o \in Nat /\ o2 \in Nat
    BY ONLY <2>4
  <2>. QED
    BY <1>6, <2>3, <2>5
<1>8. CASE i = k
  <2>1. h = k + 1 /\ k = PathLen /\ ClientEnd.e2e # <<>>
    BY <1>1, <1>2, <1>8
  <2>2. cookie = "used"
    BY <2>1, E2EUsed
  <2>3. Starts(i + 1) = i + 1
    BY <1>2, <1>8, <2>1 DEF Starts
  <2>4. Len(SaidAt(i)) = 3
    <3>1. SaidAt(i) = <<BK(LegTo(i)), Established, Rendezvous2>>
      BY <1>2, <1>8, <2>1, <2>2 DEF SaidAt
    <3>2. PICK a, b, c : a = BK(LegTo(i)) /\ b = Established /\ c = Rendezvous2
      OBVIOUS
    <3>. QED
      BY <3>1, <3>2, ThreeIs
  <2>5. PICK z, o, o2 : z = Len(G[i].d) /\ o = G[i].o /\ o2 = G[i + 1].o
    OBVIOUS
  <2>6. z = 3 /\ o = i - 1 /\ o2 = i + 1 /\ i \in Nat /\ i >= 1
    BY <1>2, <1>3, <1>4, <1>5, <2>3, <2>4, <2>5
  <2>7. z = o2 - o + 1 /\ o \in Nat /\ o2 \in Nat
    BY ONLY <2>6
  <2>. QED
    BY <1>6, <2>5, <2>7
<1>. QED
  BY <1>2, <1>3, <1>7, <1>8

WholeLog(G, i) ==
  Len(G[i].d) = G[i + 1].o - G[i].o + 1 /\ G[i].o \in Nat /\ G[i + 1].o \in Nat /\ IsSeq(G[i].d)

\* What a layer has heard when one more cell has passed it, the innermost's own or another's.
LEMMA HeardNext ==
  ASSUME NEW G, ChainOK(G), NEW T \in Nat, NEW h \in 1..Len(G), EndsAt(G, h, T), NEW i \in 1..h,
         NEW r \in Nat, r + G[i].o = T, NEW bd, Heard(G, i, r, bd), i < h => WholeLog(G, i),
         NEW cell, Append(bd, cell) = Upto(G[h].d, T - G[h].o + 2) \/ i # h,
         NEW nb, nb = IF i = h THEN Append(bd, cell) ELSE bd
  PROVE  Heard(G, i, r + 1, nb)
<1>1. IsSeq(G) /\ Len(G) \in Nat
  BY IsSeqShape DEF ChainOK
<1>2. i \in 1..Len(G) /\ i \in Nat /\ h \in Nat /\ i >= 1 /\ h <= Len(G)
  BY <1>1
<1>3. G[i].o \in Nat /\ G[h].o \in Nat
  BY <1>2 DEF ChainOK
<1>4. CASE i = h
  <2>1. PICK o : o = G[h].o
    OBVIOUS
  <2>2. T - o + 2 = (r + 1) + 1
    BY <1>3, <1>4, <2>1
  <2>3. nb = Upto(G[i].d, (r + 1) + 1)
    BY <1>4, <2>1, <2>2
  <2>4. ~(i < Len(G) /\ r + 1 > G[i + 1].o - G[i].o)
    <3>1. SUFFICES ASSUME i < Len(G) PROVE ~(r + 1 > G[i + 1].o - G[i].o)
      OBVIOUS
    <3>2. i + 1 \in 1..Len(G)
      BY <1>1, <1>2, <3>1
    <3>3. PICK o2 : o2 = G[i + 1].o
      OBVIOUS
    <3>4. o2 \in Nat /\ T < o2
      BY <1>4, <3>1, <3>2, <3>3 DEF EndsAt, ChainOK
    <3>5. ~(r + 1 > o2 - o)
      BY <1>3, <1>4, <2>1, <3>4
    <3>. QED
      BY <1>4, <2>1, <3>3, <3>5
  <2>. QED
    BY <2>3, <2>4 DEF Heard
<1>5. CASE i < h
  <2>1. WholeLog(G, i)
    BY <1>5
  <2>2. i < Len(G) /\ i + 1 \in 1..Len(G) /\ i + 1 <= h
    BY <1>1, <1>2, <1>5
  <2>3. PICK o, o2, e, g : o = G[i].o /\ o2 = G[i + 1].o /\ e = G[h].o /\ g = o2 - o
    OBVIOUS
  <2>4. o2 <= e /\ e <= T
    BY <1>2, <2>2, <2>3 DEF ChainOK, EndsAt
  <2>5. o \in Nat /\ o2 \in Nat /\ e \in Nat /\ r + o = T
    BY <1>3, <2>1, <2>3 DEF WholeLog
  <2>6. r >= g /\ g \in Int /\ r + 1 > g
    <3>1. r \in Nat /\ T \in Nat
      OBVIOUS
    <3>. QED
      <4>1. g = o2 - o
        BY <2>3
      <4>2. r = T - o
        BY ONLY <2>5, <3>1
      <4>3. o2 <= T
        BY ONLY <2>4, <2>5, <3>1
      <4>. QED
        BY ONLY <2>5, <3>1, <4>1, <4>2, <4>3
  <2>7. bd = G[i].d
    <3>1. CASE r > g
      BY <2>2, <2>3, <3>1 DEF Heard
    <3>2. CASE r = g
      <4>1. bd = Upto(G[i].d, r + 1)
        BY <2>3, <2>6, <3>2 DEF Heard
      <4>2. Len(G[i].d) = r + 1 /\ IsSeq(G[i].d)
        BY <2>1, <2>3, <3>2 DEF WholeLog
      <4>. QED
        BY <4>1, <4>2, UptoAll
    <3>. QED
      BY <2>6, <3>1, <3>2
  <2>8. nb = bd
    BY <1>2, <1>5
  <2>. QED
    BY <2>2, <2>3, <2>6, <2>7, <2>8 DEF Heard
<1>. QED
  BY <1>2, <1>4, <1>5

\* The client's end when it has read a cell.
Inward(w) ==
  /\ SameShape(ClientEnd, w) /\ SameOut(ClientLayers, Layers(w)) /\ LayersOK(Layers(w)) /\ KeysApart(Layers(w))
  /\ Chain(Layers(w)) = ChainOut
  /\ EndFits("client", w) /\ E2EFits(w, C2H, H2C) /\ Len(w.hops) = Known /\ w.pending = ClientEnd.pending
  /\ w.e2e # <<>> <=> ClientEnd.e2e # <<>>
InwardHears(w) ==
  \A i \in 1..Len(ClientLayers) :
     /\ i <= Len(ChainBack) /\ Layers(w)[i].bn = ClientLayers[i].bn + 1 /\ Layers(w)[i].bn \in Nat
     /\ Layers(w)[i].bn + Starts(i) = Read + 1 /\ Heard(ChainBack, i, Layers(w)[i].bn, Layers(w)[i].bd)

LEMMA SameOutKeeps ==
  ASSUME NEW ls, NEW ms, SameOut(ls, ms)
  PROVE  KeysKept(ls, ms) /\ (KeysApart(ls) => KeysApart(ms))
<1>1. Len(ms) = Len(ls) /\ \A i \in 1..Len(ls) : ms[i].fk = ls[i].fk /\ ms[i].bk = ls[i].bk
  BY DEF SameOut
<1>. QED
  BY <1>1 DEF KeysKept, KeysApart

LEMMA ClientInward ==
  ASSUME Good, CellArrives(backward, Client, "relay"), NEW p, p = Head(backward[Client]), NEW w, w = AfterInbound(ClientEnd, p)
  PROVE  Inward(w)
<1>1. Shape /\ ClientOut
  BY DEF Good
<1>2. ClientIs /\ ClientChain
  BY GoodFacts DEF Facts
<1>3. PICK G, ls, T, h, oc, k : G = ChainBack /\ ls = ClientLayers /\ T = Read /\ h = Len(ls) /\ oc = ClientEnd /\ k = Known
  OBVIOUS
<1>4. Known > 0
  BY <1>3, ReadAt
<1>5. ChainIsFor(ClientLayers, Known)
  BY <1>2, <1>4 DEF ClientChain
<1>6. EndLayers(oc, "client", k, C2H, H2C)
  BY <1>2, <1>3 DEF ClientIs
<1>7. Layers(oc) = ls
  BY <1>3 DEF ClientLayers
<1>8. LayersOK(ls) /\ KeysApart(ls) /\ Len(ls) >= 1
  BY <1>3, <1>5 DEF ChainIsFor
<1>9. OriginOK(oc)
  BY <1>6 DEF EndLayers
<1>10. /\ SameShape(oc, w) /\ SameOut(ls, Layers(w)) /\ LayersOK(Layers(w)) /\ Chain(Layers(w)) = Chain(ls)
  <2>1. LayersOK(Layers(oc)) /\ Len(Layers(oc)) >= 1 /\ w = AfterInbound(oc, p)
    BY <1>3, <1>7, <1>8
  <2>2. SameShape(oc, w) /\ SameOut(Layers(oc), Layers(w)) /\ LayersOK(Layers(w)) /\ Chain(Layers(w)) = Chain(Layers(oc))
    BY ONLY <1>9, <2>1, InboundIs
  <2>. QED
    BY <1>7, <2>2
<1>11. KeysKept(ls, Layers(w)) /\ KeysApart(Layers(w))
  BY <1>8, <1>10, SameOutKeeps
<1>12. EndFits("client", w) /\ E2EFits(w, C2H, H2C) /\ Len(w.hops) = k /\ (w.e2e # <<>> <=> oc.e2e # <<>>) /\ w.pending = oc.pending
  <2>1. KeysKept(Layers(oc), Layers(w))
    BY <1>7, <1>11
  <2>2. PICK e, ck, sk : e = "client" /\ ck = C2H /\ sk = H2C
    OBVIOUS
  <2>3. EndLayers(oc, e, k, ck, sk)
    BY <1>6, <2>2
  <2>4. EndFits(e, w) /\ E2EFits(w, ck, sk) /\ Len(w.hops) = k /\ (w.e2e # <<>> <=> oc.e2e # <<>>) /\ w.pending = oc.pending
    BY ONLY <1>10, <2>1, <2>3, FitsAfter
  <2>. QED
    BY <2>2, <2>4
<1>. QED
  BY <1>3, <1>10, <1>11, <1>12 DEF Inward, ChainOut

LEMMA ClientInwardHears ==
  ASSUME Good, CellArrives(backward, Client, "relay"), NEW p, p = Head(backward[Client]), NEW w, w = AfterInbound(ClientEnd, p)
  PROVE  InwardHears(w)
<1>1. PICK G, ls, T, h, oc, k, n : /\ G = ChainBack /\ ls = ClientLayers /\ T = Read /\ h = Len(ls) /\ oc = ClientEnd
                                   /\ k = Known /\ n = Len(G)
  OBVIOUS
<1>2. Known > 0 /\ HeardLast(G, ls, T, h, p.cell) /\ RecognisedBy(oc, p) = {h}
  BY <1>1, ReadAt
<1>3. Abreast(G, ls, T, k, h, n)
  BY <1>1, <1>2, ClientAbreast
<1>4. h \in Nat /\ n \in Nat /\ T \in Nat /\ Len(G) = n /\ ChainOK(G) /\ Len(ls) = h
  BY <1>3 DEF Abreast
<1>5. h \in 1..Len(G) /\ EndsAt(G, h, T) /\ Append(ls[h].bd, p.cell) = Upto(G[h].d, T - G[h].o + 2)
  BY <1>2 DEF HeardLast
<1>6. \A i \in 1..h : TakenIn(ls[i], Layers(w)[i], TRUE, i = Len(ls), p.cell) /\ IsHop(ls[i])
  <2>1. ClientIs /\ ClientChain
    BY GoodFacts DEF Facts
  <2>2. ChainIsFor(ls, k) /\ EndLayers(oc, "client", k, C2H, H2C)
    BY <1>1, <1>2, <2>1 DEF ClientChain, ClientIs
  <2>3. OriginOK(oc)
    BY <2>2 DEF EndLayers
  <2>4. LayersOK(ls) /\ Len(ls) >= 1 /\ \A i \in 1..Len(ls) : IsHop(ls[i])
    BY <2>2 DEF ChainIsFor
  <2>5. Layers(oc) = ls
    BY <1>1 DEF ClientLayers
  <2>6. RecognisedBy(oc, p) = {Len(Layers(oc))} /\ w = AfterInbound(oc, p) /\ LayersOK(Layers(oc)) /\ Len(Layers(oc)) >= 1
    BY <1>1, <1>2, <2>4, <2>5
  <2>7. RecognisedBy(oc, p) = {Len(Layers(oc))} =>
          \A i \in 1..Len(Layers(oc)) : TakenIn(Layers(oc)[i], Layers(w)[i], TRUE, i = Len(Layers(oc)), p.cell)
    BY <2>3, <2>6, InboundIs
  <2>. QED
    BY <1>1, <2>4, <2>5, <2>6, <2>7
<1>7. ASSUME NEW i \in 1..h
      PROVE  /\ i <= n /\ Layers(w)[i].bn = ls[i].bn + 1 /\ Layers(w)[i].bn \in Nat
             /\ Layers(w)[i].bn + Starts(i) = T + 1 /\ Heard(G, i, Layers(w)[i].bn, Layers(w)[i].bd)
  <2>1. i \in 1..n /\ i <= n /\ i \in Nat
    BY <1>4, <1>5
  <2>2. PICK x, m, mine, cell : x = ls[i] /\ m = Layers(w)[i] /\ mine = (i = h) /\ cell = p.cell
    OBVIOUS
  <2>3. x.bn \in Nat /\ x.bn + Starts(i) = T /\ Heard(G, i, x.bn, x.bd) /\ G[i].o = Starts(i)
    BY <1>3, <1>4, <2>1, <2>2 DEF Abreast
  <2>4. TakenIn(x, m, TRUE, mine, cell) /\ IsHop(x)
    BY <1>1, <1>6, <2>2
  <2>5. m.bn = x.bn + 1 /\ m.bd = (IF mine THEN Append(x.bd, cell) ELSE x.bd)
    <3>1. PICK tick : tick = TRUE
      OBVIOUS
    <3>2. TakenIn(x, m, tick, mine, cell)
      BY <2>4, <3>1
    <3>3. m.bn = (IF tick THEN x.bn + 1 ELSE x.bn) /\ m.bd = (IF mine THEN Append(x.bd, cell) ELSE x.bd)
      BY ONLY <2>4, <3>2, TakenHop
    <3>. QED
      BY <3>1, <3>3
  <2>6. PICK r, bd, nb, st : r = x.bn /\ bd = x.bd /\ nb = m.bd /\ st = Starts(i)
    OBVIOUS
  <2>7. r \in Nat /\ r + st = T /\ G[i].o = st /\ r + G[i].o = T /\ Heard(G, i, r, bd) /\ m.bn = r + 1
    BY <2>3, <2>5, <2>6
  <2>8. st \in Nat
    BY <1>4, <2>1, <2>7 DEF ChainOK
  <2>9. i < h => WholeLog(G, i)
    <3>1. SUFFICES ASSUME i < h PROVE WholeLog(G, i)
      OBVIOUS
    <3>2. h <= n
      BY <1>4, <1>5
    <3>. QED
      BY <1>1, <1>2, <3>1, <3>2, LogsWhole DEF WholeLog
  <2>10. Append(bd, cell) = Upto(G[h].d, T - G[h].o + 2) \/ i # h
    BY <1>5, <2>2, <2>6
  <2>11. nb = IF i = h THEN Append(bd, cell) ELSE bd
    BY <2>2, <2>5, <2>6
  <2>12. Heard(G, i, r + 1, nb)
    <3>1. ChainOK(G) /\ T \in Nat /\ h \in 1..Len(G) /\ EndsAt(G, h, T) /\ i \in 1..h
      BY <1>4, <1>5
    <3>2. r \in Nat /\ r + G[i].o = T /\ Heard(G, i, r, bd)
      BY <2>7
    <3>. QED
      BY ONLY <3>1, <3>2, <2>9, <2>10, <2>11, HeardNext
  <2>13. (r + 1) + st = T + 1 /\ r + 1 \in Nat
    BY ONLY <1>4, <2>7, <2>8
  <2>. QED
    BY <2>1, <2>2, <2>6, <2>7, <2>12, <2>13
<1>. QED
  BY <1>1, <1>4, <1>7 DEF InwardHears

\* A step that reads one cell from the client's first leg and leaves it v.
ReadStep(v) ==
  /\ origin' = [origin EXCEPT !["client"] = v] /\ Loses(backward, backward', Client)
  /\ UNCHANGED <<relays, forward, held, tables, fetching, intro, rendezvousing, excuses>> /\ (lost' => lost)
Readable(w) ==
  /\ CellArrives(backward, Client, "relay") /\ Inward(w) /\ InwardHears(w)

LEMMA ReadRest ==
  ASSUME Good, NEW v, ReadStep(v), EndFits("client", v), E2EFits(v, C2H, H2C)
  PROVE  /\ Shape' /\ ClientEnd' = v /\ SameService /\ RelaysSame /\ ServiceWayOut' /\ Tables'
         /\ ClientLayers' = Layers(v) /\ \A l \in Leg : l # Client => backward'[l] = backward[l]
<1>1. Shape /\ ServiceWayOut
  BY DEF Good
<1>2. ServiceChain
  BY GoodFacts DEF Facts
<1>3. UNCHANGED <<relays, forward, held>> /\ Loses(backward, backward', Client)
  BY DEF ReadStep
<1>4. Tables'
  <2>1. forward = [l \in Leg |-> forward[l]] /\ held = [t \in OnionTask |-> held[t]]
    BY <1>1 DEF Shape
  <2>2. backward' = [l \in Leg |-> backward'[l]]
    BY <1>3 DEF Loses
  <2>. QED
    BY <1>3, <2>1, <2>2 DEF Tables
<1>5. Shape' /\ ClientEnd' = v /\ SameService /\ RelaysSame
  <2>1. origin' = [origin EXCEPT !["client"] = v] /\ relays' = relays
    BY DEF ReadStep
  <2>. QED
    BY ONLY <1>1, <1>4, <2>1, EndFits("client", v), E2EFits(v, C2H, H2C), ClientChanges
<1>6. MeetOutStill
  BY <1>3, <1>5 DEF MeetOutStill, RelaysSame
<1>7. ServiceWayOut'
  BY <1>1, <1>2, <1>5, <1>6, ServiceWayOutStays
<1>8. ClientLayers' = Layers(v)
  BY <1>5 DEF ClientLayers
<1>9. \A l \in Leg : l # Client => backward'[l] = backward[l]
  BY <1>3 DEF Loses
<1>. QED
  BY <1>4, <1>5, <1>7, <1>8, <1>9

\* The client's end says what it said.
SaidSame(w) ==
  /\ Chain(Layers(w)) = ChainOut /\ Len(w.hops) = Known /\ Layers(w)[1].fn = Sent /\ Layers(w)[1].bn = Read + 1
  /\ w.e2e # <<>> <=> ClientEnd.e2e # <<>>
  /\ ClientEnd.e2e # <<>> => w.e2e[1].fd = ClientEnd.e2e[1].fd
  /\ \A i \in 1..Known : Layers(w)[i].fd = ClientLayers[i].fd

LEMMA InwardSays ==
  ASSUME Good, NEW w, Readable(w)
  PROVE  SaidSame(w)
<1>1. Shape
  BY DEF Good
<1>2. ClientIs
  BY GoodFacts DEF Facts
<1>3. Inward(w) /\ InwardHears(w)
  BY DEF Readable
<1>4. PICK ls, ms, k : ls = ClientLayers /\ ms = Layers(w) /\ k = Known
  OBVIOUS
<1>5. Known > 0
  BY ReadAt DEF Readable
<1>6. SameOut(ls, ms) /\ SameShape(ClientEnd, w) /\ Len(w.hops) = k /\ Chain(ms) = ChainOut
      /\ (w.e2e # <<>> <=> ClientEnd.e2e # <<>>)
  BY <1>3, <1>4 DEF Inward
<1>7. /\ k \in Nat /\ k >= 1 /\ k <= Len(ls) /\ Len(ls) \in Nat /\ Len(ls) = k + Len(ClientEnd.e2e)
      /\ (ClientEnd.e2e # <<>> => Len(ClientEnd.e2e) = 1 /\ ls[k + 1] = ClientEnd.e2e[1])
      /\ (ClientEnd.e2e # <<>> <=> Len(ClientEnd.e2e) = 1) /\ Len(ClientEnd.e2e) \in 0..1
  BY <1>2, <1>4, <1>5 DEF ClientIs, EndLayers, ClientLayers
<1>8. \A i \in 1..Len(ls) : ms[i].fn = ls[i].fn /\ ms[i].fd = ls[i].fd
  BY <1>6 DEF SameOut
<1>9. 1 \in 1..Len(ls)
  BY <1>7
<1>10. ms[1].fn = Sent
  BY <1>4, <1>8, <1>9 DEF Sent
<1>11. ms[1].bn = Read + 1
  BY <1>3, <1>4, <1>9 DEF InwardHears, Read
<1>12. ASSUME ClientEnd.e2e # <<>> PROVE w.e2e[1].fd = ClientEnd.e2e[1].fd
  <2>1. Len(ClientEnd.e2e) = 1 /\ ls[k + 1] = ClientEnd.e2e[1] /\ k + 1 \in 1..Len(ls)
    BY <1>7, <1>12
  <2>2. 1 \in 1..Len(ClientEnd.e2e)
    BY <2>1
  <2>3. w.e2e[1] = ms[Len(ClientEnd.hops) + 1]
    BY <1>4, <1>6, <2>2 DEF SameShape
  <2>4. Len(ClientEnd.hops) = k
    BY <1>4 DEF Known
  <2>. QED
    BY <1>8, <2>1, <2>3, <2>4
<1>13. \A i \in 1..k : ms[i].fd = ls[i].fd
  BY <1>7, <1>8
<1>. QED
  BY <1>4, <1>6, <1>10, <1>11, <1>12, <1>13 DEF SaidSame

\* The client's queues on the way out, and the service's leg, as they were.
LEMMA ReadSays ==
  ASSUME Good, NEW w, Readable(w), ReadStep(w)
  PROVE  /\ Known' = Known /\ ChainOut' = ChainOut /\ Sent' = Sent /\ Read' = Read + 1 /\ MeetBack' = MeetBack
         /\ Shape' /\ ClientEnd' = w /\ SameService /\ RelaysSame /\ ServiceWayOut' /\ ClientLayers' = Layers(w)
         /\ CircuitsStay /\ ClientSaid' /\ (ClientEnd'.e2e = <<>> <=> ClientEnd.e2e = <<>>)
<1>1. Shape /\ Contents
  BY DEF Good
<1>2. Inward(w) /\ SaidSame(w)
  BY InwardSays DEF Readable
<1>3. EndFits("client", w) /\ E2EFits(w, C2H, H2C) /\ w.pending = ClientEnd.pending
  BY <1>2 DEF Inward
<1>4. Shape' /\ ClientEnd' = w /\ SameService /\ RelaysSame /\ ServiceWayOut' /\ ClientLayers' = Layers(w)
  BY <1>3, ReadRest
<1>5. Known' = Known
  BY <1>2, <1>4 DEF Known, SaidSame
<1>6. ChainOut' = ChainOut
  BY <1>2, <1>4 DEF ChainOut, SaidSame
<1>7. Sent' = Sent /\ Read' = Read + 1
  BY <1>2, <1>4 DEF Sent, Read, SaidSame
<1>8. ClientEnd'.e2e = <<>> <=> ClientEnd.e2e = <<>>
  BY <1>2, <1>4 DEF SaidSame
<1>9. MeetBack' = MeetBack
  <2>1. CASE ClientEnd.e2e = <<>>
    <3>1. ClientEnd'.e2e = <<>>
      BY <1>8, <2>1
    <3>. QED
      BY <2>1, <3>1 DEF MeetBack, BK, Meet, C2H, Meeting, ServiceKey
  <2>2. CASE ClientEnd.e2e # <<>>
    <3>1. ClientEnd'.e2e # <<>> /\ ClientEnd'.e2e[1].fd = ClientEnd.e2e[1].fd
      BY <1>2, <1>4, <1>8, <2>2 DEF SaidSame
    <3>. QED
      BY <2>2, <3>1 DEF MeetBack, BK, Meet, C2H, Meeting, ServiceKey
  <2>. QED
    BY <2>1, <2>2
<1>10. CircuitsStay
  <2>1. \A e \in OriginEnd : e = "client" \/ e = "service"
    BY DEF OriginEnd
  <2>2. origin'["client"] = w /\ origin'["service"] = origin["service"]
    BY <1>4 DEF ClientEnd, ServiceEnd, SameService
  <2>3. Len(origin'["client"].hops) = Len(origin["client"].hops) /\ origin'["client"].pending = origin["client"].pending
    BY <1>2, <1>3, <2>2 DEF SaidSame, Known, ClientEnd
  <2>. QED
    BY <2>1, <2>2, <2>3 DEF CircuitsStay
<1>11. ClientSaid'
  <2>1. fetching' = fetching
    BY DEF ReadStep
  <2>2. \A i \in 1..Known : ClientLayers'[i].fd = ClientLayers[i].fd
    BY <1>2, <1>4 DEF SaidSame
  <2>3. ClientEnd'.pending = ClientEnd.pending
    BY <1>3, <1>4
  <2>4. ASSUME NEW i \in 1..Known'
        PROVE  /\ \A q \in 2..Len(ClientLayers[i].fd)' : ExtendSaid(i, ClientLayers[i].fd[q])'
               /\ EstablishSaid(ClientLayers[i].fd)'
    <3>1. i \in 1..Known
      BY <1>5
    <3>2. (\A q \in 2..Len(ClientLayers[i].fd) : ExtendSaid(i, ClientLayers[i].fd[q])) /\ EstablishSaid(ClientLayers[i].fd)
      BY <1>1, <3>1 DEF Contents
    <3>3. PICK d : d = ClientLayers[i].fd
      OBVIOUS
    <3>4. ClientLayers'[i].fd = d
      BY <2>2, <3>1, <3>3
    <3>5. \A q \in 2..Len(d) : ExtendSaid(i, d[q])'
      BY <1>5, <2>3, <3>2, <3>3 DEF ExtendSaid, LegTo
    <3>6. EstablishSaid(d)'
      BY <2>1, <3>2, <3>3 DEF EstablishSaid
    <3>. QED
      BY <3>4, <3>5, <3>6 DEF ExtendSaid, EstablishSaid, LegTo
  <2>5. (ClientEnd.e2e # <<>> => ClientEnd.e2e[1].fd[1] = C2H)'
    <3>1. ClientEnd.e2e # <<>> => ClientEnd.e2e[1].fd[1] = C2H
      BY <1>1 DEF Contents
    <3>2. ClientEnd.e2e # <<>> => w.e2e[1].fd = ClientEnd.e2e[1].fd
      BY <1>2 DEF SaidSame
    <3>. QED
      BY <1>4, <1>8, <3>1, <3>2 DEF C2H, Meeting, ServiceKey
  <2>. QED
    BY <2>4, <2>5 DEF ClientSaid
<1>. QED
  BY <1>4, <1>5, <1>6, <1>7, <1>8, <1>9, <1>10, <1>11

\* The client's way back once its reader has taken the first leg's first cell.
LEMMA ReadLine ==
  ASSUME Good, Known > 0, CellArrives(backward, Client, "relay"), Loses(backward, backward', Client), Shape,
         NEW G, G = ChainBack, NEW k, k = Known, NEW w, w = Read, NEW x, x = held["clientReader"],
         NEW y, y = held["serviceReader"], NEW R, R = Relayed, NEW Q, Q = BackQueues, NEW Q2,
         \A i \in 1..k : Q2[i] = backward'[LegTo(i)]
  PROVE  BackLine(G, k, w + 1, x, y, R, Q2) /\ w \in Nat /\ w < BackTurn(G, w, R, k)
         /\ BackTurn(G, w + 1, R, k) = BackTurn(G, w, R, k)
<1>1. ClientBack
  BY DEF Good
<1>2. BackIs
  BY GoodFacts DEF Facts
<1>3. k \in Nat /\ k >= 1 /\ Client = LegTo(1) /\ \A i \in 1..k : LegTo(i) \in Leg /\ i \in Int
  BY KnownIs
<1>4. ChainOK(G) /\ k <= Len(G)
  BY <1>2 DEF BackIs
<1>5. BackLine(G, k, w, x, y, R, Q)
  BY <1>1 DEF ClientBack
<1>6. 1 \in 1..k
  BY <1>3
<1>7. Q[1] # <<>> /\ Q[1] = backward[Client]
  <2>1. Q[1] = backward[LegTo(1)]
    BY <1>6, RelayedIs
  <2>. QED
    BY <1>3, <2>1 DEF CellArrives
<1>8. Q2[1] = Tail(Q[1])
  BY <1>3, <1>6, <1>7 DEF Loses
<1>9. \A i \in 2..k : Q2[i] = Q[i]
  <2>1. ASSUME NEW i \in 2..k PROVE Q2[i] = Q[i]
    <3>1. i \in 1..k /\ i # 1 /\ i \in Int /\ i \in 1..Known
      BY <1>3
    <3>2. LegTo(i) # LegTo(1) /\ LegTo(i) \in Leg
      BY <1>3, <3>1, LegApart
    <3>3. backward'[LegTo(i)] = backward[LegTo(i)]
      BY <1>3, <3>2 DEF Loses
    <3>4. Q[i] = backward[LegTo(i)]
      BY <3>1, RelayedIs
    <3>. QED
      BY <3>1, <3>3, <3>4
  <2>. QED
    BY <2>1
<1>10. BackLine(G, k, w + 1, x, y, R, Q2) /\ w \in Nat /\ w < BackTurn(G, w, R, k) /\ BackTurn(G, w + 1, R, k) = BackTurn(G, w, R, k)
  BY ONLY <1>3, <1>4, <1>5, <1>7, <1>8, <1>9, BackLineRead
<1>. QED
  BY <1>10

LEMMA ReadPlainGood ==
  ASSUME Good, NEW w, Readable(w), ReadStep(w), Read + 1 > PathLen => ClientEnd.e2e # <<>>,
         meeting' = meeting \/ (meeting' = NoKey /\ ClientEnd.e2e # <<>>)
  PROVE  Good'
<1>1. /\ Shape /\ Building /\ ClientOut /\ ServiceWayOut /\ RelaysSaid /\ ClientHears /\ ClientBack
      /\ Bridged /\ ServiceBack /\ Control /\ Contents /\ Timely
  BY DEF Good
<1>2. ClientIs /\ ServiceIs /\ ClientChain /\ BackIs /\ MeetBackIs
  BY GoodFacts DEF Facts
<1>3. /\ Known' = Known /\ ChainOut' = ChainOut /\ Sent' = Sent /\ Read' = Read + 1 /\ MeetBack' = MeetBack
      /\ Shape' /\ ClientEnd' = w /\ SameService /\ RelaysSame /\ ServiceWayOut' /\ ClientLayers' = Layers(w)
      /\ CircuitsStay /\ ClientSaid' /\ (ClientEnd'.e2e = <<>> <=> ClientEnd.e2e = <<>>)
  BY ReadSays
<1>4. CellArrives(backward, Client, "relay") /\ Inward(w) /\ InwardHears(w)
  BY DEF Readable
<1>5. Loses(backward, backward', Client) /\ UNCHANGED <<relays, forward, held, tables, fetching, intro, rendezvousing, excuses>> /\ (lost' => lost)
  BY DEF ReadStep
<1>6. Known > 0
  BY <1>4, ReadAt
<1>7. /\ Known \in Nat /\ Known >= 1 /\ Known <= PathLen /\ PathLen \in Nat /\ PathLen >= 1 /\ Client = LegTo(1) /\ Client \in Leg
      /\ Meet \in Leg /\ Client # Meet /\ 1 \in 1..Known
  <2>1. /\ Known \in Nat /\ Known <= PathLen /\ PathLen \in Nat /\ PathLen >= 1 /\ Client = LegTo(1) /\ Meet \in Leg
    BY <1>1, KnownIs
  <2>2. 1 \in 1..PathLen /\ 1 \in 1..Known /\ Known >= 1
    BY <1>6, <2>1
  <2>. QED
    BY <2>1, <2>2, LegIs, LegApart
<1>8. ServiceEnd' = ServiceEnd /\ ServiceLayers' = ServiceLayers
  BY <1>3 DEF SameService
<1>9. /\ MeetHop' = MeetHop /\ (\A i : RelayHop(i)' = RelayHop(i)) /\ Steps({}) /\ StagesStay
  BY <1>3 DEF RelaysSame
<1>10. ChainBack' = ChainBack
  BY <1>3, <1>8, <1>9, ChainBackStays DEF SaidStill
<1>11. \A l \in Leg : l # Client => backward'[l] = backward[l]
  BY <1>5 DEF Loses
<1>12. Building'
  <2>1. PICK Z : Z = {Client}
    OBVIOUS
  <2>2. Steps(Z)
    BY <1>9, <2>1 DEF Steps
  <2>3. TouchOnly(Z)
    BY <1>5, <1>11, <2>1 DEF TouchOnly
  <2>4. Near(Z)
    <3>1. \A i \in 1..PathLen : LegTo(i) = LegTo(1) => i = 1
      BY <1>7, LegApart
    <3>. QED
      BY <1>7, <2>1, <3>1 DEF Near
  <2>. QED
    BY <1>1, <1>3, <1>9, <2>2, <2>3, <2>4, BuildingStays
<1>13. ClientOut'
  <2>1. Relayed' = Relayed /\ OutQueues' = OutQueues
    BY <1>3, <1>5, <1>9 DEF Relayed, OutQueues, LegTo
  <2>2. held'["fetch"] = held["fetch"] /\ held'["pump"] = held["pump"]
    BY <1>5
  <2>3. LayersOK(ClientLayers')
    BY <1>3, <1>4 DEF Inward
  <2>4. OutLine(ChainOut', Known', Sent', held'["fetch"], held'["pump"], Relayed', OutQueues')
    <3>1. OutLine(ChainOut, Known, Sent, held["fetch"], held["pump"], Relayed, OutQueues)
      BY <1>1, <1>6 DEF ClientOut
    <3>. QED
      BY <1>3, <2>1, <2>2, <3>1
  <2>. QED
    BY <1>3, <1>6, <2>3, <2>4 DEF ClientOut
<1>14. RelaysSaid'
  <2>1. cookie' = cookie
    BY <1>5 DEF tables
  <2>2. SaidStill /\ RelayHop(Known)'.bn = RelayHop(Known).bn
    <3>1. SaidStill
      BY <1>9 DEF SaidStill
    <3>2. PICK k : k = Known
      OBVIOUS
    <3>3. RelayHop(k)' = RelayHop(k)
      BY <1>9
    <3>. QED
      BY <1>3, <3>1, <3>2, <3>3, AtKnown
  <2>. QED
    BY <1>1, <1>2, <1>3, <1>9, <2>1, <2>2, RelaysSaidStays
<1>15. ClientHears'
  <2>1. PICK G, ls, ms, h, T : G = ChainBack /\ ls = ClientLayers /\ ms = Layers(w) /\ h = Len(ls) /\ T = Read
    OBVIOUS
  <2>2. Len(ms) = h
    BY <1>4, <2>1 DEF Inward, SameOut
  <2>3. ClientLayers' = ms /\ ChainBack' = G /\ ms[1].bn = T + 1
    BY <1>3, <1>10, <2>1 DEF Read
  <2>4. ASSUME NEW i \in 1..h PROVE ClientHeard(i)'
    <3>1. i <= Len(G) /\ ms[i].bn + Starts(i) = T + 1 /\ Heard(G, i, ms[i].bn, ms[i].bd)
      BY <1>4, <2>1 DEF InwardHears
    <3>2. i \in Nat
      BY <2>1, <2>4
    <3>3. ~(i > Len(G))
      <4>1. Len(G) \in Nat
        BY <1>2, <2>1 DEF BackIs
      <4>. QED
        BY <3>1, <3>2, <4>1
    <3>4. PICK e : e = ms[i]
      OBVIOUS
    <3>5. ClientLayers'[i] = e /\ ClientLayers'[1].bn = T + 1
      BY <2>3, <3>4
    <3>6. e.bn + Starts(i) = ClientLayers'[1].bn /\ ~(i > Len(ChainBack')) /\ Heard(ChainBack', i, e.bn, e.bd)
      BY <2>3, <3>1, <3>3, <3>4, <3>5
    <3>. QED
      BY <3>5, <3>6 DEF ClientHeard, Starts
  <2>5. Len(ClientLayers') = h
    BY <2>2, <2>3
  <2>. QED
    BY <2>4, <2>5 DEF ClientHears
<1>16. ClientBack'
  <2>1. PICK G, k, v, x, y, R, Q : G = ChainBack /\ k = Known /\ v = Read /\ x = held["clientReader"] /\ y = held["serviceReader"]
                                    /\ R = Relayed /\ Q = BackQueues
    OBVIOUS
  <2>2. PICK Q2 : Q2 = BackQueues'
    OBVIOUS
  <2>3. \A i \in 1..k : Q2[i] = backward'[LegTo(i)]
    BY <1>3, <2>1, <2>2, RelayedIs
  <2>4. BackLine(G, k, v + 1, x, y, R, Q2)
    BY <1>1, <1>4, <1>5, <1>6, <2>1, <2>3, ReadLine
  <2>5. Relayed' = Relayed
    BY <1>3, <1>9 DEF Relayed
  <2>6. held' = held
    BY <1>5
  <2>7. BackLine(ChainBack', Known', Read', held'["clientReader"], held'["serviceReader"], Relayed', BackQueues')
    BY <1>3, <1>10, <2>1, <2>2, <2>4, <2>5, <2>6
  <2>8. Known' < PathLen => Free("clientReader")' /\ Free("serviceReader")'
    BY <1>1, <1>3, <2>6 DEF ClientBack, Free
  <2>. QED
    BY <2>7, <2>8 DEF ClientBack
<1>17. Bridged'
  <2>1. Meet' = Meet /\ relays' = relays
    BY <1>5 DEF Meet
  <2>2. Passed(PathLen)' = Passed(PathLen)
    BY <1>3, <1>9 DEF Passed
  <2>. QED
    BY <1>1, <1>3, <1>9, <2>1, <2>2 DEF Bridged
<1>18. ServiceBack'
  <2>1. backward'[Meet] = backward[Meet]
    BY <1>7, <1>11
  <2>2. MeetBackStill
    BY <1>9, <2>1 DEF MeetBackStill
  <2>. QED
    BY <1>1, <1>2, <1>3, <1>8, <2>2, ServiceBackStays
<1>19. Timely'
  <2>1. excuses' = excuses /\ (lost' => lost)
    BY <1>5
  <2>. QED
    BY <1>1, <1>3, <1>8, <2>1 DEF Timely, C2H, Meeting, ServiceKey
<1>20. Contents'
  <2>1. rendezvousing' = rendezvousing
    BY <1>5
  <2>2. (Len(ServiceEnd.hops) = 1 =>
          ServiceEnd.hops[1].fd = IF rendezvousing \in {"sent", "installed"} THEN <<FK(Meet), Rendezvous1>> ELSE <<FK(Meet)>>)'
    BY <1>1, <1>8, <2>1 DEF Contents, FK, Meet, Rendezvous1, ServiceKey, Auth, Meeting
  <2>3. (ServiceEnd.e2e # <<>> =>
          /\ ServiceEnd.e2e[1].fd[1] = H2C
          /\ \A q \in 2..Len(ServiceEnd.e2e[1].fd) : ServiceEnd.e2e[1].fd[q][1] = "answer")'
    BY <1>1, <1>8 DEF Contents, H2C, Meeting, ServiceKey
  <2>. QED
    BY <1>3, <2>2, <2>3 DEF Contents, ClientSaid
<1>21. Control'
  <2>1. UNCHANGED <<fetching, intro, rendezvousing, cookie, bridged>>
    BY <1>5 DEF tables
  <2>2. ClientEnd'.pending = ClientEnd.pending
    BY <1>3, <1>4 DEF Inward
  <2>3. NoKey' = NoKey /\ Meeting' = Meeting
    BY DEF NoKey, Meeting
  <2>4. meeting' = IF ClientEnd'.e2e = <<>> /\ fetching \in {"established", "introduced"} THEN Meeting ELSE NoKey
    BY <1>1, <1>3 DEF Control
  <2>5. Read' > PathLen => ClientEnd'.e2e # <<>>
    BY <1>3
  <2>6. PointEstablished' <=> PointEstablished
    BY <1>9 DEF PointEstablished
  <2>. QED
    BY <1>1, <1>3, <1>8, <1>9, <2>1, <2>2, <2>3, <2>4, <2>5, <2>6 DEF Control, PointEstablished
<1>. QED
  BY <1>3, <1>12, <1>13, <1>14, <1>15, <1>16, <1>17, <1>18, <1>19, <1>20, <1>21 DEF Good
=============================================================================

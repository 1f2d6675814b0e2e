------------------------- MODULE OnionLayers_proofs -------------------------
(***************************************************************************)
(* What the onion layers guarantee: the invariant holds, and while it does *)
(* every two keepers of a layer are in step.                               *)
(***************************************************************************)
EXTENDS OnionSteps_proofs

WhatRead(cell) ==
  \/ /\ cell = Extended2(Known) /\ Known < PathLen /\ ClientEnd.e2e = <<>> /\ Read = Known - 1
     /\ LegTo(Known + 1) \in DOMAIN relays /\ ~relays[LegTo(Known)].awaiting
  \/ cell = Rendezvous2 /\ Known = PathLen /\ ClientEnd.e2e = <<>> /\ Read = PathLen /\ cookie = "used"
  \/ cell[1] \notin {"extended2", "rendezvous2"} /\ (Read + 1 > PathLen => ClientEnd.e2e # <<>>)

\* What the client reads is what the relay at the end of its circuit, or the service
\* beyond it, said next.
LEMMA ReadWhat ==
  ASSUME Good, CellArrives(backward, Client, "relay"), NEW p, p = Head(backward[Client])
  PROVE  WhatRead(p.cell)
<1>1. Contents /\ Shape
  BY DEF Good
<1>2. BackIs
  BY GoodFacts DEF Facts
<1>3. PICK G, ls, T, h, oc, k, n, c : /\ G = ChainBack /\ ls = ClientLayers /\ T = Read /\ h = Len(ls) /\ oc = ClientEnd
                                      /\ k = Known /\ n = Len(G) /\ c = p.cell
  OBVIOUS
<1>4. Known > 0 /\ HeardLast(G, ls, T, h, c)
  BY <1>3, ReadAt
<1>5. Abreast(G, ls, T, k, h, n) /\ (h = k <=> ClientEnd.e2e = <<>>) /\ (n = k <=> ServiceEnd.e2e = <<>>)
  BY <1>3, <1>4, ClientAbreast
<1>6. /\ h \in Nat /\ n \in Nat /\ T \in Nat /\ k \in Nat /\ k >= 1 /\ k <= PathLen /\ PathLen \in Nat
      /\ (h = k \/ (h = k + 1 /\ k = PathLen)) /\ (n = k \/ (n = k + 1 /\ k = PathLen)) /\ Len(G) = n
  BY <1>5 DEF Abreast
<1>7. /\ c = G[h].d[T - G[h].o + 2] /\ h \in 1..n /\ G[h].o <= T /\ T - G[h].o + 2 <= Len(G[h].d)
  BY <1>4, <1>6 DEF HeardLast, EndsAt
<1>8. PICK q, z, o : q = T - G[h].o + 2 /\ z = Len(G[h].d) /\ o = G[h].o
  OBVIOUS
<1>9. c = G[h].d[q] /\ q = T - o + 2 /\ o <= T /\ q <= z /\ o = Starts(h)
  BY <1>5, <1>7, <1>8 DEF Abreast
<1>10. CASE h = k
  <2>1. o = k - 1
    BY <1>6, <1>9, <1>10 DEF Starts
  <2>2. q >= 2 /\ q = T - k + 3 /\ q \in Int
    BY ONLY <1>6, <1>9, <2>1
  <2>3. G[h].d = SaidAt(k) /\ z = Len(SaidAt(k)) /\ c = SaidAt(k)[q]
    <3>1. k \in 1..k
      BY <1>6
    <3>2. G[k].d = SaidAt(k)
      BY <1>5, <3>1 DEF Abreast
    <3>. QED
      BY <1>8, <1>9, <1>10, <3>2
  <2>4. PICK s : s = SaidAt(k)
    OBVIOUS
  <2>5. z = Len(s) /\ c = s[q]
    BY <2>3, <2>4
  <2>6. PICK u, v, e, r : u = BK(LegTo(k)) /\ v = Extended2(k) /\ e = Established /\ r = Rendezvous2
    OBVIOUS
  <2>7. CASE k < PathLen
    <3>1. \/ s = <<u, v>> /\ LegTo(k + 1) \in DOMAIN relays /\ ~relays[LegTo(k)].awaiting
          \/ s = <<u>>
      BY <1>3, <1>6, <2>4, <2>6, <2>7 DEF SaidAt
    <3>2. s # <<u>>
      <4>1. SUFFICES ASSUME s = <<u>> PROVE FALSE
        OBVIOUS
      <4>2. z = 1
        BY <2>5, <4>1, OneIs
      <4>. QED
        BY <1>9, <2>2, <4>2
    <3>3. s = <<u, v>> /\ LegTo(k + 1) \in DOMAIN relays /\ ~relays[LegTo(k)].awaiting
      BY <3>1, <3>2
    <3>4. z = 2 /\ s[2] = v
      BY <2>5, <3>3, TwoIs
    <3>5. q = 2
      BY <1>9, <2>2, <3>4
    <3>6. c = v /\ T = k - 1
      BY <1>6, <2>2, <2>5, <3>4, <3>5
    <3>. QED
      BY <1>3, <1>5, <1>10, <2>6, <2>7, <3>3, <3>6 DEF WhatRead
  <2>8. CASE k = PathLen
    <3>1. s = CASE cookie = "none" -> <<u>> [] cookie = "held" -> <<u, e>> [] OTHER -> <<u, e, r>>
      BY <1>3, <1>6, <2>4, <2>6, <2>8 DEF SaidAt
    <3>2. cookie # "none"
      <4>1. SUFFICES ASSUME cookie = "none" PROVE FALSE
        OBVIOUS
      <4>2. s = <<u>>
        BY <3>1, <4>1
      <4>3. z = 1
        BY <2>5, <4>2, OneIs
      <4>. QED
        BY <1>9, <2>2, <4>3
    <3>3. CASE q = 2
      <4>1. c = e
        <5>1. CASE cookie = "held"
          <6>1. s = <<u, e>>
            BY <3>1, <5>1
          <6>. QED
            BY <2>5, <3>3, <6>1, TwoIs
        <5>2. CASE cookie # "held"
          <6>1. s = <<u, e, r>>
            BY <3>1, <3>2, <5>2
          <6>. QED
            BY <2>5, <3>3, <6>1
        <5>. QED
          BY <5>1, <5>2
      <4>2. c[1] = "established"
        BY <2>6, <4>1 DEF Established
      <4>3. T + 1 = PathLen
        BY <1>6, <2>2, <2>8, <3>3
      <4>. QED
        BY <1>3, <1>6, <4>2, <4>3 DEF WhatRead
    <3>4. CASE q # 2
      <4>1. cookie # "held"
        <5>1. SUFFICES ASSUME cookie = "held" PROVE FALSE
          OBVIOUS
        <5>2. s = <<u, e>>
          BY <3>1, <5>1
        <5>3. z = 2
          BY <2>5, <5>2, TwoIs
        <5>. QED
          BY <1>9, <2>2, <3>4, <5>3
      <4>2. s = <<u, e, r>>
        BY <3>1, <3>2, <4>1
      <4>3. z = 3
        BY <2>5, <4>2, ThreeIs
      <4>4. q = 3
        BY <1>9, <2>2, <3>4, <4>3
      <4>5. c = r
        BY <2>5, <4>2, <4>4
      <4>6. T = PathLen
        BY <1>6, <2>2, <2>8, <4>4
      <4>7. cookie = "used"
        <5>1. cookie \in {"none", "held", "used"}
          BY DEF Good, Control
        <5>. QED
          BY <3>2, <4>1, <5>1
      <4>. QED
        BY <1>3, <1>5, <1>10, <2>6, <2>8, <4>5, <4>6, <4>7 DEF WhatRead
    <3>. QED
      BY <3>3, <3>4
  <2>. QED
    BY <1>6, <2>7, <2>8
<1>11. CASE h # k
  <2>1. h = k + 1 /\ k = PathLen /\ n = k + 1 /\ ServiceEnd.e2e # <<>> /\ ClientEnd.e2e # <<>>
    <3>1. h = k + 1 /\ k = PathLen
      BY <1>6, <1>11
    <3>2. h <= n
      BY <1>6, <1>7
    <3>3. n = k + 1
      BY <1>6, <3>1, <3>2
    <3>4. n # k
      BY <1>6, <3>3
    <3>. QED
      BY <1>5, <1>11, <3>1, <3>3, <3>4
  <2>2. G[h].d = ServiceEnd.e2e[1].fd
    BY <1>2, <1>3, <2>1 DEF BackIs
  <2>3. PICK d : d = ServiceEnd.e2e[1].fd
    OBVIOUS
  <2>4. \A i \in 2..Len(d) : d[i][1] = "answer"
    BY <1>1, <2>1, <2>3 DEF Contents
  <2>5. z = Len(d) /\ c = d[q]
    BY <1>8, <1>9, <2>2, <2>3
  <2>6. q \in 2..z
    <3>1. o \in Nat
      BY <1>6, <1>9, <2>1 DEF Starts
    <3>2. q >= 2 /\ q \in Int
      BY ONLY <1>6, <1>9, <3>1
    <3>3. z \in Nat
      <4>1. IsSeq(G[h].d)
        BY <1>5, <1>6, <1>7 DEF Abreast, ChainOK
      <4>. QED
        BY <1>8, <4>1, IsSeqShape
    <3>. QED
      BY <1>9, <3>2, <3>3
  <2>7. c[1] = "answer"
    BY <2>4, <2>5, <2>6
  <2>. QED
    BY <1>3, <2>1, <2>7 DEF WhatRead
<1>. QED
  BY <1>10, <1>11

ExtendedBy(w, v) ==
  /\ v.hops = Append(w.hops, HopState(FK(LegTo(Known + 1)), BK(LegTo(Known + 1)))) /\ v.e2e = w.e2e
  /\ v.pending = NoKey /\ v = [hops |-> v.hops, e2e |-> v.e2e, pending |-> v.pending]
MetBy(w, v) ==
  /\ v.hops = w.hops /\ v.e2e = <<HopState(C2H, H2C)>> /\ v.pending = w.pending
  /\ v = [hops |-> v.hops, e2e |-> v.e2e, pending |-> v.pending]

LEMMA FinishedIs ==
  ASSUME NEW w, OriginOK(w), NEW l, l # NoKey, w.pending = l, NEW rep, rep = [y |-> l, auth |-> Auth(l, l)],
         NEW v, v = Finished(w, rep)
  PROVE  /\ v.hops = Append(w.hops, HopState(FK(l), BK(l))) /\ v.e2e = w.e2e
         /\ v.pending = NoKey /\ v = [hops |-> v.hops, e2e |-> v.e2e, pending |-> v.pending]
<1>1. w = [hops |-> w.hops, e2e |-> w.e2e, pending |-> w.pending]
  BY DEF OriginOK
<1>2. rep.y = l /\ rep.auth = Auth(l, l)
  OBVIOUS
<1>3. AuthHolds(w.pending, rep)
  BY <1>2 DEF AuthHolds
<1>4. from_ntor(NtorKeys(l, l)) = HopState(FK(l), BK(l))
  BY DEF from_ntor, NtorKeys, FK, BK
<1>5. PICK hs, es, pe, h : hs = w.hops /\ es = w.e2e /\ pe = w.pending /\ h = HopState(FK(l), BK(l))
  OBVIOUS
<1>6. w = [hops |-> hs, e2e |-> es, pending |-> pe]
  BY <1>1, <1>5
<1>7. v = [w EXCEPT !.hops = Append(@, h), !.pending = NoKey]
  BY <1>2, <1>3, <1>4, <1>5 DEF Finished
<1>8. PICK nh, no : nh = Append(hs, h) /\ no = NoKey
  OBVIOUS
<1>9. v = [hops |-> nh, e2e |-> es, pending |-> no]
  BY <1>6, <1>7, <1>8
<1>. QED
  BY <1>5, <1>8, <1>9

LEMMA MetIs ==
  ASSUME NEW w, OriginOK(w), NEW v, v = Met(w, Meeting, ServiceKey, Auth(Meeting, ServiceKey))
  PROVE  MetBy(w, v)
<1>1. w = [hops |-> w.hops, e2e |-> w.e2e, pending |-> w.pending]
  BY DEF OriginOK
<1>2. PICK a, b, au : a = Meeting /\ b = ServiceKey /\ au = Auth(Meeting, ServiceKey)
  OBVIOUS
<1>3. AuthHolds(a, [y |-> b, auth |-> au])
  <2>1. PICK r : r = [y |-> b, auth |-> au]
    OBVIOUS
  <2>2. r.y = b /\ r.auth = au
    BY <2>1
  <2>3. r.auth = Auth(a, r.y)
    BY <1>2, <2>2
  <2>. QED
    BY <2>1, <2>3 DEF AuthHolds
<1>4. from_e2e_keys(E2EKeys(a, b), TRUE) = HopState(C2H, H2C)
  <2>1. PICK k : k = E2EKeys(a, b)
    OBVIOUS
  <2>2. k.c2h = <<a, b, "c2h">> /\ k.h2c = <<a, b, "h2c">>
    BY <2>1 DEF E2EKeys
  <2>3. k.c2h = C2H /\ k.h2c = H2C
    BY <1>2, <2>2 DEF C2H, H2C
  <2>. QED
    BY <2>1, <2>3 DEF from_e2e_keys
<1>5. v = [w EXCEPT !.e2e = <<HopState(C2H, H2C)>>]
  BY <1>2, <1>3, <1>4 DEF Met
<1>6. PICK hs, es, pe, h : hs = w.hops /\ es = w.e2e /\ pe = w.pending /\ h = <<HopState(C2H, H2C)>>
  OBVIOUS
<1>7. w = [hops |-> hs, e2e |-> es, pending |-> pe]
  BY <1>1, <1>6
<1>8. v = [hops |-> hs, e2e |-> h, pending |-> pe]
  BY <1>5, <1>6, <1>7
<1>. QED
  BY <1>6, <1>8 DEF MetBy

\* What a step of the client's reader does, by the cell.
LEMMA ReadForms ==
  ASSUME Good, ClientReads
  PROVE  \E w : /\ Readable(w)
                /\ \/ ReadStep(w) /\ (Read + 1 > PathLen => ClientEnd.e2e # <<>>) /\ meeting' = meeting
                   \/ /\ Known < PathLen /\ ClientEnd.e2e = <<>> /\ Read = Known - 1 /\ meeting' = meeting
                      /\ LegTo(Known + 1) \in DOMAIN relays /\ ~relays[LegTo(Known)].awaiting
                      /\ ClientEnd.pending = LegTo(Known + 1) /\ \E v : ReadStep(v) /\ ExtendedBy(w, v)
                   \/ /\ Known = PathLen /\ ClientEnd.e2e = <<>> /\ Read = PathLen /\ cookie = "used" /\ meeting' = NoKey
                      /\ fetching = "introduced" /\ \E v : ReadStep(v) /\ MetBy(w, v)
<1>1. Shape /\ Building /\ Control
  BY DEF Good
<1>2. PICK p, w : p = Head(backward[Client]) /\ w = AfterInbound(ClientEnd, p)
  OBVIOUS
<1>3. CellArrives(backward, Client, "relay")
  BY DEF ClientReads
<1>4. Inward(w) /\ InwardHears(w) /\ WhatRead(p.cell)
  BY <1>2, <1>3, ClientInward, ClientInwardHears, ReadWhat
<1>5. Readable(w)
  BY <1>3, <1>4 DEF Readable
<1>6. RecognisedBy(ClientEnd, p) # {} /\ Known > 0
  <2>1. PICK G, ls, T, h, oc : G = ChainBack /\ ls = ClientLayers /\ T = Read /\ h = Len(ls) /\ oc = ClientEnd
    OBVIOUS
  <2>2. Known > 0 /\ RecognisedBy(oc, p) = {h}
    BY <1>2, <1>3, <2>1, ReadAt
  <2>. QED
    BY <2>1, <2>2
<1>7. PICK c : c = p.cell
  OBVIOUS
<1>8. PICK v : v = CASE c[1] = "extended2" -> Finished(w, [y |-> c[2], auth |-> c[3]])
                     [] c[1] = "rendezvous2" /\ meeting # NoKey -> Met(w, meeting, c[2], c[3])
                     [] OTHER -> w
  OBVIOUS
<1>9. /\ origin' = [origin EXCEPT !["client"] = v] /\ meeting' = (IF c[1] = "rendezvous2" THEN NoKey ELSE meeting)
      /\ lost' = (lost \/ v = NoLayers) /\ backward' = Off(backward, Client)
      /\ UNCHANGED <<relays, forward, held, tables, fetching, intro, rendezvousing, excuses>>
  BY <1>2, <1>6, <1>7, <1>8 DEF ClientReads, ClientEnd
<1>10. Loses(backward, backward', Client)
  <2>1. backward = [l \in Leg |-> backward[l]] /\ Client \in Leg
    BY <1>1, LegIs DEF Shape
  <2>. QED
    BY <1>9, <2>1, OffIs
<1>11. w.hops # <<>> /\ OriginOK(w) /\ w.pending = ClientEnd.pending /\ IsSeq(w.hops)
  <2>1. OriginOK(w) /\ w.pending = ClientEnd.pending /\ Len(w.hops) = Known
    BY <1>4 DEF Inward, SameShape
  <2>2. IsSeq(w.hops)
    BY <2>1 DEF OriginOK
  <2>. QED
    BY <1>6, <2>1, <2>2, EmptyIs
<1>12. ASSUME NEW u, v = u, u.hops # <<>> PROVE ReadStep(u)
  <2>1. u # NoLayers
    <3>1. NoLayers.hops = <<>>
      BY DEF NoLayers
    <3>. QED
      BY <1>12, <3>1
  <2>2. lost' => lost
    BY <1>9, <1>12, <2>1
  <2>. QED
    BY <1>9, <1>10, <1>12, <2>2 DEF ReadStep
<1>13. CASE /\ c = Extended2(Known) /\ Known < PathLen /\ ClientEnd.e2e = <<>> /\ Read = Known - 1
            /\ LegTo(Known + 1) \in DOMAIN relays /\ ~relays[LegTo(Known)].awaiting
  <2>1. PICK l : l = LegTo(Known + 1)
    OBVIOUS
  <2>2. c[1] = "extended2" /\ c[2] = l /\ c[3] = Auth(l, l)
    BY <1>13, <2>1 DEF Extended2
  <2>3. l # NoKey
    BY <2>1, LegToNotNone
  <2>4. ClientEnd.pending = l
    <3>1. Known \in 1..(PathLen - 1)
      BY <1>1, <1>6, <1>13, KnownIs
    <3>2. l \in DOMAIN relays
      BY <1>13, <2>1
    <3>3. ~Quiet(l) /\ ~Absent(l)
      BY <3>2 DEF Quiet, Absent
    <3>. QED
      BY <1>1, <2>1, <3>1, <3>3 DEF Building, Extending
  <2>5. v = Finished(w, [y |-> l, auth |-> Auth(l, l)])
    BY <1>8, <2>2
  <2>6. ExtendedBy(w, v)
    <3>1. w.pending = l
      BY <1>11, <2>4
    <3>2. PICK rep : rep = [y |-> l, auth |-> Auth(l, l)]
      OBVIOUS
    <3>3. v = Finished(w, rep)
      BY <2>5, <3>2
    <3>4. /\ v.hops = Append(w.hops, HopState(FK(l), BK(l))) /\ v.e2e = w.e2e
          /\ v.pending = NoKey /\ v = [hops |-> v.hops, e2e |-> v.e2e, pending |-> v.pending]
      BY ONLY <1>11, <2>3, <3>1, <3>2, <3>3, FinishedIs
    <3>. QED
      BY <2>1, <3>4 DEF ExtendedBy
  <2>7. v.hops # <<>>
    <3>1. v.hops = Append(w.hops, HopState(FK(l), BK(l)))
      BY <2>1, <2>6 DEF ExtendedBy
    <3>2. PICK a, h : a = w.hops /\ h = HopState(FK(l), BK(l))
      OBVIOUS
    <3>3. Len(Append(a, h)) = Len(a) + 1 /\ Len(a) \in Nat
      BY <1>11, <3>2, AppendIs, IsSeqShape
    <3>4. Append(a, h) # <<>>
      BY <3>3, EmptyIs
    <3>. QED
      BY <3>1, <3>2, <3>4
  <2>8. ReadStep(v) /\ meeting' = meeting
    BY <1>9, <1>12, <2>2, <2>7
  <2>9. \E u : ReadStep(u) /\ ExtendedBy(w, u)
    BY <2>6, <2>8
  <2>. QED
    BY <1>5, <1>13, <2>1, <2>4, <2>8, <2>9
<1>14. CASE c = Rendezvous2 /\ Known = PathLen /\ ClientEnd.e2e = <<>> /\ Read = PathLen /\ cookie = "used"
  <2>1. c[1] = "rendezvous2" /\ c[2] = ServiceKey /\ c[3] = Auth(Meeting, ServiceKey)
    BY <1>14 DEF Rendezvous2
  <2>2. fetching = "introduced" /\ meeting = Meeting
    <3>1. Len(ServiceEnd.hops) = 1
      BY <1>1, <1>14 DEF Control
    <3>2. rendezvousing # "idle"
      BY <1>1, <3>1 DEF Control
    <3>3. fetching = "introduced"
      BY <1>1, <3>2 DEF Control
    <3>. QED
      BY <1>1, <1>14, <3>3 DEF Control
  <2>3. Meeting # NoKey
    BY DEF Meeting, NoKey
  <2>4. v = Met(w, Meeting, ServiceKey, Auth(Meeting, ServiceKey))
    BY <1>8, <2>1, <2>2, <2>3
  <2>5. MetBy(w, v)
    BY ONLY <1>11, <2>4, MetIs
  <2>6. v.hops # <<>>
    BY <1>11, <2>5 DEF MetBy
  <2>7. ReadStep(v) /\ meeting' = NoKey
    BY <1>9, <1>12, <2>1, <2>6
  <2>8. \E u : ReadStep(u) /\ MetBy(w, u)
    BY <2>5, <2>7
  <2>. QED
    BY <1>5, <1>14, <2>2, <2>7, <2>8
<1>15. CASE c[1] \notin {"extended2", "rendezvous2"} /\ (Read + 1 > PathLen => ClientEnd.e2e # <<>>)
  <2>1. v = w /\ meeting' = meeting
    BY <1>8, <1>9, <1>15
  <2>2. ReadStep(w)
    BY <1>11, <1>12, <2>1
  <2>. QED
    BY <1>5, <1>15, <2>1, <2>2
<1>. QED
  BY <1>4, <1>7, <1>13, <1>14, <1>15 DEF WhatRead

LEMMA LayersGrow ==
  ASSUME NEW w, OriginOK(w), w.e2e = <<>>, NEW v, OriginOK(v), NEW h,
         \/ v.hops = Append(w.hops, h) /\ v.e2e = w.e2e
         \/ v.hops = w.hops /\ v.e2e = <<h>>
  PROVE  Layers(v) = Append(Layers(w), h) /\ Len(Layers(w)) = Len(w.hops)
<1>1. /\ IsSeq(Layers(w)) /\ Len(Layers(w)) = Len(w.hops) + Len(w.e2e) /\ Len(w.hops) \in Nat
      /\ \A i \in 1..Len(w.hops) : Layers(w)[i] = w.hops[i]
  BY LayersOf
<1>2. /\ IsSeq(Layers(v)) /\ Len(Layers(v)) = Len(v.hops) + Len(v.e2e)
      /\ \A i \in 1..Len(v.hops) : Layers(v)[i] = v.hops[i]
      /\ \A i \in 1..Len(v.e2e) : Layers(v)[Len(v.hops) + i] = v.e2e[i]
  BY LayersOf
<1>3. Len(w.e2e) = 0
  BY EmptyIs
<1>4. PICK n, a, b, q : n = Len(w.hops) /\ a = Layers(w) /\ b = Layers(v) /\ q = w.hops
  OBVIOUS
<1>5. IsSeq(a) /\ Len(a) = n /\ n \in Nat /\ IsSeq(b) /\ IsSeq(q) /\ Len(q) = n /\ \A i \in 1..n : a[i] = q[i]
  BY <1>1, <1>2, <1>3, <1>4 DEF OriginOK
<1>6. Len(b) = n + 1 /\ b[n + 1] = h /\ \A i \in 1..n : b[i] = q[i]
  <2>1. CASE v.hops = Append(w.hops, h) /\ v.e2e = w.e2e
    <3>1. PICK r : r = Append(q, h)
      OBVIOUS
    <3>2. Len(r) = n + 1 /\ r[n + 1] = h /\ \A i \in 1..n : r[i] = q[i]
      BY <1>5, <3>1, AppendIs
    <3>3. v.hops = r /\ Len(v.e2e) = 0
      BY <1>3, <1>4, <2>1, <3>1
    <3>4. Len(b) = n + 1
      BY <1>2, <1>4, <1>5, <3>2, <3>3
    <3>5. \A i \in 1..(n + 1) : b[i] = r[i]
      BY <1>2, <1>4, <3>2, <3>3
    <3>. QED
      BY <1>5, <3>2, <3>4, <3>5
  <2>2. CASE v.hops = w.hops /\ v.e2e = <<h>>
    <3>1. PICK r : r = <<h>>
      OBVIOUS
    <3>2. Len(r) = 1 /\ r[1] = h
      BY <3>1, OneIs
    <3>3. v.hops = q /\ v.e2e = r
      BY <1>4, <2>2, <3>1
    <3>4. Len(b) = n + 1
      BY <1>2, <1>4, <1>5, <3>2, <3>3
    <3>5. \A i \in 1..n : b[i] = q[i]
      BY <1>2, <1>4, <1>5, <3>2, <3>3
    <3>6. b[n + 1] = h
      <4>1. 1 \in 1..Len(v.e2e)
        <5>1. PICK z : z = Len(v.e2e)
          OBVIOUS
        <5>2. z = 1
          BY <3>2, <3>3, <5>1
        <5>. QED
          BY <5>1, <5>2
      <4>2. b[Len(v.hops) + 1] = v.e2e[1]
        BY <1>2, <1>4, <4>1
      <4>3. Len(v.hops) = n
        BY <1>4, <2>2
      <4>. QED
        BY <3>2, <3>3, <4>2, <4>3
    <3>. QED
      BY <3>4, <3>5, <3>6
  <2>. QED
    BY <2>1, <2>2
<1>7. PICK c : c = Append(a, h)
  OBVIOUS
<1>8. IsSeq(c) /\ Len(c) = n + 1 /\ c[n + 1] = h /\ \A i \in 1..n : c[i] = a[i]
  BY <1>5, <1>7, AppendIs
<1>9. \A i \in 1..(n + 1) : b[i] = c[i]
  BY <1>5, <1>6, <1>8
<1>10. b = c
  BY <1>5, <1>6, <1>8, <1>9, SeqEq
<1>. QED
  BY <1>4, <1>5, <1>7, <1>10

GrownEnd(w, v, fk, bk) ==
  /\ Shape' /\ ClientEnd' = v /\ SameService /\ RelaysSame /\ ServiceWayOut' /\ Tables' /\ ClientLayers' = Layers(v)
  /\ Grown(Layers(w), Layers(v), fk, bk) /\ KeysApart(Layers(v)) /\ Sent' = Sent /\ Read' = Read + 1
  /\ Len(ClientLayers') = Known + 1 /\ ClientLayers'[Known + 1] = HopState(fk, bk)
  /\ \A i \in 1..Known : ClientLayers'[i] = Layers(w)[i] /\ ClientLayers'[i].fd = ClientLayers[i].fd

\* Reading a cell that makes the client one layer more.
LEMMA ReadGrown ==
  ASSUME Good, NEW w, Readable(w), ClientEnd.e2e = <<>>, NEW v, ReadStep(v), EndFits("client", v), E2EFits(v, C2H, H2C),
         NEW fk, NEW bk, NewKey(Layers(w), fk), NEW h, h = HopState(fk, bk),
         \/ v.hops = Append(w.hops, h) /\ v.e2e = w.e2e
         \/ v.hops = w.hops /\ v.e2e = <<h>>
  PROVE  GrownEnd(w, v, fk, bk)
<1>1. /\ Shape' /\ ClientEnd' = v /\ SameService /\ RelaysSame /\ ServiceWayOut' /\ Tables' /\ ClientLayers' = Layers(v)
  BY ReadRest
<1>2. Inward(w) /\ SaidSame(w)
  BY InwardSays DEF Readable
<1>3. LayersOK(Layers(w)) /\ KeysApart(Layers(w)) /\ OriginOK(w) /\ Len(w.hops) = Known /\ (w.e2e # <<>> <=> ClientEnd.e2e # <<>>)
  BY <1>2 DEF Inward, SameShape
<1>4. OriginOK(v) /\ w.e2e = <<>>
  BY <1>3 DEF EndFits
<1>5. Layers(v) = Append(Layers(w), h) /\ Len(Layers(w)) = Known
  <2>1. PICK x : x = h
    OBVIOUS
  <2>2. \/ v.hops = Append(w.hops, x) /\ v.e2e = w.e2e
        \/ v.hops = w.hops /\ v.e2e = <<x>>
    BY <2>1
  <2>3. Layers(v) = Append(Layers(w), x) /\ Len(Layers(w)) = Len(w.hops)
    BY ONLY <1>3, <1>4, <2>2, LayersGrow
  <2>. QED
    BY <1>3, <2>1, <2>3
<1>6. Grown(Layers(w), Layers(v), fk, bk)
  BY <1>3, <1>5, GrownLayers
<1>7. PICK a, b, k : a = Layers(w) /\ b = Layers(v) /\ k = Known
  OBVIOUS
<1>8. Len(b) = k + 1 /\ b[k + 1] = HopState(fk, bk) /\ \A i \in 1..k : b[i] = a[i]
  BY <1>5, <1>6, <1>7 DEF Grown
<1>9. KeysApart(b)
  BY <1>3, <1>6, <1>7 DEF Grown, NewKey
<1>10. 1 \in 1..k
  <2>1. Known > 0
    BY ReadAt DEF Readable
  <2>2. Known \in Nat
    BY KnownIs DEF Good
  <2>. QED
    BY <1>7, <2>1, <2>2
<1>11. Sent' = Sent /\ Read' = Read + 1
  <2>1. b[1] = a[1] /\ a[1].fn = Sent /\ a[1].bn = Read + 1
    BY <1>2, <1>7, <1>8, <1>10 DEF SaidSame
  <2>2. ClientLayers' = b
    BY <1>1, <1>7
  <2>. QED
    BY <2>1, <2>2 DEF Sent, Read
<1>12. \A i \in 1..k : a[i].fd = ClientLayers[i].fd
  BY <1>2, <1>7 DEF SaidSame
<1>. QED
  BY <1>1, <1>6, <1>7, <1>8, <1>9, <1>11, <1>12 DEF GrownEnd

\* What the client's older layers heard.
LEMMA OlderHear ==
  ASSUME Good, NEW w, Readable(w), NEW i \in 1..Known
  PROVE  /\ i <= Len(ChainBack) /\ Layers(w)[i].bn + Starts(i) = Read + 1
         /\ Heard(ChainBack, i, Layers(w)[i].bn, Layers(w)[i].bd)
<1>1. ClientIs
  BY GoodFacts DEF Facts
<1>2. Known \in Nat /\ Len(ClientLayers) = Known + Len(ClientEnd.e2e) /\ Len(ClientEnd.e2e) \in 0..1
  BY <1>1 DEF ClientIs, EndLayers, ClientLayers
<1>3. i \in 1..Len(ClientLayers)
  BY <1>2
<1>. QED
  BY <1>3 DEF Readable, InwardHears

\* The end the client has after RENDEZVOUS2.
LEMMA MetFits ==
  ASSUME Good, NEW w, Readable(w), ClientEnd.e2e = <<>>, Known = PathLen, NEW v, MetBy(w, v)
  PROVE  /\ EndFits("client", v) /\ E2EFits(v, C2H, H2C) /\ NewKey(Layers(w), C2H) /\ v.e2e # <<>> /\ Len(v.hops) = Known
         /\ v.pending = ClientEnd.pending
<1>1. EndFits("client", w) /\ Inward(w)
  BY DEF Readable, Inward
<1>2. ClientIs
  BY GoodFacts DEF Facts
<1>3. PICK h : h = HopState(C2H, H2C)
  OBVIOUS
<1>4. v.hops = w.hops /\ v.e2e = <<h>> /\ v.pending = w.pending /\ v = [hops |-> v.hops, e2e |-> v.e2e, pending |-> v.pending]
  BY <1>3 DEF MetBy
<1>5. Len(v.e2e) = 1 /\ v.e2e[1] = h /\ v.e2e # <<>> /\ IsSeq(v.e2e)
  BY <1>4, OneIs
<1>6. h.fk = C2H /\ h.bk = H2C
  <2>1. PICK a, b : a = C2H /\ b = H2C
    OBVIOUS
  <2>. QED
    BY <1>3, <2>1, HopStateIs
<1>7. Len(v.hops) = Known /\ Known = Hops("client") /\ v.pending = ClientEnd.pending
  BY <1>1, <1>4 DEF Inward, Hops
<1>8. OriginOK(v)
  BY <1>1, <1>4, <1>5 DEF EndFits, OriginOK
<1>9. EndFits("client", v)
  BY <1>1, <1>4, <1>5, <1>7, <1>8 DEF EndFits
<1>10. E2EFits(v, C2H, H2C)
  <2>1. \A i \in 1..Len(v.e2e) : i = 1
    BY <1>5
  <2>. QED
    BY <1>5, <1>6, <2>1 DEF E2EFits
<1>11. NewKey(Layers(w), C2H)
  <2>1. PICK ls, ms, k : ls = ClientLayers /\ ms = Layers(w) /\ k = Known
    OBVIOUS
  <2>2. Len(ms) = Len(ls) /\ \A i \in 1..Len(ls) : ms[i].fk = ls[i].fk
    BY <1>1, <2>1 DEF Inward, SameOut
  <2>3. Len(ls) = k /\ \A i \in 1..k : ls[i].fk = FK(LegTo(i))
    <3>1. Len(ls) = k + Len(ClientEnd.e2e) /\ k \in Nat /\ Len(ClientEnd.e2e) = 0 /\ \A i \in 1..k : ls[i].fk = FK(<<"client", i>>)
      BY <1>2, <2>1 DEF ClientIs, EndLayers, ClientLayers
    <3>. QED
      BY <3>1 DEF LegTo
  <2>. QED
    BY <2>1, <2>2, <2>3, KeysAre DEF NewKey
<1>. QED
  BY <1>5, <1>7, <1>9, <1>10, <1>11

\* What the point has taken of what the client sent.
LEMMA PointPassed ==
  ASSUME Good, Known > 0, NEW k, k = Known
  PROVE  Passed(k) \in Nat /\ Sent \in Nat /\ Passed(k) <= Sent /\ k \in Nat /\ k >= 1 /\ RelayHop(k).fn \in Nat
<1>1. Shape /\ ClientOut
  BY DEF Good
<1>2. ClientChain
  BY GoodFacts DEF Facts
<1>3. ChainIsFor(ClientLayers, Known)
  BY <1>2 DEF ClientChain
<1>4. PICK G, N, x, y, R, Q, top : /\ G = ChainOut /\ N = Sent /\ x = held["fetch"] /\ y = held["pump"] /\ R = Relayed
                                  /\ Q = OutQueues /\ top = N - One(x) - One(y)
  OBVIOUS
<1>5. k \in Nat /\ k >= 1 /\ k \in 1..k
  BY <1>1, KnownIs
<1>6. ChainOK(G) /\ k <= Len(G) /\ N \in Nat
  BY <1>3, <1>4 DEF ChainIsFor, ChainOut, Sent
<1>7. OutLine(G, k, N, x, y, R, Q)
  BY <1>1, <1>4 DEF ClientOut
<1>8. OutWay(G, k, N, top, R, Q)
  BY ONLY <1>4, <1>5, <1>6, <1>7, LineTop
<1>9. OutTurn(G, top, R, k) \in Nat /\ OutTurn(G, top, R, k) <= N /\ OutTurn(G, top, R, k) = R[k].fn + G[k].o /\ R[k].fn \in Nat
  <2>1. k \in 0..k
    BY <1>5
  <2>2. /\ \A i \in 0..k : OutTurn(G, top, R, i) \in Nat /\ OutTurn(G, top, R, i) <= N
        /\ \A i \in 1..k : /\ OutHop(G, N, top, R, Q, i) /\ G[i].o \in Nat
                           /\ OutTurn(G, top, R, i) = R[i].fn + G[i].o
    BY <1>5, <1>6, <1>8, OutTurns
  <2>. QED
    BY <1>5, <2>1, <2>2 DEF OutHop
<1>10. R[k] = RelayHop(k)
  BY <1>4, <1>5, RelayedIs
<1>. QED
  BY <1>4, <1>5, <1>6, <1>9, <1>10 DEF Passed

\* What has come to the service is no more than the point passed to it.
LEMMA MeetRead ==
  ASSUME Good, Len(ServiceEnd.hops) = 1, NEW x, x = ServiceLayers[1].bn, NEW y, y = MeetHop.bn
  PROVE  x \in Nat /\ y \in Nat /\ x <= y /\ BackTurn(MeetBack, x, <<MeetHop>>, 1) = y
<1>1. ServiceBack
  BY DEF Good
<1>2. MeetBackIs
  BY GoodFacts DEF Facts
<1>3. PICK G, R, Q, b, top, e : /\ G = MeetBack /\ R = <<MeetHop>> /\ Q = <<backward[Meet]>> /\ b = BackTurn(G, x, R, 1) /\ e = <<>>
                                /\ top = b - One(e) - One(e)
  OBVIOUS
<1>4. ChainOK(G) /\ 1 <= Len(G) /\ G[1].o = 0
  BY <1>2, <1>3 DEF MeetBackIs
<1>5. BackLine(G, 1, x, e, e, R, Q)
  BY <1>1, <1>3 DEF ServiceBack
<1>6. BackLineOK(G, 1, x, e, e, R, Q, b, top)
  <2>1. PICK m : m = 1
    OBVIOUS
  <2>2. m \in Nat /\ m >= 1 /\ ChainOK(G) /\ m <= Len(G) /\ BackLine(G, m, x, e, e, R, Q) /\ b = BackTurn(G, x, R, m)
    BY <1>3, <1>4, <1>5, <2>1
  <2>3. BackLineOK(G, m, x, e, e, R, Q, b, top)
    BY <1>3, <2>2, BackLineTop
  <2>. QED
    BY <2>1, <2>3
<1>7. BackWay(G, 1, x, top, R, Q) /\ top = b
  BY <1>3, <1>6 DEF BackLineOK
<1>8. x \in Nat /\ b = R[1].bn + G[1].o /\ b \in Nat /\ x <= b /\ R[1].bn \in Nat
  <2>1. PICK m : m = 1
    OBVIOUS
  <2>2. m \in Nat /\ ChainOK(G) /\ m <= Len(G) /\ BackWay(G, m, x, top, R, Q) /\ 0 \in 0..m /\ m \in 0..m /\ m \in 1..m /\ 0 <= m
    BY <1>4, <1>7, <2>1
  <2>3. /\ x \in Nat /\ BackTurn(G, x, R, 0) = x /\ BackTurn(G, x, R, m) \in Nat
        /\ BackTurn(G, x, R, m) = R[m].bn + G[m].o /\ BackHop(G, m, x, top, R, Q, m)
    BY <2>2, BackTurns
  <2>4. BackTurn(G, x, R, 0) <= BackTurn(G, x, R, m)
    BY ONLY <2>2, BackClimbs
  <2>. QED
    BY <1>3, <2>1, <2>3, <2>4 DEF BackHop
<1>9. R[1].bn = y
  BY <1>3
<1>. QED
  BY <1>3, <1>4, <1>8, <1>9

\* The service's way back when the client has the end-to-end layer too.
LEMMA MeetBackMade ==
  ASSUME Good, Len(ServiceEnd.hops) = 1, ClientEnd.e2e = <<>>, MeetBackIs', ClientEnd'.e2e # <<>>, MeetHop.bn = 0,
         MeetHop' = MeetHop, backward'[Meet] = backward[Meet], ServiceEnd' = ServiceEnd, ServiceLayers' = ServiceLayers
  PROVE  ServiceBack'
<1>1. ServiceBack
  BY DEF Good
<1>2. MeetBackIs
  BY GoodFacts DEF Facts
<1>3. PICK G, H, R, Q, x, e, m : /\ G = MeetBack /\ H = MeetBack' /\ R = <<MeetHop>> /\ Q = <<backward[Meet]>>
                                 /\ x = ServiceLayers[1].bn /\ e = <<>> /\ m = 1
  OBVIOUS
<1>4. ChainOK(G) /\ Len(G) = 1 /\ G[1].o = 0 /\ G[1].k = BK(Meet) /\ G[1].d = <<BK(Meet)>>
  BY <1>2, <1>3 DEF MeetBackIs
<1>5. ChainOK(H) /\ Len(H) = 2 /\ H[1].o = 0 /\ H[1].k = BK(Meet) /\ H[1].d = <<BK(Meet)>> /\ H[2].o = 0
  BY <1>3 DEF MeetBackIs, BK, Meet
<1>6. BackLine(G, m, x, e, e, R, Q)
  BY <1>1, <1>3 DEF ServiceBack
<1>7. PICK b : b = BackTurn(G, x, R, m)
  OBVIOUS
<1>8. b = 0
  BY <1>3, <1>7, MeetRead
<1>9. Grows(G, H, b)
  <2>1. \A i \in 1..Len(G) : i = 1
    BY <1>4
  <2>2. Len(H[1].d) = 1 /\ Len(G[1].d) = 1 /\ H[1].d[1] = G[1].d[1]
    BY <1>4, <1>5, OneIs
  <2>3. \A i \in 1..Len(G) :
          /\ H[i].k = G[i].k /\ H[i].o = G[i].o /\ Len(G[i].d) <= Len(H[i].d)
          /\ \A q \in 1..Len(G[i].d) : H[i].d[q] = G[i].d[q]
    BY <1>4, <1>5, <2>1, <2>2
  <2>4. Len(G) <= Len(H) /\ b <= H[Len(G) + 1].o
    BY <1>4, <1>5, <1>8
  <2>. QED
    BY <2>3, <2>4 DEF Grows
<1>10. m \in Nat /\ m >= 1 /\ m <= Len(G)
  BY <1>3, <1>4
<1>11. \A i \in 1..m : R[i].bn = R[i].bn /\ Q[i] = Q[i]
  OBVIOUS
<1>12. BackLine(H, m, x, e, e, R, Q)
  BY ONLY <1>4, <1>5, <1>6, <1>7, <1>9, <1>10, <1>11, BackLineGrows
<1>13. BackLine(MeetBack', 1, ServiceLayers'[1].bn, <<>>, <<>>, <<MeetHop'>>, <<backward'[Meet]>>)
  BY <1>3, <1>12
<1>. QED
  BY <1>13 DEF ServiceBack, Meet

LEMMA UptoOne == ASSUME NEW d, NEW c, d[1] = c PROVE Upto(d, 0 + 1) = <<c>>
<1>1. PICK u, s, m : u = Upto(d, m) /\ s = <<c>> /\ m = 0 + 1
  OBVIOUS
<1>2. m \in Nat /\ m = 1
  BY <1>1
<1>3. IsSeq(u) /\ Len(u) = m /\ \A j \in 1..m : u[j] = d[j]
  BY ONLY <1>1, <1>2, UptoIs
<1>4. IsSeq(s) /\ Len(s) = 1 /\ s[1] = c
  BY <1>1, OneIs
<1>5. \A j \in 1..Len(u) : u[j] = s[j]
  BY <1>2, <1>3, <1>4
<1>6. Len(u) = Len(s)
  BY <1>2, <1>3, <1>4
<1>7. u = s
  BY ONLY <1>3, <1>4, <1>5, <1>6, SeqEq
<1>. QED
  BY <1>1, <1>7

LEMMA ReadMetGood ==
  ASSUME Good, NEW w, Readable(w), ClientEnd.e2e = <<>>, Known = PathLen, Read = PathLen, cookie = "used", meeting' = NoKey,
         fetching = "introduced", NEW v, ReadStep(v), MetBy(w, v)
  PROVE  Good'
<1>1. /\ Shape /\ Building /\ ClientOut /\ ServiceWayOut /\ RelaysSaid /\ ClientHears /\ ClientBack
      /\ Bridged /\ ServiceBack /\ Control /\ Contents /\ Timely
  BY DEF Good
<1>2. ClientIs /\ ServiceIs /\ ClientChain /\ BackIs /\ MeetBackIs
  BY GoodFacts DEF Facts
<1>3. /\ EndFits("client", v) /\ E2EFits(v, C2H, H2C) /\ NewKey(Layers(w), C2H) /\ v.e2e # <<>> /\ Len(v.hops) = Known
      /\ v.pending = ClientEnd.pending
  BY MetFits
<1>4. PICK h, fk, bk : h = HopState(fk, bk) /\ fk = C2H /\ bk = H2C
  OBVIOUS
<1>5. v.hops = w.hops /\ v.e2e = <<h>>
  BY <1>4 DEF MetBy
<1>6. GrownEnd(w, v, fk, bk)
  <2>1. NewKey(Layers(w), fk) /\ ((v.hops = Append(w.hops, h) /\ v.e2e = w.e2e) \/ (v.hops = w.hops /\ v.e2e = <<h>>))
    BY <1>3, <1>4, <1>5
  <2>. QED
    BY <1>3, <1>4, <2>1, ReadGrown
<1>7. /\ Shape' /\ ClientEnd' = v /\ SameService /\ RelaysSame /\ ServiceWayOut' /\ ClientLayers' = Layers(v)
      /\ Grown(Layers(w), Layers(v), fk, bk) /\ KeysApart(Layers(v)) /\ Sent' = Sent /\ Read' = Read + 1
      /\ Len(ClientLayers') = Known + 1 /\ ClientLayers'[Known + 1] = h
      /\ \A i \in 1..Known : ClientLayers'[i] = Layers(w)[i] /\ ClientLayers'[i].fd = ClientLayers[i].fd
  BY <1>4, <1>6 DEF GrownEnd
<1>8. Inward(w) /\ SaidSame(w) /\ CellArrives(backward, Client, "relay")
  BY InwardSays DEF Readable
<1>9. Loses(backward, backward', Client) /\ UNCHANGED <<relays, forward, held, tables, fetching, intro, rendezvousing, excuses>> /\ (lost' => lost)
  BY DEF ReadStep
<1>10. /\ Known \in Nat /\ Known >= 1 /\ PathLen \in Nat /\ PathLen >= 1 /\ Client = LegTo(1) /\ Client \in Leg
       /\ Meet \in Leg /\ Client # Meet /\ 1 \in 1..Known /\ Known' = Known /\ PathLen \in 1..Known
  <2>1. /\ Known \in Nat /\ PathLen \in Nat /\ PathLen >= 1 /\ Client = LegTo(1) /\ Meet \in Leg
    BY <1>1, KnownIs
  <2>2. Known' = Known
    BY <1>3, <1>7 DEF Known
  <2>. QED
    BY <2>1, <2>2, LegIs, LegApart
<1>11. ServiceEnd' = ServiceEnd /\ ServiceLayers' = ServiceLayers
  BY <1>7 DEF SameService
<1>12. /\ MeetHop' = MeetHop /\ (\A i : RelayHop(i)' = RelayHop(i)) /\ Steps({}) /\ StagesStay
  BY <1>7 DEF RelaysSame
<1>13. ChainBack' = ChainBack
  BY <1>10, <1>11, <1>12, ChainBackStays DEF SaidStill
<1>14. \A l \in Leg : l # Client => backward'[l] = backward[l]
  BY <1>9 DEF Loses
<1>15. h.fk = C2H /\ h.bk = H2C /\ h.fn = 0 /\ h.bn = 0 /\ h.fd = <<C2H>> /\ h.bd = <<H2C>>
  BY <1>4, HopStateIs
<1>16. Building'
  <2>1. PICK Z : Z = {Client}
    OBVIOUS
  <2>2. Steps(Z)
    BY <1>12, <2>1 DEF Steps
  <2>3. TouchOnly(Z)
    BY <1>9, <1>14, <2>1 DEF TouchOnly
  <2>4. Near(Z)
    <3>1. \A i \in 1..PathLen : LegTo(i) = LegTo(1) => i = 1
      BY <1>10, LegApart
    <3>. QED
      BY <1>10, <2>1, <3>1 DEF Near
  <2>5. CircuitsStay
    <3>1. \A e \in OriginEnd : e = "client" \/ e = "service"
      BY DEF OriginEnd
    <3>2. origin'["client"] = v /\ origin'["service"] = origin["service"]
      BY <1>7, <1>11 DEF ClientEnd, ServiceEnd
    <3>3. Len(origin'["client"].hops) = Len(origin["client"].hops) /\ origin'["client"].pending = origin["client"].pending
      BY <1>3, <3>2 DEF Known, ClientEnd
    <3>. QED
      BY <3>1, <3>2, <3>3 DEF CircuitsStay
  <2>. QED
    BY <1>1, <1>12, <2>2, <2>3, <2>4, <2>5, BuildingStays
<1>17. /\ LayersOK(ClientLayers') /\ LinkFor(Layers(w), Layers(v), fk)
       /\ OutLine(ChainOut', Known', Sent', held'["fetch"], held'["pump"], Relayed', OutQueues')
  <2>1. PICK ls, ms, k, x, y, R, Q : /\ ls = Layers(w) /\ ms = Layers(v) /\ k = Known /\ x = held["fetch"] /\ y = held["pump"]
                                     /\ R = Relayed /\ Q = OutQueues
    OBVIOUS
  <2>2. LayersOK(ls) /\ KeysApart(ls) /\ Chain(ls) = ChainOut /\ ls[1].fn = Sent /\ Len(ls) = k
    <3>1. Len(ls) = k
      <4>1. Len(ClientLayers) = k
        BY <1>2, <2>1, EmptyIs DEF ClientIs, EndLayers, ClientLayers
      <4>. QED
        BY <1>8, <2>1, <4>1 DEF Inward, SameOut
    <3>. QED
      BY <1>8, <2>1, <3>1 DEF Inward, SaidSame
  <2>3. OutLine(Chain(ls), k, ls[1].fn, x, y, R, Q)
    <3>1. OutLine(ChainOut, Known, Sent, held["fetch"], held["pump"], Relayed, OutQueues)
      BY <1>1, <1>10 DEF ClientOut
    <3>. QED
      BY <2>1, <2>2, <3>1
  <2>4. Grown(ls, ms, fk, bk) /\ NewKey(ls, fk)
    BY <1>3, <1>4, <1>7, <2>1
  <2>5. k \in Nat /\ k <= Len(ls) /\ Len(ls) >= 1
    BY <1>10, <2>1, <2>2
  <2>6. /\ LayersOK(ms) /\ KeysApart(ms) /\ LinkFor(ls, ms, fk)
        /\ OutLine(Chain(ms), k, ms[1].fn, x, y, R, Q)
    BY ONLY <2>2, <2>3, <2>4, <2>5, LineGrow
  <2>7. ClientLayers' = ms /\ ChainOut' = Chain(ms) /\ Sent' = ms[1].fn
    BY <1>7, <2>1 DEF ChainOut, Sent
  <2>8. Relayed' = Relayed /\ OutQueues' = OutQueues /\ held'["fetch"] = held["fetch"] /\ held'["pump"] = held["pump"]
    BY <1>9, <1>10, <1>12 DEF Relayed, OutQueues, LegTo
  <2>. QED
    BY <1>10, <2>1, <2>6, <2>7, <2>8
<1>18. ClientOut'
  BY <1>10, <1>17 DEF ClientOut
<1>19. RelaysSaid'
  <2>1. cookie' = cookie
    BY <1>9 DEF tables
  <2>2. SaidStill /\ RelayHop(Known)'.bn = RelayHop(Known).bn
    <3>1. SaidStill
      BY <1>12 DEF SaidStill
    <3>2. PICK k : k = Known
      OBVIOUS
    <3>3. RelayHop(k)' = RelayHop(k)
      BY <1>12
    <3>. QED
      BY <1>10, <3>1, <3>2, <3>3, AtKnown
  <2>. QED
    BY <1>1, <1>2, <1>10, <1>12, <2>1, <2>2, RelaysSaidStays
<1>20. ClientHears'
  <2>1. PICK G, ms, k, T : G = ChainBack /\ ms = ClientLayers' /\ k = Known /\ T = Read
    OBVIOUS
  <2>2. ms[1].bn = T + 1 /\ Len(ms) = k + 1 /\ ms[k + 1] = h
    BY <1>7, <2>1 DEF Read
  <2>3. ASSUME NEW i \in 1..(k + 1) PROVE ClientHeard(i)'
    <3>1. PICK e : e = ms[i]
      OBVIOUS
    <3>2. ClientLayers'[i] = e /\ ClientLayers'[1].bn = T + 1 /\ ChainBack' = G
      BY <1>13, <2>1, <2>2, <3>1
    <3>3. k \in Nat /\ i \in Nat /\ Len(G) \in Nat
      BY <1>2, <1>10, <2>1 DEF BackIs
    <3>4. CASE i \in 1..k
      <4>1. i <= Len(G) /\ e.bn + Starts(i) = T + 1 /\ Heard(G, i, e.bn, e.bd)
        <5>1. ms[i] = Layers(w)[i] /\ i \in 1..Known
          BY <1>7, <2>1, <3>4
        <5>2. /\ i <= Len(ChainBack) /\ Layers(w)[i].bn + Starts(i) = Read + 1
              /\ Heard(ChainBack, i, Layers(w)[i].bn, Layers(w)[i].bd)
          BY <5>1, OlderHear
        <5>. QED
          BY <2>1, <3>1, <5>1, <5>2
      <4>2. ~(i > Len(ChainBack'))
        BY <3>2, <3>3, <4>1
      <4>3. e.bn + Starts(i) = ClientLayers'[1].bn /\ Heard(ChainBack', i, e.bn, e.bd)
        BY <3>2, <4>1
      <4>. QED
        BY <3>2, <4>2, <4>3 DEF ClientHeard, Starts
    <3>5. CASE i = k + 1
      <4>1. e = h /\ T = PathLen /\ k = PathLen
        BY <2>1, <2>2, <3>1, <3>5
      <4>2. Starts(i) = T + 1
        BY <1>10, <3>5, <4>1 DEF Starts
      <4>3. e.bn + Starts(i) = ClientLayers'[1].bn
        <5>1. 0 + (T + 1) = T + 1
          BY <1>10, <4>1
        <5>. QED
          BY <1>15, <3>2, <4>1, <4>2, <5>1
      <4>4. IF i > Len(ChainBack') THEN e.bd = <<e.bk>> ELSE Heard(ChainBack', i, e.bn, e.bd)
        <5>1. CASE ServiceEnd.e2e = <<>>
          <6>1. Len(G) = k
            BY <1>2, <2>1, <5>1 DEF BackIs
          <6>2. i > Len(ChainBack')
            BY <3>2, <3>3, <3>5, <6>1
          <6>. QED
            BY <1>15, <4>1, <6>2
        <5>2. CASE ServiceEnd.e2e # <<>>
          <6>1. Len(G) = k + 1 /\ G[k + 1].d = ServiceEnd.e2e[1].fd
            BY <1>2, <2>1, <4>1, <5>2 DEF BackIs
          <6>2. ServiceEnd.e2e[1].fd[1] = H2C
            BY <1>1, <5>2 DEF Contents
          <6>3. Upto(G[i].d, 0 + 1) = <<H2C>>
            <7>1. PICK d, c : d = G[i].d /\ c = H2C
              OBVIOUS
            <7>2. d[1] = c
              BY <3>5, <6>1, <6>2, <7>1
            <7>3. Upto(d, 0 + 1) = <<c>>
              BY <7>2, UptoOne
            <7>. QED
              BY <7>1, <7>3
          <6>4. ~(i < Len(G)) /\ ~(i > Len(G))
            BY <3>3, <3>5, <6>1
          <6>5. Heard(G, i, 0, <<H2C>>)
            BY <6>3, <6>4 DEF Heard
          <6>6. e.bn = 0 /\ e.bd = <<H2C>>
            BY <1>15, <4>1
          <6>7. Heard(G, i, e.bn, e.bd)
            BY <6>5, <6>6
          <6>. QED
            BY <3>2, <6>4, <6>7
        <5>. QED
          BY <5>1, <5>2
      <4>. QED
        BY <3>2, <4>3, <4>4 DEF ClientHeard, Starts
    <3>. QED
      BY <3>3, <3>4, <3>5
  <2>4. Len(ClientLayers') = k + 1
    BY <2>1, <2>2
  <2>. QED
    BY <2>3, <2>4 DEF ClientHears
<1>21. ClientBack'
  <2>1. PICK G, k, t, x, y, R, Q : G = ChainBack /\ k = Known /\ t = Read /\ x = held["clientReader"] /\ y = held["serviceReader"]
                                    /\ R = Relayed /\ Q = BackQueues
    OBVIOUS
  <2>2. PICK Q2 : Q2 = BackQueues'
    OBVIOUS
  <2>3. \A i \in 1..k : Q2[i] = backward'[LegTo(i)]
    BY <1>10, <2>1, <2>2, RelayedIs
  <2>4. BackLine(G, k, t + 1, x, y, R, Q2)
    BY <1>1, <1>8, <1>9, <1>10, <2>1, <2>3, ReadLine
  <2>5. Relayed' = Relayed /\ held' = held
    BY <1>9, <1>10, <1>12 DEF Relayed
  <2>6. BackLine(ChainBack', Known', Read', held'["clientReader"], held'["serviceReader"], Relayed', BackQueues')
    BY <1>7, <1>10, <1>13, <2>1, <2>2, <2>4, <2>5
  <2>7. ~(Known' < PathLen)
    BY <1>10
  <2>. QED
    BY <2>6, <2>7 DEF ClientBack
<1>22. MeetHop.bn = 0 /\ Meet \in DOMAIN relays /\ Len(ServiceEnd.hops) = 1
  <2>1. Len(ServiceEnd.hops) = 1
    BY <1>1 DEF Control
  <2>2. Meet \in DOMAIN relays
    BY <1>1, <2>1, KnownIs
  <2>. QED
    BY <1>1, <2>1, <2>2 DEF Bridged
<1>23. Bridged'
  <2>1. PICK k : k = Known
    OBVIOUS
  <2>2. Passed(k) <= Sent /\ Passed(k) \in Nat /\ Sent \in Nat /\ k = PathLen
    BY <1>10, <2>1, PointPassed
  <2>3. ChainOut'[k + 1].o = Sent
    <3>1. Chain(Layers(v))[Len(Layers(w)) + 1].o = Layers(v)[1].fn
      BY <1>17 DEF LinkFor
    <3>2. Layers(v)[1].fn = Sent /\ ChainOut' = Chain(Layers(v))
      BY <1>7 DEF Sent, ChainOut
    <3>3. Len(Layers(w)) = k
      <4>1. Len(ClientLayers) = k
        BY <1>2, <2>1, EmptyIs DEF ClientIs, EndLayers, ClientLayers
      <4>. QED
        BY <1>8, <4>1 DEF Inward, SameOut
    <3>. QED
      BY <3>1, <3>2, <3>3
  <2>4. ChainOut'[k].o = ChainOut[k].o
    <3>1. k \in 1..Known
      BY <1>10, <2>1
    <3>2. Len(ClientLayers) = k /\ IsSeq(ClientLayers)
      BY <1>2, <2>1, EmptyIs DEF ClientIs, EndLayers, ClientLayers
    <3>3. ChainOut[k].o = ClientLayers[1].fn - ClientLayers[k].fn
      BY <2>1, <3>1, <3>2 DEF ChainOut, Chain
    <3>4. \A i \in 1..Known : ClientLayers'[i].fn = ClientLayers[i].fn
      <4>1. \A i \in 1..Known : Layers(w)[i].fn = ClientLayers[i].fn
        BY <1>8, <2>1, <3>2 DEF Inward, SameOut
      <4>. QED
        BY <1>7, <4>1
    <3>5. ChainOut'[k].o = ClientLayers'[1].fn - ClientLayers'[k].fn
      <4>1. k \in 1..Len(ClientLayers')
        BY <1>7, <1>10, <2>1
      <4>. QED
        BY <4>1 DEF ChainOut, Chain
    <3>. QED
      BY <1>10, <3>1, <3>3, <3>4, <3>5
  <2>5. Passed(k)' = Passed(k)
    BY <1>12, <2>4 DEF Passed
  <2>6. ~(Passed(k)' > ChainOut'[k + 1].o)
    BY <2>2, <2>3, <2>5
  <2>7. ~(Passed(PathLen)' > ChainOut'[PathLen + 1].o)
    BY <2>2, <2>6 DEF Passed, RelayHop, LegTo
  <2>. QED
    BY <1>12, <1>22, <2>7 DEF Bridged
<1>24. ServiceBack'
  <2>1. backward'[Meet] = backward[Meet]
    BY <1>10, <1>14
  <2>2. MeetBackIs'
    <3>1. ClientIs'
      BY <1>7, EndsAreNext
    <3>. QED
      BY <1>18, <3>1, MeetBackChainNext
  <2>3. ClientEnd'.e2e # <<>>
    BY <1>3, <1>7
  <2>. QED
    BY <1>11, <1>12, <1>22, <2>1, <2>2, <2>3, MeetBackMade
<1>25. Timely'
  <2>1. excuses' = excuses /\ (lost' => lost)
    BY <1>9
  <2>2. "keys late" \notin excuses' => ~lost'
    BY <1>1, <2>1 DEF Timely
  <2>3. ASSUME "keys late" \notin excuses', ServiceEnd.e2e = <<>> PROVE ServiceLayers'[1].bn = 0
    BY <1>1, <1>11, <1>22, <2>1, <2>3 DEF Timely
  <2>4. ASSUME "keys late" \notin excuses', ServiceEnd.e2e # <<>>
        PROVE  ServiceEnd'.e2e[1].bn = ServiceLayers'[1].bn /\ Heard(MeetBack', 2, ServiceEnd'.e2e[1].bn, ServiceEnd'.e2e[1].bd)
    <3>1. PICK x : x = ServiceEnd.e2e[1].bn
      OBVIOUS
    <3>2. x = ServiceLayers[1].bn /\ ServiceEnd.e2e[1].bd = <<C2H>>
      <4>1. PICK s, n, c : s = ServiceEnd.e2e /\ n = ServiceLayers[1].bn /\ c = <<C2H>>
        OBVIOUS
      <4>2. Timely /\ "keys late" \notin excuses /\ s # <<>> /\ ClientEnd.e2e = <<>>
        BY <1>1, <1>10, <2>1, <2>4, <4>1
      <4>3. Len(ServiceEnd.hops) = 1
        BY <1>22
      <4>4. s[1].bn = n /\ s[1].bd = c
        BY <4>1, <4>2, <4>3, Zenon DEF Timely
      <4>. QED
        BY <3>1, <4>1, <4>4
    <3>3. x = 0
      <4>1. PICK a, b : a = ServiceLayers[1].bn /\ b = MeetHop.bn
        OBVIOUS
      <4>2. a \in Nat /\ b \in Nat /\ a <= b
        BY <1>22, <4>1, MeetRead
      <4>3. b = 0
        BY <1>22, <4>1
      <4>4. a = 0
        BY ONLY <4>2, <4>3
      <4>. QED
        BY <3>2, <4>1, <4>4
    <3>4. MeetBackIs'
      <4>1. ClientIs'
        BY <1>7, EndsAreNext
      <4>. QED
        BY <1>18, <4>1, MeetBackChainNext
    <3>5. Len(MeetBack') = 2 /\ MeetBack'[2].d = v.e2e[1].fd
      BY <1>3, <1>7, <3>4 DEF MeetBackIs
    <3>6. v.e2e[1].fd = <<C2H>>
      BY <1>5, <1>15, OneIs
    <3>7. Heard(MeetBack', 2, 0, <<C2H>>)
      <4>1. PICK d, c : d = MeetBack'[2].d /\ c = C2H
        OBVIOUS
      <4>2. d = <<c>> /\ d[1] = c
        BY <3>5, <3>6, <4>1, OneIs
      <4>3. Upto(d, 0 + 1) = <<c>>
        BY <4>2, UptoOne
      <4>4. ~(2 < Len(MeetBack'))
        BY <3>5
      <4>. QED
        BY <4>1, <4>3, <4>4 DEF Heard
    <3>. QED
      BY <1>11, <3>1, <3>2, <3>3, <3>7
  <2>5. ClientEnd'.e2e # <<>>
    BY <1>3, <1>7
  <2>. QED
    BY <1>11, <2>2, <2>3, <2>4, <2>5 DEF Timely
<1>26. Contents'
  <2>1. rendezvousing' = rendezvousing /\ fetching' = fetching
    BY <1>9
  <2>2. (Len(ServiceEnd.hops) = 1 =>
          ServiceEnd.hops[1].fd = IF rendezvousing \in {"sent", "installed"} THEN <<FK(Meet), Rendezvous1>> ELSE <<FK(Meet)>>)'
    BY <1>1, <1>11, <2>1 DEF Contents, FK, Meet, Rendezvous1, ServiceKey, Auth, Meeting
  <2>3. (ServiceEnd.e2e # <<>> =>
          /\ ServiceEnd.e2e[1].fd[1] = H2C
          /\ \A q \in 2..Len(ServiceEnd.e2e[1].fd) : ServiceEnd.e2e[1].fd[q][1] = "answer")'
    BY <1>1, <1>11 DEF Contents, H2C, Meeting, ServiceKey
  <2>4. ClientEnd'.pending = ClientEnd.pending
    BY <1>3, <1>7
  <2>5. ASSUME NEW i \in 1..Known'
        PROVE  /\ \A q \in 2..Len(ClientLayers[i].fd)' : ExtendSaid(i, ClientLayers[i].fd[q])'
               /\ EstablishSaid(ClientLayers[i].fd)'
    <3>1. i \in 1..Known
      BY <1>10
    <3>2. (\A q \in 2..Len(ClientLayers[i].fd) : ExtendSaid(i, ClientLayers[i].fd[q])) /\ EstablishSaid(ClientLayers[i].fd)
      BY <1>1, <3>1 DEF Contents
    <3>3. PICK d : d = ClientLayers[i].fd
      OBVIOUS
    <3>4. ClientLayers'[i].fd = d
      BY <1>7, <3>1, <3>3
    <3>5. \A q \in 2..Len(d) : ExtendSaid(i, d[q])'
      BY <1>10, <2>4, <3>2, <3>3 DEF ExtendSaid, LegTo
    <3>6. EstablishSaid(d)'
      BY <2>1, <3>2, <3>3 DEF EstablishSaid
    <3>. QED
      BY <3>4, <3>5, <3>6 DEF ExtendSaid, EstablishSaid, LegTo
  <2>6. (ClientEnd.e2e # <<>> => ClientEnd.e2e[1].fd[1] = C2H)'
    <3>1. PICK c : c = C2H
      OBVIOUS
    <3>2. v.e2e[1] = h
      BY <1>5, OneIs
    <3>3. v.e2e[1].fd = <<c>>
      BY <1>15, <3>1, <3>2
    <3>4. v.e2e[1].fd[1] = c
      BY <3>3, OneIs
    <3>. QED
      BY <1>7, <3>1, <3>4 DEF C2H, Meeting, ServiceKey
  <2>7. ClientSaid'
    BY <2>5, <2>6 DEF ClientSaid
  <2>. QED
    BY <2>2, <2>3, <2>7 DEF Contents, ClientSaid
<1>27. Control'
  <2>1. UNCHANGED <<fetching, intro, rendezvousing, cookie, bridged>>
    BY <1>9 DEF tables
  <2>2. NoKey' = NoKey /\ Meeting' = Meeting
    BY DEF NoKey, Meeting
  <2>3. ClientEnd'.e2e # <<>> /\ ClientEnd'.pending = ClientEnd.pending
    BY <1>3, <1>7
  <2>4. PointEstablished' <=> PointEstablished
    BY <1>12 DEF PointEstablished
  <2>. QED
    BY <1>1, <1>10, <1>11, <1>12, <2>1, <2>2, <2>3, <2>4 DEF Control, PointEstablished
<1>. QED
  BY <1>7, <1>16, <1>18, <1>19, <1>20, <1>21, <1>23, <1>24, <1>25, <1>26, <1>27 DEF Good

\* The circuit with the hop that the answer finished, on the leg it arrives by.
LEMMA ExtendedFits ==
  ASSUME Good, NEW w, Readable(w), ClientEnd.e2e = <<>>, NEW k, k = Known, k < PathLen, NEW l, l = LegTo(k + 1), l \in DOMAIN relays,
         NEW v, ExtendedBy(w, v)
  PROVE  /\ EndFits("client", v) /\ E2EFits(v, C2H, H2C) /\ NewKey(Layers(w), FK(l)) /\ v.e2e = <<>> /\ Len(v.hops) = k + 1
         /\ v.pending = NoKey /\ v.e2e = w.e2e /\ v.hops = Append(w.hops, HopState(FK(l), BK(l)))
<1>1. EndFits("client", w) /\ Inward(w)
  BY DEF Readable, Inward
<1>2. ClientIs
  BY GoodFacts DEF Facts
<1>3. PICK h, fk, bk : h = HopState(fk, bk) /\ fk = FK(l) /\ bk = BK(l)
  OBVIOUS
<1>4. v.hops = Append(w.hops, h) /\ v.e2e = w.e2e /\ v.pending = NoKey /\ v = [hops |-> v.hops, e2e |-> v.e2e, pending |-> v.pending]
  BY <1>3 DEF ExtendedBy
<1>5. IsSeq(w.hops) /\ IsSeq(w.e2e) /\ w.e2e = <<>> /\ Len(w.hops) = k
  BY <1>1 DEF EndFits, OriginOK, Inward
<1>6. h.fk = fk /\ h.bk = bk
  BY <1>3, HopStateIs
<1>7. PICK q : q = v.hops
  OBVIOUS
<1>8. /\ IsSeq(q) /\ Len(q) = k + 1 /\ q[k + 1] = h /\ \A i \in 1..k : q[i] = w.hops[i]
  BY <1>4, <1>5, <1>7, AppendIs
<1>9. OriginOK(v)
  BY <1>4, <1>5, <1>7, <1>8 DEF OriginOK
<1>10. k \in Nat /\ PathLen \in Nat /\ Hops("client") = PathLen
  BY <1>2, KnownRelays, LegIs DEF Hops
<1>11. ASSUME NEW i \in 1..(k + 1)
       PROVE  q[i].fk = FK(<<"client", i>>) /\ q[i].bk = BK(<<"client", i>>) /\ <<"client", i>> \in DOMAIN relays
  <2>1. CASE i = k + 1
    BY <1>3, <1>6, <1>8, <2>1 DEF LegTo
  <2>2. CASE i \in 1..k
    <3>1. w.hops[i].fk = FK(<<"client", i>>) /\ w.hops[i].bk = BK(<<"client", i>>) /\ <<"client", i>> \in DOMAIN relays
      BY <1>1, <1>5, <2>2 DEF EndFits
    <3>. QED
      BY <1>8, <2>2, <3>1
  <2>. QED
    BY <1>10, <2>1, <2>2
<1>12. EndFits("client", v)
  <2>1. Len(v.e2e) = 0 /\ v.e2e = <<>>
    BY <1>4, <1>5, EmptyIs
  <2>2. Len(v.hops) = k + 1 /\ k + 1 <= Hops("client")
    BY <1>7, <1>8, <1>10
  <2>. QED
    BY <1>7, <1>9, <1>11, <2>1, <2>2 DEF EndFits
<1>13. E2EFits(v, C2H, H2C)
  BY <1>4, <1>5, EmptyIs DEF E2EFits
<1>14. NewKey(Layers(w), FK(l))
  <2>1. PICK ls, ms : ls = ClientLayers /\ ms = Layers(w)
    OBVIOUS
  <2>2. Len(ms) = Len(ls) /\ \A i \in 1..Len(ls) : ms[i].fk = ls[i].fk
    BY <1>1, <2>1 DEF Inward, SameOut
  <2>3. Len(ls) = k /\ \A i \in 1..k : ls[i].fk = FK(LegTo(i))
    <3>1. Len(ls) = k + Len(ClientEnd.e2e) /\ Len(ClientEnd.e2e) = 0 /\ \A i \in 1..k : ls[i].fk = FK(<<"client", i>>)
      BY <1>2, <2>1 DEF ClientIs, EndLayers, ClientLayers
    <3>. QED
      BY <1>10, <3>1 DEF LegTo
  <2>4. ASSUME NEW i \in 1..Len(ms) PROVE ms[i].fk # FK(l)
    <3>1. ms[i].fk = FK(LegTo(i)) /\ i \in Int /\ k + 1 \in Int /\ i # k + 1
      BY <1>10, <2>2, <2>3
    <3>2. LegTo(i) # l
      BY <3>1, LegApart
    <3>. QED
      BY <3>1, <3>2, KeysAre
  <2>. QED
    BY <2>1, <2>4 DEF NewKey
<1>. QED
  BY <1>3, <1>4, <1>5, <1>7, <1>8, <1>12, <1>13, <1>14

\* Where the building stands when the answer to an extend is read.
LEMMA ExtendedStage ==
  ASSUME Good, NEW k, k = Known, k < PathLen, k > 0, NEW l, l = LegTo(k + 1), l \in DOMAIN relays, ~relays[LegTo(k)].awaiting,
         ClientEnd.pending = l
  PROVE  /\ Returning(l) /\ Joined(LastRelay) /\ LastRelay = relays[LegTo(k)]
         /\ fetching = "build" /\ rendezvousing = "idle" /\ cookie = "none" /\ ~bridged
         /\ meeting = NoKey /\ intro = NoKey
         /\ Len(ServiceEnd.hops) = 0 /\ ServiceEnd.pending = NoKey /\ ServiceEnd.e2e = <<>>
<1>1. Building /\ Control /\ Shape
  BY DEF Good
<1>2. k \in Nat /\ PathLen \in Nat /\ Known \in 1..(PathLen - 1)
  BY <1>1, KnownIs
<1>3. l # NoKey
  BY LegToNotNone
<1>4. Extending /\ LegTo(Known + 1) = l
  BY <1>1 DEF Building
<1>5. /\ \/ Quiet(l) /\ Idle(LastRelay)
         \/ (Quiet(l) \/ Asked(l) \/ Answered(l)) /\ Waiting(LastRelay)
         \/ Returning(l) /\ Joined(LastRelay)
  BY <1>2, <1>3, <1>4 DEF Extending
<1>6. LastRelay = relays[LegTo(k)]
  BY DEF LastRelay
<1>7. ~Quiet(l) /\ ~Waiting(LastRelay)
  BY <1>6 DEF Quiet, Absent, Waiting
<1>8. Returning(l) /\ Joined(LastRelay)
  BY <1>5, <1>7
<1>9. fetching \notin {"start", "established", "introduced"} /\ fetching \in {"start", "build", "established", "introduced"}
  BY <1>1, <1>2 DEF Control
<1>10. fetching = "build"
  BY <1>9
<1>11. rendezvousing = "idle"
  BY <1>1, <1>10 DEF Control
<1>12. cookie \in {"none", "held", "used"} /\ ~(cookie # "none") /\ bridged = (cookie = "used")
  BY <1>1, <1>2 DEF Control
<1>13. meeting = NoKey /\ intro = NoKey
  BY <1>1, <1>10 DEF Control
<1>14. Len(ServiceEnd.hops) = 0 /\ ServiceEnd.pending = NoKey
  BY <1>1, <1>11 DEF Control
<1>15. ServiceEnd.e2e = <<>>
  BY <1>1, <1>11 DEF Control
<1>. QED
  BY <1>6, <1>8, <1>10, <1>11, <1>12, <1>13, <1>14, <1>15

\* The client reads the answer to its extend: its circuit w is now v, k hops long and one,
\* and the new hop's leg is l.
Extends(w, v, k, l) ==
  /\ Readable(w) /\ ClientEnd.e2e = <<>> /\ k = Known /\ k > 0 /\ k < PathLen /\ Read = k - 1 /\ meeting' = meeting
  /\ l = LegTo(k + 1) /\ l \in DOMAIN relays /\ ~relays[LegTo(k)].awaiting /\ ClientEnd.pending = l
  /\ ReadStep(v) /\ ExtendedBy(w, v)
NewHop(hop, l) == hop.fn = 0 /\ hop.bn = 0 /\ hop.fd = <<FK(l)>> /\ hop.bd = <<BK(l)>>
Longer(w, v, k, l) ==
  /\ k \in Nat /\ k >= 1 /\ PathLen \in Nat /\ k + 1 <= PathLen /\ Known' = k + 1 /\ Read' = k /\ Sent' = Sent
  /\ Client = LegTo(1) /\ l \in Leg /\ l # Client /\ l # Meet
  /\ Shape' /\ ClientEnd' = v /\ SameService /\ RelaysSame /\ ServiceWayOut' /\ Tables' /\ ClientLayers' = Layers(v)
  /\ Grown(Layers(w), Layers(v), FK(l), BK(l)) /\ NewKey(Layers(w), FK(l)) /\ KeysApart(Layers(v))
  /\ Len(ClientLayers') = k + 1 /\ ClientLayers'[k + 1] = HopState(FK(l), BK(l))
  /\ \A i \in 1..k : ClientLayers'[i] = Layers(w)[i] /\ ClientLayers'[i].fd = ClientLayers[i].fd
  /\ ClientEnd'.e2e = <<>> /\ ClientEnd'.pending = NoKey
  /\ relays' = relays /\ NewHop(relays[l].hop, l) /\ RelayHop(k + 1) = relays[l].hop
  /\ forward[l] = <<>> /\ backward[l] = <<>> /\ forward' = forward /\ held' = held
  /\ Loses(backward, backward', Client) /\ \A m \in Leg : m # Client => backward'[m] = backward[m]
  /\ UNCHANGED <<tables, ends0, excuses>> /\ (lost' => lost)
LEMMA ExtendsLonger ==
  ASSUME Good, NEW w, NEW v, NEW k, NEW l, Extends(w, v, k, l)
  PROVE  Longer(w, v, k, l)
<1>1. /\ Readable(w) /\ ClientEnd.e2e = <<>> /\ k = Known /\ k > 0 /\ k < PathLen /\ Read = k - 1 /\ meeting' = meeting
      /\ l = LegTo(k + 1) /\ l \in DOMAIN relays /\ ~relays[LegTo(k)].awaiting /\ ClientEnd.pending = l
      /\ ReadStep(v) /\ ExtendedBy(w, v)
  BY DEF Extends
<1>2. /\ EndFits("client", v) /\ E2EFits(v, C2H, H2C) /\ NewKey(Layers(w), FK(l)) /\ v.e2e = <<>> /\ Len(v.hops) = k + 1
      /\ v.pending = NoKey /\ v.e2e = w.e2e /\ v.hops = Append(w.hops, HopState(FK(l), BK(l)))
  BY <1>1, ExtendedFits
<1>3. Returning(l)
  BY <1>1, ExtendedStage
<1>4. PICK h, fk, bk : h = HopState(fk, bk) /\ fk = FK(l) /\ bk = BK(l)
  OBVIOUS
<1>5. GrownEnd(w, v, fk, bk)
  BY <1>1, <1>2, <1>4, ReadGrown
<1>6. /\ Shape' /\ ClientEnd' = v /\ SameService /\ RelaysSame /\ ServiceWayOut' /\ Tables' /\ ClientLayers' = Layers(v)
      /\ Grown(Layers(w), Layers(v), fk, bk) /\ KeysApart(Layers(v)) /\ Sent' = Sent /\ Read' = Read + 1
      /\ Len(ClientLayers') = k + 1 /\ ClientLayers'[k + 1] = HopState(fk, bk)
      /\ \A i \in 1..k : ClientLayers'[i] = Layers(w)[i] /\ ClientLayers'[i].fd = ClientLayers[i].fd
  BY <1>1, <1>5 DEF GrownEnd
<1>7. Shape
  BY DEF Good
<1>8. k \in Nat /\ PathLen \in Nat /\ Client = LegTo(1) /\ k >= 1 /\ k + 1 <= PathLen
  BY <1>1, <1>7, KnownIs
<1>9. Known' = k + 1 /\ Read' = k
  BY <1>1, <1>2, <1>6, <1>8 DEF Known
<1>10. l \in Leg /\ l # Client /\ l # Meet
  <2>1. k + 1 \in 1..PathLen /\ k + 1 # 1 /\ k + 1 \in Int /\ 1 \in Int
    BY <1>8
  <2>. QED
    BY <1>1, <1>8, <2>1, LegIs, LegApart
<1>11. /\ relays' = relays /\ forward' = forward /\ held' = held /\ UNCHANGED <<tables, ends0, excuses>> /\ (lost' => lost)
       /\ Loses(backward, backward', Client)
  BY <1>1 DEF ReadStep, ends0
<1>12. \A m \in Leg : m # Client => backward'[m] = backward[m]
  BY <1>11 DEF Loses
<1>13. NewHop(relays[l].hop, l) /\ RelayHop(k + 1) = relays[l].hop /\ forward[l] = <<>> /\ backward[l] = <<>>
  <2>1. forward[l] = <<>> /\ backward[l] = <<>> /\ Fresh(l)
    BY <1>3 DEF Returning
  <2>2. relays[l].hop.fn = 0 /\ relays[l].hop.bn = 0 /\ relays[l].hop.fd = <<FK(l)>> /\ relays[l].hop.bd = <<BK(l)>>
    BY <2>1, FreshIs
  <2>. QED
    BY <1>1, <2>1, <2>2 DEF NewHop, RelayHop
<1>14. ClientEnd'.e2e = <<>> /\ ClientEnd'.pending = NoKey
  BY <1>2, <1>6
<1>15. Grown(Layers(w), Layers(v), FK(l), BK(l)) /\ ClientLayers'[k + 1] = HopState(FK(l), BK(l))
  BY <1>4, <1>6
<1>. QED
  BY <1>2, <1>6, <1>8, <1>9, <1>10, <1>11, <1>12, <1>13, <1>14, <1>15 DEF Longer

\* The way out is a relay longer.
LEMMA ExtendedOut ==
  ASSUME Good, NEW w, NEW v, NEW k, NEW l, Extends(w, v, k, l)
  PROVE  ClientOut'
<1>1. Longer(w, v, k, l) /\ Readable(w) /\ k = Known /\ l = LegTo(k + 1) /\ ClientEnd.e2e = <<>>
  BY ExtendsLonger DEF Extends
<1>2. Inward(w) /\ SaidSame(w) /\ ClientIs /\ ClientOut
  BY <1>1, InwardSays, GoodFacts DEF Readable, Facts, Good
<1>3. PICK ls, ms, fk, bk, x, y, R, Q : /\ ls = Layers(w) /\ ms = Layers(v) /\ fk = FK(l) /\ bk = BK(l) /\ x = held["fetch"] /\ y = held["pump"]
                                        /\ R = Relayed /\ Q = OutQueues
  OBVIOUS
<1>4. PICK R2, Q2 : R2 = Relayed' /\ Q2 = OutQueues'
  OBVIOUS
<1>5. k \in Nat /\ k >= 1 /\ Known' = k + 1 /\ k + 1 \in 1..(k + 1)
  BY <1>1 DEF Longer
<1>6. LayersOK(ls) /\ KeysApart(ls) /\ Chain(ls) = ChainOut /\ ls[1].fn = Sent /\ Len(ls) = k
  <2>1. Len(ls) = k
    <3>1. Len(ClientLayers) = k
      BY <1>1, <1>2, EmptyIs DEF ClientIs, EndLayers, ClientLayers
    <3>. QED
      BY <1>2, <1>3, <3>1 DEF Inward, SameOut
  <2>. QED
    BY <1>2, <1>3, <2>1 DEF Inward, SaidSame
<1>7. OutLine(Chain(ls), k, ls[1].fn, x, y, R, Q)
  <2>1. OutLine(ChainOut, Known, Sent, held["fetch"], held["pump"], Relayed, OutQueues)
    BY <1>1, <1>2, <1>5 DEF ClientOut
  <2>. QED
    BY <1>1, <1>3, <1>6, <2>1
<1>8. Grown(ls, ms, fk, bk) /\ NewKey(ls, fk)
  BY <1>1, <1>3 DEF Longer
<1>9. Len(ls) >= 1 /\ k = Len(ls) /\ k <= Len(ls)
  BY <1>5, <1>6
<1>10. \A i \in 1..k : R2[i].fn = R[i].fn /\ R2[i].fd = R[i].fd /\ Q2[i] = Q[i]
  <2>1. ASSUME NEW i \in 1..k PROVE R2[i] = R[i] /\ Q2[i] = Q[i]
    <3>1. i \in 1..(k + 1)
      BY <1>5
    <3>2. R[i] = RelayHop(i) /\ Q[i] = forward[LegTo(i)]
      BY <1>1, <1>3 DEF Relayed, OutQueues
    <3>3. R2[i] = RelayHop(i)' /\ Q2[i] = forward'[LegTo(i)]
      BY <1>4, <1>5, <3>1 DEF Relayed, OutQueues, LegTo
    <3>. QED
      BY <1>1, <3>2, <3>3 DEF Longer, RelayHop, LegTo
  <2>. QED
    BY <2>1
<1>11. R2[k + 1].fn = 0 /\ R2[k + 1].fd = <<fk>> /\ Q2[k + 1] = <<>>
  <2>1. R2[k + 1] = RelayHop(k + 1)' /\ Q2[k + 1] = forward'[LegTo(k + 1)]
    BY <1>4, <1>5 DEF Relayed, OutQueues, LegTo
  <2>2. R2[k + 1] = relays[l].hop /\ Q2[k + 1] = forward[l]
    BY <1>1, <2>1 DEF Longer, RelayHop, LegTo
  <2>. QED
    BY <1>1, <1>3, <2>2 DEF Longer, NewHop
<1>12. OutLine(Chain(ms), k + 1, ms[1].fn, x, y, R2, Q2)
  <2>1. AsBefore(k, R, Q, R2, Q2) /\ NewAt(k + 1, fk, R2, Q2)
    BY <1>10, <1>11 DEF AsBefore, NewAt
  <2>. QED
    BY ONLY <1>5, <1>6, <1>7, <1>8, <1>9, <2>1, LineExtend
<1>13. LayersOK(ms)
  BY ONLY <1>8 DEF Grown
<1>14. /\ ClientLayers' = ms /\ ChainOut' = Chain(ms) /\ Sent' = ms[1].fn
       /\ held'["fetch"] = x /\ held'["pump"] = y
  BY <1>1, <1>3 DEF Longer, ChainOut, Sent
<1>15. OutLine(ChainOut', Known', Sent', held'["fetch"], held'["pump"], Relayed', OutQueues')
  BY <1>4, <1>5, <1>12, <1>14
<1>16. LayersOK(ClientLayers') /\ ~(Known' = 0)
  BY <1>5, <1>13, <1>14
<1>. QED
  BY <1>15, <1>16 DEF ClientOut

\* What the relays have said: the last known was asked to extend, and the new one nothing.
LEMMA ExtendedSaid ==
  ASSUME Good, NEW w, NEW v, NEW k, NEW l, Extends(w, v, k, l)
  PROVE  RelaysSaid' /\ RelayHop(k).bn = 1 /\ Len(RelayHop(k).bd) = 2
<1>1. Longer(w, v, k, l) /\ k = Known /\ l = LegTo(k + 1) /\ l \in DOMAIN relays /\ ~relays[LegTo(k)].awaiting /\ ClientEnd.pending = l
      /\ k < PathLen /\ k > 0
  BY ExtendsLonger DEF Extends
<1>2. /\ k \in Nat /\ k >= 1 /\ Known' = k + 1 /\ relays' = relays /\ NewHop(relays[l].hop, l) /\ RelayHop(k + 1) = relays[l].hop
      /\ PathLen \in Nat /\ k + 1 <= PathLen /\ cookie' = cookie
  BY <1>1 DEF Longer, tables
<1>3. RelaysSaid /\ Building
  BY DEF Good
<1>4. cookie = "none"
  BY <1>1, ExtendedStage
<1>5. \A i \in 1..k : RelayHop(i).bd = <<BK(LegTo(i)), Extended2(i)>>
  <2>1. ASSUME NEW i \in 1..k PROVE RelayHop(i).bd = <<BK(LegTo(i)), Extended2(i)>>
    <3>1. RelayHop(i).bd = SaidAt(i)
      BY <1>1, <1>3 DEF RelaysSaid
    <3>2. CASE i < k
      BY <1>1, <3>1, <3>2 DEF SaidAt
    <3>3. CASE i = k
      <4>1. ~(i < Known) /\ i < PathLen /\ LegTo(i + 1) \in DOMAIN relays /\ ~relays[LegTo(i)].awaiting
        BY <1>1, <1>2, <3>3
      <4>. QED
        BY <3>1, <4>1 DEF SaidAt
    <3>. QED
      BY <1>2, <3>2, <3>3
  <2>. QED
    BY <2>1
<1>6. RelayHop(k).bn = 1 /\ Len(RelayHop(k).bd) = 2
  <2>1. RelayHop(k).bn + 1 = Len(RelayHop(k).bd)
    BY <1>1, <1>3, <1>4 DEF RelaysSaid
  <2>2. PICK a, b, s : a = BK(LegTo(k)) /\ b = Extended2(k) /\ s = RelayHop(k).bd
    OBVIOUS
  <2>3. s = <<a, b>>
    BY <1>2, <1>5, <2>2
  <2>4. Len(s) = 2
    BY ONLY <2>3, TwoIs
  <2>5. RelayHop(k).bn \in Nat
    <3>1. Good /\ k = Known /\ Known > 0
      BY <1>1
    <3>. QED
      BY <3>1, BackAtLast
  <2>. QED
    BY <2>1, <2>2, <2>4, <2>5
<1>7. ASSUME NEW i \in 1..Known' PROVE RelayHop(i)'.bd = SaidAt(i)'
  <2>1. RelayHop(i)' = RelayHop(i)
    BY <1>2 DEF RelayHop, LegTo
  <2>2. CASE i \in 1..k
    <3>1. i < Known'
      BY <1>2, <2>2
    <3>2. SaidAt(i)' = <<BK(LegTo(i)), Extended2(i)>>
      BY <3>1 DEF SaidAt, BK, Extended2, LegTo, Auth
    <3>. QED
      BY <1>5, <2>1, <2>2, <3>2
  <2>3. CASE i = k + 1
    <3>1. ~(i < Known') /\ LegTo(i) = l /\ RelayHop(i).bd = <<BK(l)>>
      BY <1>1, <1>2, <2>3 DEF NewHop
    <3>2. SaidAt(i)' = <<BK(l)>>
      <4>1. CASE i < PathLen
        <5>1. i + 1 \in 1..PathLen /\ i + 1 > Known + 1
          BY <1>1, <1>2, <2>3, <4>1
        <5>2. LegTo(i + 1) \notin DOMAIN relays
          BY <1>3, <5>1 DEF Building, Quiet, Absent
        <5>3. LegTo(i + 1)' \notin DOMAIN relays'
          BY <1>2, <5>2 DEF LegTo
        <5>. QED
          BY <1>2, <3>1, <4>1, <5>3 DEF SaidAt, BK, LegTo
      <4>2. CASE ~(i < PathLen)
        <5>1. cookie' = "none"
          BY <1>2, <1>4
        <5>. QED
          BY <3>1, <4>2, <5>1 DEF SaidAt, BK, LegTo
      <4>. QED
        BY <4>1, <4>2
    <3>. QED
      BY <2>1, <3>1, <3>2
  <2>. QED
    BY <1>2, <2>2, <2>3
<1>8. RelayHop(Known)'.bn + 1 = Len(RelayHop(Known)'.bd)
  <2>1. RelayHop(Known)' = RelayHop(k + 1)
    BY <1>2 DEF RelayHop, LegTo
  <2>2. PICK h, b, s : h = RelayHop(k + 1) /\ b = BK(l) /\ s = h.bd
    OBVIOUS
  <2>3. h.bn = 0 /\ s = <<b>>
    BY <1>2, <2>2 DEF NewHop
  <2>4. h.bn + 1 = Len(s)
    BY ONLY <2>3, OneIs
  <2>. QED
    BY <2>1, <2>2, <2>4
<1>9. cookie' # "used"
  BY <1>2, <1>4
<1>10. RelaysSaid'
  BY <1>7, <1>8, <1>9 DEF RelaysSaid
<1>. QED
  BY <1>6, <1>10

LEMMA ExtendedControl ==
  ASSUME Good, NEW w, NEW v, NEW k, NEW l, Extends(w, v, k, l)
  PROVE  /\ Control' /\ Bridged' /\ ServiceBack' /\ Timely' /\ ServiceEnd' = ServiceEnd /\ ServiceEnd.e2e = <<>>
         /\ Len(ServiceEnd.hops) = 0 /\ held["clientReader"] = <<>> /\ held["serviceReader"] = <<>>
<1>1. Longer(w, v, k, l) /\ k = Known /\ l = LegTo(k + 1) /\ l \in DOMAIN relays /\ ~relays[LegTo(k)].awaiting /\ ClientEnd.pending = l
      /\ k < PathLen /\ k > 0
  BY ExtendsLonger DEF Extends
<1>2. /\ fetching = "build" /\ rendezvousing = "idle" /\ cookie = "none" /\ ~bridged
      /\ meeting = NoKey /\ intro = NoKey
      /\ Len(ServiceEnd.hops) = 0 /\ ServiceEnd.pending = NoKey /\ ServiceEnd.e2e = <<>>
  BY <1>1, ExtendedStage
<1>3. Control /\ Bridged /\ Timely /\ ClientBack /\ Shape
  BY DEF Good
<1>4. /\ Known' = k + 1 /\ Read' = k /\ ClientEnd'.e2e = <<>> /\ ClientEnd'.pending = NoKey /\ SameService /\ relays' = relays
      /\ k \in Nat /\ PathLen \in Nat /\ UNCHANGED <<tables, ends0, excuses>> /\ (lost' => lost)
  BY <1>1 DEF Longer
<1>5. ServiceEnd' = ServiceEnd
  BY <1>4 DEF SameService
<1>6. Control'
  <2>1. fetching' = "build" /\ rendezvousing' = "idle" /\ meeting' = NoKey /\ intro' = NoKey /\ cookie' = "none" /\ bridged' = bridged
    BY <1>2, <1>4 DEF ends0, tables
  <2>2. NoKey' = NoKey /\ ~(Read' > PathLen)
    BY <1>1, <1>4 DEF NoKey
  <2>3. Len(ServiceEnd'.hops) = 0 /\ ServiceEnd'.pending = NoKey /\ ServiceEnd'.e2e = <<>>
    BY <1>2, <1>5
  <2>4. bridged' = (cookie' = "used")
    BY <1>2, <1>3, <2>1 DEF Control
  <2>. QED
    BY <1>4, <2>1, <2>2, <2>3, <2>4 DEF Control
<1>7. Bridged'
  <2>1. ClientEnd.e2e = <<>>
    BY DEF Extends
  <2>. QED
    BY <1>3, <1>4, <2>1 DEF Bridged, MeetHop, Meet
<1>8. Len(ServiceEnd'.hops) = 0 /\ ~(Len(ServiceEnd'.hops) > 0) /\ Len(ServiceEnd'.hops) # 1
  BY <1>2, <1>5
<1>9. ServiceBack'
  BY <1>8 DEF ServiceBack
<1>10. Timely'
  <2>1. "keys late" \notin excuses' => ~lost'
    BY <1>3, <1>4 DEF Timely
  <2>. QED
    BY <1>8, <2>1 DEF Timely
<1>11. held["clientReader"] = <<>> /\ held["serviceReader"] = <<>>
  BY <1>1, <1>3 DEF ClientBack, Free
<1>. QED
  BY <1>2, <1>5, <1>6, <1>7, <1>9, <1>10, <1>11

\* A chain, and the chain that its next link has joined.
LinkAdded(G, H, k, bk) ==
  /\ ChainOK(G) /\ ChainOK(H) /\ Len(G) = k /\ Len(H) = k + 1 /\ k \in Nat /\ k >= 1
  /\ \A i \in 1..k : H[i].k = G[i].k /\ H[i].o = i - 1 /\ G[i].o = i - 1 /\ H[i].d = G[i].d
  /\ H[k + 1].o = k /\ H[k + 1].d = <<bk>> /\ Len(G[k].d) = 2
LEMMA LinkGrows ==
  ASSUME NEW G, NEW H, NEW k, NEW bk, LinkAdded(G, H, k, bk)
  PROVE  Grows(G, H, k)
<1>1. \A i \in 1..k : IsSeq(G[i].d)
  BY DEF LinkAdded, ChainOK
<1>2. \A i \in 1..k : Len(G[i].d) \in Nat
  BY <1>1, IsSeqShape
<1>. QED
  BY <1>2 DEF LinkAdded, Grows
LEMMA LinkHeard ==
  ASSUME NEW G, NEW H, NEW k, NEW bk, LinkAdded(G, H, k, bk), NEW i \in 1..k, NEW r \in Nat, r + (i - 1) = k, NEW bd,
         Heard(G, i, r, bd)
  PROVE  Heard(H, i, r, bd)
<1>1. /\ Len(G) = k /\ Len(H) = k + 1 /\ k \in Nat /\ k >= 1 /\ H[i].o = i - 1 /\ G[i].o = i - 1 /\ H[i].d = G[i].d
      /\ H[k + 1].o = k
  BY DEF LinkAdded
<1>2. CASE i < k
  <2>1. H[i + 1].o = i /\ G[i + 1].o = i
    BY <1>1, <1>2 DEF LinkAdded
  <2>. QED
    BY <1>1, <1>2, <2>1 DEF Heard
<1>3. CASE i = k
  <2>1. r = 1
    BY <1>1, <1>3
  <2>2. ~(i < Len(G)) /\ ~(r > H[i + 1].o - H[i].o)
    BY <1>1, <1>3, <2>1
  <2>. QED
    BY <1>1, <2>2 DEF Heard
<1>. QED
  BY <1>1, <1>2, <1>3
LEMMA LinkNew ==
  ASSUME NEW G, NEW H, NEW k, NEW bk, LinkAdded(G, H, k, bk)
  PROVE  Heard(H, k + 1, 0, <<bk>>)
<1>1. Len(H) = k + 1 /\ k \in Nat /\ H[k + 1].d = <<bk>> /\ ~(k + 1 < Len(H))
  BY DEF LinkAdded
<1>2. Upto(<<bk>>, 0 + 1) = <<bk>>
  BY UptoOne, OneIs
<1>. QED
  BY <1>1, <1>2 DEF Heard

LEMMA ExtendedLinks ==
  ASSUME Good, NEW w, NEW v, NEW k, NEW l, Extends(w, v, k, l)
  PROVE  LinkAdded(ChainBack, ChainBack', k, BK(l))
<1>1. Longer(w, v, k, l) /\ k = Known /\ l = LegTo(k + 1)
  BY ExtendsLonger DEF Extends
<1>2. /\ k \in Nat /\ k >= 1 /\ Known' = k + 1 /\ relays' = relays /\ NewHop(relays[l].hop, l) /\ RelayHop(k + 1) = relays[l].hop
      /\ Shape' /\ ServiceWayOut'
  BY <1>1 DEF Longer
<1>3. Control' /\ ServiceEnd' = ServiceEnd /\ ServiceEnd.e2e = <<>>
  BY ExtendedControl
<1>4. RelaysSaid' /\ Len(RelayHop(k).bd) = 2
  BY ExtendedSaid
<1>5. BackIs
  BY GoodFacts DEF Facts
<1>6. BackIs'
  BY <1>2, <1>3, <1>4, EndsAreNext, BackChainNext
<1>7. PICK G, H, b : G = ChainBack /\ H = ChainBack' /\ b = BK(l)
  OBVIOUS
<1>8. ChainOK(G) /\ Len(G) = k /\ \A i \in 1..k : G[i].k = BK(LegTo(i)) /\ G[i].o = i - 1 /\ G[i].d = RelayHop(i).bd
  BY <1>1, <1>3, <1>5, <1>7 DEF BackIs
<1>9. ChainOK(H)
  <2>1. ChainOK(ChainBack')
    BY <1>6 DEF BackIs
  <2>. QED
    BY <1>7, <2>1
<1>10. Len(H) = k + 1
  <2>1. Len(ChainBack') = Known'
    BY <1>3, <1>6 DEF BackIs
  <2>. QED
    BY <1>2, <1>7, <2>1
<1>11. \A i \in 1..(k + 1) : H[i].k = BK(LegTo(i)) /\ H[i].o = i - 1 /\ H[i].d = RelayHop(i).bd
  <2>1. \A i \in 1..Known' : ChainBack'[i].k = BK(LegTo(i)) /\ ChainBack'[i].o = i - 1 /\ ChainBack'[i].d = RelayHop(i)'.bd
    BY <1>6 DEF BackIs, BK, LegTo
  <2>2. \A i : RelayHop(i)' = RelayHop(i)
    BY <1>2 DEF RelayHop, LegTo
  <2>. QED
    BY <1>2, <1>7, <2>1, <2>2
<1>12. \A i \in 1..k : i \in 1..(k + 1)
  BY <1>2
<1>13. k + 1 \in 1..(k + 1) /\ k \in 1..k /\ (k + 1) - 1 = k
  BY <1>2
<1>14. H[k + 1].o = k /\ H[k + 1].d = <<b>>
  BY <1>2, <1>7, <1>11, <1>13 DEF NewHop
<1>15. Len(G[k].d) = 2
  BY <1>4, <1>8, <1>13
<1>16. \A i \in 1..k : H[i].k = G[i].k /\ H[i].o = i - 1 /\ G[i].o = i - 1 /\ H[i].d = G[i].d
  BY <1>8, <1>11, <1>12
<1>17. LinkAdded(G, H, k, b)
  BY <1>2, <1>8, <1>9, <1>10, <1>14, <1>15, <1>16 DEF LinkAdded
<1>. QED
  BY <1>7, <1>17

LEMMA ExtendedHears ==
  ASSUME Good, NEW w, NEW v, NEW k, NEW l, Extends(w, v, k, l)
  PROVE  ClientHears'
<1>1. Longer(w, v, k, l) /\ k = Known /\ l = LegTo(k + 1) /\ Readable(w) /\ Read = k - 1
  BY ExtendsLonger DEF Extends
<1>2. PICK G, H, ms, bk : G = ChainBack /\ H = ChainBack' /\ ms = ClientLayers' /\ bk = BK(l)
  OBVIOUS
<1>3. LinkAdded(G, H, k, bk)
  BY <1>2, ExtendedLinks
<1>4. /\ k \in Nat /\ k >= 1 /\ Read' = k /\ Len(ms) = k + 1 /\ PathLen \in Nat /\ k + 1 <= PathLen
      /\ \A i \in 1..k : ms[i] = Layers(w)[i]
  BY <1>1, <1>2 DEF Longer
<1>5. ms[1].bn = k
  BY <1>2, <1>4 DEF Read
<1>6. ms[k + 1].bn = 0 /\ ms[k + 1].bd = <<bk>>
  <2>1. PICK h, fk : h = HopState(fk, bk) /\ fk = FK(l)
    OBVIOUS
  <2>2. ms[k + 1] = h
    BY <1>1, <1>2, <2>1 DEF Longer
  <2>. QED
    BY <2>1, <2>2, HopStateIs
<1>7. \A i \in 1..(k + 1) : Starts(i) = i - 1
  BY <1>4 DEF Starts
<1>8. Len(H) = k + 1
  BY <1>3 DEF LinkAdded
<1>9. ASSUME NEW i \in 1..(k + 1)
      PROVE  ms[i].bn + Starts(i) = ms[1].bn /\ Heard(H, i, ms[i].bn, ms[i].bd)
  <2>1. CASE i \in 1..k
    <3>1. PICK r, bd : r = ms[i].bn /\ bd = ms[i].bd
      OBVIOUS
    <3>2. r + Starts(i) = k /\ Heard(G, i, r, bd)
      <4>1. Layers(w)[i].bn + Starts(i) = Read + 1 /\ Heard(ChainBack, i, Layers(w)[i].bn, Layers(w)[i].bd)
        BY <1>1, <2>1, OlderHear
      <4>. QED
        BY <1>1, <1>2, <1>4, <2>1, <3>1, <4>1
    <3>3. r \in Nat
      <4>1. InwardHears(w)
        BY <1>1 DEF Readable
      <4>2. i \in 1..Len(ClientLayers)
        <5>1. ClientIs
          BY GoodFacts DEF Facts
        <5>2. Len(ClientLayers) = Known + Len(ClientEnd.e2e) /\ Len(ClientEnd.e2e) \in 0..1
          BY <5>1 DEF ClientIs, EndLayers, ClientLayers
        <5>. QED
          BY <1>1, <1>4, <2>1, <5>2
      <4>3. Layers(w)[i].bn \in Nat
        BY <4>1, <4>2 DEF InwardHears
      <4>. QED
        BY <1>4, <2>1, <3>1, <4>3
    <3>4. r + (i - 1) = k
      BY <1>4, <1>7, <2>1, <3>2
    <3>5. Heard(H, i, r, bd)
      BY ONLY <1>3, <2>1, <3>2, <3>3, <3>4, LinkHeard
    <3>. QED
      BY <1>5, <3>1, <3>2, <3>5
  <2>2. CASE i = k + 1
    <3>1. Heard(H, k + 1, 0, <<bk>>)
      BY <1>3, LinkNew
    <3>2. Starts(i) = k
      BY <1>4, <1>7, <2>2
    <3>. QED
      BY <1>4, <1>5, <1>6, <2>2, <3>1, <3>2
  <2>. QED
    BY <1>4, <2>1, <2>2
<1>10. ASSUME NEW i \in 1..Len(ClientLayers') PROVE ClientHeard(i)'
  <2>1. i \in 1..(k + 1)
    BY <1>2, <1>4
  <2>2. ClientLayers'[i].bn + Starts(i)' = ClientLayers'[1].bn
    BY <1>2, <1>9, <2>1 DEF Starts
  <2>3. ~(i > Len(ChainBack'))
    BY <1>2, <1>4, <1>8, <2>1
  <2>4. Heard(ChainBack, i, ClientLayers[i].bn, ClientLayers[i].bd)'
    BY <1>2, <1>9, <2>1 DEF Heard, Upto
  <2>. QED
    BY <2>2, <2>3, <2>4 DEF ClientHeard
<1>. QED
  BY <1>10 DEF ClientHears

LEMMA ExtendedBack ==
  ASSUME Good, NEW w, NEW v, NEW k, NEW l, Extends(w, v, k, l)
  PROVE  ClientBack'
<1>1. Longer(w, v, k, l) /\ k = Known /\ l = LegTo(k + 1) /\ Readable(w) /\ Read = k - 1 /\ k > 0
  BY ExtendsLonger DEF Extends
<1>2. /\ k \in Nat /\ k >= 1 /\ Known' = k + 1 /\ Read' = k /\ relays' = relays /\ Loses(backward, backward', Client) /\ held' = held
      /\ NewHop(relays[l].hop, l) /\ RelayHop(k + 1) = relays[l].hop /\ backward[l] = <<>> /\ l \in Leg /\ l # Client
  BY <1>1 DEF Longer
<1>3. held["clientReader"] = <<>> /\ held["serviceReader"] = <<>>
  BY ExtendedControl
<1>4. PICK G, H, bk, R, Q : G = ChainBack /\ H = ChainBack' /\ bk = BK(l) /\ R = Relayed /\ Q = BackQueues
  OBVIOUS
<1>5. PICK Q1 : Q1 = [i \in 1..k |-> backward'[LegTo(i)]]
  OBVIOUS
<1>6. PICK R2, Q2 : R2 = Relayed' /\ Q2 = BackQueues'
  OBVIOUS
<1>7. PICK t, x : t = Read /\ x = <<>>
  OBVIOUS
<1>8. t \in Nat /\ t + 1 = k
  BY <1>1, <1>2, <1>7
<1>9. BackLine(G, k, t + 1, x, x, R, Q1) /\ BackTurn(G, t + 1, R, k) = BackTurn(G, t, R, k)
  <2>1. Good /\ Shape /\ Known > 0 /\ CellArrives(backward, Client, "relay")
    BY <1>1 DEF Good, Readable
  <2>2. \A i \in 1..k : Q1[i] = backward'[LegTo(i)]
    BY <1>5
  <2>3. x = held["clientReader"] /\ x = held["serviceReader"]
    BY <1>3, <1>7
  <2>. QED
    BY <1>1, <1>2, <1>4, <1>7, <2>1, <2>2, <2>3, ReadLine
<1>10. BackTurn(G, t, R, k) = k
  <2>1. BackTurn(ChainBack, Read, Relayed, Known) = RelayHop(k).bn + (k - 1)
    <3>1. PICK b : b = BackTurn(ChainBack, Read, Relayed, Known)
      OBVIOUS
    <3>2. b = RelayHop(k).bn + (k - 1)
      BY <1>1, <3>1, BackAtLast
    <3>. QED
      BY <3>1, <3>2
  <2>2. RelayHop(k).bn = 1
    BY ExtendedSaid
  <2>. QED
    BY <1>1, <1>2, <1>4, <1>7, <2>1, <2>2
<1>11. LinkAdded(G, H, k, bk) /\ Grows(G, H, k)
  BY <1>4, ExtendedLinks, LinkGrows
<1>12. /\ ChainOK(G) /\ ChainOK(H) /\ k <= Len(G) /\ k + 1 <= Len(H) /\ H[k + 1].o = k
  BY <1>11 DEF LinkAdded
<1>13. \A i \in 1..k : R2[i].bn = R[i].bn /\ Q2[i] = Q1[i]
  <2>1. ASSUME NEW i \in 1..k PROVE R2[i] = R[i] /\ Q2[i] = Q1[i]
    <3>1. i \in 1..(k + 1)
      BY <1>2
    <3>2. R[i] = RelayHop(i) /\ Q1[i] = backward'[LegTo(i)]
      BY <1>1, <1>4, <1>5 DEF Relayed
    <3>3. R2[i] = RelayHop(i)' /\ Q2[i] = backward'[LegTo(i)]
      BY <1>2, <1>6, <3>1 DEF Relayed, BackQueues, LegTo
    <3>. QED
      BY <1>2, <3>2, <3>3 DEF RelayHop, LegTo
  <2>. QED
    BY <2>1
<1>14. R2[k + 1].bn = 0 /\ Q2[k + 1] = <<>>
  <2>1. k + 1 \in 1..(k + 1)
    BY <1>2
  <2>2. R2[k + 1] = RelayHop(k + 1)' /\ Q2[k + 1] = backward'[LegTo(k + 1)]
    BY <1>2, <1>6, <2>1 DEF Relayed, BackQueues, LegTo
  <2>3. RelayHop(k + 1)' = relays[l].hop /\ backward'[LegTo(k + 1)] = backward[l]
    BY <1>1, <1>2 DEF RelayHop, LegTo, Loses
  <2>. QED
    BY <1>2, <2>2, <2>3 DEF NewHop
<1>15. BackTurn(G, k, R, k) = k /\ BackLine(G, k, k, <<>>, <<>>, R, Q1)
  BY <1>7, <1>8, <1>9, <1>10
<1>16. PICK b : b = k
  OBVIOUS
<1>17. b = BackTurn(G, k, R, k) /\ Grows(G, H, b) /\ H[k + 1].o = b
  BY <1>11, <1>12, <1>15, <1>16
<1>18. BackLine(H, k + 1, k, <<>>, <<>>, R2, Q2)
  <2>1. BackBefore(k, R, Q1, R2, Q2) /\ BackNewAt(k + 1, R2, Q2)
    BY <1>13, <1>14 DEF BackBefore, BackNewAt
  <2>. QED
    BY ONLY <1>2, <1>12, <1>15, <1>17, <2>1, BackLineExtend
<1>19. BackLine(ChainBack', Known', Read', held'["clientReader"], held'["serviceReader"], Relayed', BackQueues')
  BY <1>2, <1>3, <1>4, <1>6, <1>18
<1>20. held'["clientReader"] = <<>> /\ held'["serviceReader"] = <<>>
  BY <1>2, <1>3
<1>. QED
  BY <1>19, <1>20 DEF ClientBack, Free

LEMMA ExtendedContents ==
  ASSUME Good, NEW w, NEW v, NEW k, NEW l, Extends(w, v, k, l)
  PROVE  Contents'
<1>1. Longer(w, v, k, l) /\ k = Known /\ Contents
  BY ExtendsLonger DEF Extends, Good
<1>2. /\ k \in Nat /\ Known' = k + 1 /\ fetching' = fetching /\ ClientEnd'.e2e = <<>>
      /\ \A i \in 1..k : ClientLayers'[i].fd = ClientLayers[i].fd
  BY <1>1 DEF Longer, ends0
<1>3. ServiceEnd' = ServiceEnd /\ ServiceEnd.e2e = <<>> /\ Len(ServiceEnd.hops) = 0
  BY ExtendedControl
<1>4. ASSUME NEW i \in 1..Known'
      PROVE  /\ \A q \in 2..Len(ClientLayers[i].fd)' : ExtendSaid(i, ClientLayers[i].fd[q])'
             /\ EstablishSaid(ClientLayers[i].fd)'
  <2>1. PICK d : d = ClientLayers'[i].fd
    OBVIOUS
  <2>2. CASE i \in 1..k
    <3>1. d = ClientLayers[i].fd /\ i # Known'
      BY <1>2, <2>1, <2>2
    <3>2. (\A q \in 2..Len(d) : ExtendSaid(i, d[q])) /\ EstablishSaid(d)
      BY <1>1, <2>2, <3>1 DEF Contents
    <3>3. \A q \in 2..Len(d) : ExtendSaid(i, d[q])'
      BY <3>1, <3>2 DEF ExtendSaid, LegTo
    <3>4. EstablishSaid(d)'
      BY <1>2, <3>2 DEF EstablishSaid
    <3>. QED
      BY <2>1, <3>3, <3>4 DEF ExtendSaid, EstablishSaid, LegTo
  <2>3. CASE i = k + 1
    <3>1. d = <<FK(l)>>
      <4>1. PICK h, fk, bk : h = HopState(fk, bk) /\ fk = FK(l) /\ bk = BK(l)
        OBVIOUS
      <4>2. ClientLayers'[i] = h
        BY <1>1, <2>3, <4>1 DEF Longer
      <4>3. h.fd = <<fk>>
        BY <4>1, HopStateIs
      <4>. QED
        BY <2>1, <4>1, <4>2, <4>3
    <3>2. Len(d) = 1
      <4>1. PICK c : c = FK(l)
        OBVIOUS
      <4>. QED
        BY <3>1, <4>1, OneIs
    <3>3. \A q : q \notin 2..Len(d)
      BY <3>2
    <3>. QED
      BY <2>1, <3>3 DEF EstablishSaid
  <2>. QED
    BY <1>2, <2>2, <2>3
<1>5. (ClientEnd.e2e # <<>> => ClientEnd.e2e[1].fd[1] = C2H)'
  BY <1>2
<1>6. ClientSaid'
  BY <1>4, <1>5 DEF ClientSaid
<1>7. Len(ServiceEnd'.hops) # 1 /\ ServiceEnd'.e2e = <<>>
  BY <1>3
<1>. QED
  BY <1>6, <1>7 DEF Contents, ClientSaid

LEMMA ExtendedBuilding ==
  ASSUME Good, NEW w, NEW v, NEW k, NEW l, Extends(w, v, k, l)
  PROVE  Building'
<1>1. Longer(w, v, k, l) /\ k = Known /\ l = LegTo(k + 1) /\ l \in DOMAIN relays /\ ~relays[LegTo(k)].awaiting /\ ClientEnd.pending = l
      /\ k < PathLen /\ k > 0 /\ Building
  BY ExtendsLonger DEF Extends, Good
<1>2. /\ k \in Nat /\ k >= 1 /\ PathLen \in Nat /\ k + 1 <= PathLen /\ Known' = k + 1 /\ ClientEnd'.pending = NoKey
      /\ relays' = relays /\ forward' = forward /\ Client = LegTo(1) /\ l \in Leg
      /\ \A m \in Leg : m # Client => backward'[m] = backward[m]
  BY <1>1 DEF Longer
<1>3. Returning(l) /\ Joined(LastRelay) /\ LastRelay = relays[LegTo(k)]
  BY <1>1, ExtendedStage
<1>4. ServiceEnd' = ServiceEnd /\ Len(ServiceEnd.hops) = 0
  BY ExtendedControl
<1>5. \A m \in Leg : m # Client => StageSame(m)
  BY <1>2 DEF StageSame
<1>6. /\ \A e \in OriginEnd : Begun(e)
      /\ \A i \in 1..PathLen : i > k + 1 => Quiet(LegTo(i))
      /\ \A i \in 1..(k - 1) : Joined(relays[LegTo(i)])
  BY <1>1 DEF Building
<1>7. Begun("client")'
  <2>1. Len(origin'["client"].hops) # 0
    BY <1>2 DEF Known, ClientEnd
  <2>. QED
    BY <2>1, BegunIsNext
<1>8. Begun("service")'
  <2>1. StageSame(<<"service", 1>>)
    <3>1. Meet \in Leg /\ Meet # Client
      BY <1>2, LegIs, LegApart
    <3>. QED
      BY <1>5, <3>1 DEF Meet
  <2>2. Begun("service") /\ origin'["service"] = origin["service"]
    BY <1>4, <1>6 DEF ServiceEnd, OriginEnd
  <2>. QED
    BY <2>1, <2>2, BegunKept
<1>9. Idle(LastRelay)'
  <2>1. LastRelay' = relays[l]
    BY <1>1, <1>2 DEF LastRelay, LegTo
  <2>2. relays[l].next = FALSE /\ relays[l].awaiting = FALSE
    BY <1>3, FreshIs DEF Returning
  <2>. QED
    BY <2>1, <2>2 DEF Idle
<1>10. ASSUME NEW i \in 1..PathLen, i > k + 1 PROVE Quiet(LegTo(i))'
  <2>1. PICK m : m = LegTo(i)
    OBVIOUS
  <2>2. m \in Leg /\ m # Client /\ Quiet(m)
    <3>1. i # 1 /\ i \in Int
      BY <1>2, <1>10
    <3>. QED
      BY <1>2, <1>6, <1>10, <2>1, <3>1, LegIs, LegApart
  <2>3. Quiet(m)'
    BY <1>5, <2>2, StageKept
  <2>. QED
    BY <2>1, <2>3 DEF Quiet, Absent, LegTo
<1>11. Extending'
  <2>1. SUFFICES ASSUME k + 1 \in 1..(PathLen - 1) PROVE Quiet(LegTo(Known + 1))' /\ Idle(LastRelay)'
    BY <1>2 DEF Extending, NoKey
  <2>2. k + 2 \in 1..PathLen /\ k + 2 > k + 1
    BY <1>2, <2>1
  <2>3. Quiet(LegTo(k + 2))'
    BY <1>10, <2>2
  <2>4. Known' + 1 = k + 2
    BY <1>2
  <2>5. Quiet(LegTo(Known + 1))'
    BY <2>3, <2>4 DEF Quiet, Absent, LegTo
  <2>. QED
    BY <1>9, <2>5
<1>12. ASSUME NEW i \in 1..(Known' - 1) PROVE Joined(relays[LegTo(i)])'
  <2>1. Joined(relays[LegTo(i)])
    <3>1. CASE i = k
      BY <1>3, <3>1
    <3>2. CASE i # k
      <4>1. i \in 1..(k - 1)
        BY <1>2, <3>2
      <4>. QED
        BY <1>6, <4>1
    <3>. QED
      BY <3>1, <3>2
  <2>. QED
    BY <1>2, <2>1 DEF Joined, LegTo
<1>13. \A i \in 1..PathLen : i > Known' + 1 => Quiet(LegTo(i))'
  <2>1. ASSUME NEW i \in 1..PathLen, i > Known' + 1 PROVE Quiet(LegTo(i))'
    <3>1. i > k + 1
      BY <1>2, <2>1
    <3>. QED
      BY <1>10, <3>1
  <2>. QED
    BY <2>1
<1>14. Len(ServiceEnd'.hops) # 1
  BY <1>4
<1>15. \A e \in OriginEnd : Begun(e)'
  BY <1>7, <1>8 DEF OriginEnd
<1>16. (Known = PathLen => ClientEnd.pending = NoKey /\ Idle(LastRelay))'
  BY <1>2, <1>9 DEF NoKey
<1>. QED
  BY <1>11, <1>12, <1>13, <1>14, <1>15, <1>16 DEF Building, OriginEnd

LEMMA ReadExtendedGood ==
  ASSUME Good, NEW w, NEW v, NEW k, NEW l, Extends(w, v, k, l)
  PROVE  Good'
<1>1. Shape' /\ ServiceWayOut'
  BY ExtendsLonger DEF Longer
<1>2. Building' /\ Contents'
  BY ExtendedBuilding, ExtendedContents
<1>3. ClientOut' /\ RelaysSaid'
  BY ExtendedOut, ExtendedSaid
<1>4. ClientHears' /\ ClientBack'
  BY ExtendedHears, ExtendedBack
<1>5. Control' /\ Bridged' /\ ServiceBack' /\ Timely'
  BY ExtendedControl
<1>. QED
  BY <1>1, <1>2, <1>3, <1>4, <1>5 DEF Good

LEMMA ClientReadsGood ==
  ASSUME Good, ClientReads
  PROVE  Good'
<1>1. PICK w : /\ Readable(w)
               /\ \/ ReadStep(w) /\ (Read + 1 > PathLen => ClientEnd.e2e # <<>>) /\ meeting' = meeting
                  \/ /\ Known < PathLen /\ ClientEnd.e2e = <<>> /\ Read = Known - 1 /\ meeting' = meeting
                     /\ LegTo(Known + 1) \in DOMAIN relays /\ ~relays[LegTo(Known)].awaiting
                     /\ ClientEnd.pending = LegTo(Known + 1) /\ \E v : ReadStep(v) /\ ExtendedBy(w, v)
                  \/ /\ Known = PathLen /\ ClientEnd.e2e = <<>> /\ Read = PathLen /\ cookie = "used" /\ meeting' = NoKey
                     /\ fetching = "introduced" /\ \E v : ReadStep(v) /\ MetBy(w, v)
  BY ReadForms
<1>2. CASE ReadStep(w) /\ (Read + 1 > PathLen => ClientEnd.e2e # <<>>) /\ meeting' = meeting
  BY <1>1, <1>2, ReadPlainGood
<1>3. CASE /\ Known < PathLen /\ ClientEnd.e2e = <<>> /\ Read = Known - 1 /\ meeting' = meeting
           /\ LegTo(Known + 1) \in DOMAIN relays /\ ~relays[LegTo(Known)].awaiting
           /\ ClientEnd.pending = LegTo(Known + 1) /\ \E v : ReadStep(v) /\ ExtendedBy(w, v)
  <2>1. PICK v : ReadStep(v) /\ ExtendedBy(w, v)
    BY <1>3
  <2>2. PICK k, l : k = Known /\ l = LegTo(k + 1)
    OBVIOUS
  <2>3. k > 0
    <3>1. Places /\ Shape
      BY GoodFacts DEF Facts, Good
    <3>2. CellArrives(backward, Client, "relay")
      BY <1>1 DEF Readable
    <3>3. Client = LegTo(1) /\ 1 \in 1..PathLen /\ Known \in Nat
      BY <3>1, KnownIs
    <3>4. 1 \in 1..Known
      BY <3>1, <3>2, <3>3 DEF Places
    <3>. QED
      BY <2>2, <3>3, <3>4
  <2>4. Extends(w, v, k, l)
    BY <1>1, <1>3, <2>1, <2>2, <2>3 DEF Extends
  <2>. QED
    BY <2>4, ReadExtendedGood
<1>4. CASE /\ Known = PathLen /\ ClientEnd.e2e = <<>> /\ Read = PathLen /\ cookie = "used" /\ meeting' = NoKey
           /\ fetching = "introduced" /\ \E v : ReadStep(v) /\ MetBy(w, v)
  <2>1. PICK v : ReadStep(v) /\ MetBy(w, v)
    BY <1>4
  <2>. QED
    BY <1>1, <1>4, <2>1, ReadMetGood
<1>. QED
  BY <1>1, <1>2, <1>3, <1>4

\* A cell that has come to the service was said by the client, end to end.
ComesToService(G, p, T) ==
  /\ Len(ServiceEnd.hops) = 1 /\ T \in Nat /\ T < MeetHop.bn /\ ChainOK(G) /\ Len(G) = 2
  /\ p = CellOf(G, 1, 2, T) /\ EndsAt(G, 2, T)
  /\ G[1].k = BK(Meet) /\ G[1].o = 0 /\ G[2].k = C2H /\ G[2].o = 0
  /\ ClientEnd.e2e # <<>> /\ cookie = "used" /\ Known = PathLen

LEMMA ServiceReadAt ==
  ASSUME Good, CellArrives(backward, Meet, "relay"), NEW p, p = Head(backward[Meet]), NEW T, T = ServiceLayers[1].bn,
         NEW G, G = MeetBack
  PROVE  ComesToService(G, p, T)
<1>1. Shape /\ ServiceBack /\ Bridged
  BY DEF Good
<1>2. MeetBackIs /\ Places
  BY GoodFacts DEF Facts
<1>3. Len(ServiceEnd.hops) = 1
  BY <1>2 DEF Places
<1>4. PICK R, Q, Q2, e, m, w, y : /\ R = <<MeetHop>> /\ Q = <<backward[Meet]>> /\ Q2 = <<Tail(backward[Meet])>> /\ e = <<>>
                                  /\ m = 1 /\ w = T /\ y = MeetHop.bn
  OBVIOUS
<1>5. BackLine(G, m, w, e, e, R, Q)
  BY <1>1, <1>3, <1>4 DEF ServiceBack
<1>6. Q[1] # <<>> /\ Q2[1] = Tail(Q[1]) /\ (\A i \in 2..m : Q2[i] = Q[i]) /\ Head(Q[1]) = p
  BY <1>4 DEF CellArrives
<1>7. m \in Nat /\ m >= 1 /\ ChainOK(G) /\ m <= Len(G)
  BY <1>2, <1>4 DEF MeetBackIs
<1>8. CellOK(G, Head(Q[1]), 1, w) /\ w \in Nat /\ w < BackTurn(G, w, R, m)
  BY ONLY <1>5, <1>6, <1>7, BackLineRead
<1>9. BackTurn(G, w, R, m) = y /\ y \in Nat
  BY <1>3, <1>4, MeetRead
<1>10. y > 0 /\ T < y /\ T \in Nat
  BY <1>4, <1>8, <1>9
<1>11. ClientEnd.e2e # <<>>
  <2>1. Meet \in DOMAIN relays
    BY <1>1, <1>3, KnownIs
  <2>2. MeetHop.bn # 0
    BY <1>4, <1>10
  <2>. QED
    BY <1>1, <2>1, <2>2 DEF Bridged
<1>12. cookie = "used" /\ Known = PathLen
  BY <1>11, E2EUsed
<1>13. /\ Len(G) = 2 /\ G[1].k = BK(Meet) /\ G[1].o = 0 /\ G[1].d = <<BK(Meet)>> /\ G[2].k = C2H /\ G[2].o = 0
  BY <1>2, <1>11 DEF MeetBackIs
<1>14. PICK h \in 1..Len(G) : 1 <= h /\ EndsAt(G, h, T) /\ p = CellOf(G, 1, h, T)
  BY <1>4, <1>6, <1>8 DEF CellOK
<1>15. h # 1
  <2>1. SUFFICES ASSUME h = 1 PROVE FALSE
    OBVIOUS
  <2>2. T - G[1].o + 2 <= Len(G[1].d)
    BY <1>14, <2>1 DEF EndsAt
  <2>3. Len(G[1].d) = 1
    BY <1>13, OneIs
  <2>4. PICK o, z : o = G[1].o /\ z = Len(G[1].d)
    OBVIOUS
  <2>5. o = 0 /\ z = 1 /\ T - o + 2 <= z
    BY <1>13, <2>2, <2>3, <2>4
  <2>. QED
    BY ONLY <1>10, <2>5
<1>16. h = 2
  <2>1. h \in 1..2
    BY <1>13, <1>14
  <2>. QED
    BY ONLY <1>15, <2>1
<1>. QED
  BY <1>3, <1>4, <1>7, <1>10, <1>11, <1>12, <1>13, <1>14, <1>16 DEF ComesToService

\* So the service has sent its half of the handshake.
LEMMA ServiceSent ==
  ASSUME Good, cookie = "used"
  PROVE  /\ rendezvousing \in {"sent", "installed"} /\ fetching = "introduced" /\ Known = PathLen /\ Len(ServiceEnd.hops) = 1
         /\ (rendezvousing = "installed" <=> ServiceEnd.e2e # <<>>)
         /\ ServiceEnd.hops[1].fd = <<FK(Meet), Rendezvous1>>
<1>1. Shape /\ ServiceWayOut /\ Control /\ Contents
  BY DEF Good
<1>2. Len(ServiceEnd.hops) = 1 /\ MeetHop.fn > 0
  BY <1>1 DEF Control
<1>3. PICK f, s : f = MeetHop.fn /\ s = ServiceLayers[1].fn
  OBVIOUS
<1>4. f \in Nat /\ s \in Nat /\ f <= s
  BY <1>2, <1>3, MeetPassed
<1>5. s > 0
  BY <1>2, <1>3, <1>4
<1>6. ServiceEnd.e2e # <<>> <=> rendezvousing = "installed"
  BY <1>1 DEF Control
<1>7. rendezvousing \in {"sent", "installed"}
  <2>1. SUFFICES ASSUME rendezvousing \notin {"sent", "installed"} PROVE FALSE
    OBVIOUS
  <2>2. ServiceEnd.hops[1].fd = <<FK(Meet)>>
    BY <1>1, <1>2, <2>1 DEF Contents
  <2>3. ServiceEnd.e2e = <<>>
    BY <1>6, <2>1
  <2>4. ServiceIs
    BY <1>1, EndsAre
  <2>5. Len(ServiceLayers) = 1 /\ ServiceLayers[1] = ServiceEnd.hops[1]
    <3>1. Len(ServiceEnd.e2e) = 0
      BY <2>3, EmptyIs
    <3>2. 1 \in 1..1
      OBVIOUS
    <3>. QED
      BY <1>2, <2>4, <3>1, <3>2 DEF ServiceIs, EndLayers, ServiceLayers
  <2>6. Len(ServiceLayers[1].fd) = s + 1
    <3>1. LayersOK(ServiceLayers)
      BY <1>1 DEF ServiceWayOut
    <3>2. 1 \in 1..Len(ServiceLayers) /\ ~(1 < Len(ServiceLayers))
      BY <2>5
    <3>. QED
      BY <1>3, <3>1, <3>2 DEF LayersOK
  <2>7. Len(ServiceLayers[1].fd) = 1
    BY <2>2, <2>5, OneIs
  <2>8. s + 1 = 1
    BY <2>6, <2>7
  <2>. QED
    BY ONLY <1>4, <1>5, <2>8
<1>8. ServiceEnd.hops[1].fd = <<FK(Meet), Rendezvous1>>
  BY <1>1, <1>2, <1>7 DEF Contents
<1>9. Known = PathLen /\ fetching = "introduced"
  BY <1>1, <1>7, ControlSays
<1>. QED
  BY <1>2, <1>6, <1>7, <1>8, <1>9

\* The service's end when it has read a cell.
ServiceInward(w) ==
  /\ SameShape(ServiceEnd, w) /\ SameOut(ServiceLayers, Layers(w)) /\ LayersOK(Layers(w)) /\ KeysApart(Layers(w))
  /\ KeysKept(ServiceLayers, Layers(w))
  /\ Chain(Layers(w)) = ServiceOut /\ Len(Layers(w)) >= 1
  /\ EndFits("service", w) /\ E2EFits(w, H2C, C2H) /\ Len(w.hops) = 1 /\ w.pending = ServiceEnd.pending
  /\ w.e2e # <<>> <=> ServiceEnd.e2e # <<>>
  /\ Layers(w)[1].bn = ServiceLayers[1].bn + 1

LEMMA ServiceInwardIs ==
  ASSUME Good, Len(ServiceEnd.hops) = 1, NEW p, NEW w, w = AfterInbound(ServiceEnd, p)
  PROVE  ServiceInward(w)
<1>1. Shape /\ ServiceWayOut
  BY DEF Good
<1>2. ServiceIs /\ ServiceChain
  BY GoodFacts DEF Facts
<1>3. PICK ls, oc : ls = ServiceLayers /\ oc = ServiceEnd
  OBVIOUS
<1>4. ChainIsFor(ServiceLayers, 1)
  BY <1>2 DEF ServiceChain
<1>5. EndLayers(oc, "service", 1, H2C, C2H)
  BY <1>2, <1>3 DEF ServiceIs
<1>6. Layers(oc) = ls
  BY <1>3 DEF ServiceLayers
<1>7. LayersOK(ls) /\ KeysApart(ls) /\ Len(ls) >= 1
  BY <1>3, <1>4 DEF ChainIsFor
<1>8. OriginOK(oc)
  BY <1>5 DEF EndLayers
<1>9. /\ SameShape(oc, w) /\ SameOut(ls, Layers(w)) /\ LayersOK(Layers(w)) /\ Chain(Layers(w)) = Chain(ls)
      /\ Layers(w)[1].bn = ls[1].bn + 1
  <2>1. LayersOK(Layers(oc)) /\ Len(Layers(oc)) >= 1 /\ w = AfterInbound(oc, p)
    BY <1>3, <1>6, <1>7
  <2>2. /\ SameShape(oc, w) /\ SameOut(Layers(oc), Layers(w)) /\ LayersOK(Layers(w)) /\ Chain(Layers(w)) = Chain(Layers(oc))
        /\ Layers(w)[1].bn = Layers(oc)[1].bn + 1
    BY ONLY <1>8, <2>1, InboundIs
  <2>. QED
    BY <1>6, <2>2
<1>10. KeysKept(ls, Layers(w)) /\ KeysApart(Layers(w))
  BY <1>7, <1>9, SameOutKeeps
<1>11. EndFits("service", w) /\ E2EFits(w, H2C, C2H) /\ Len(w.hops) = 1 /\ (w.e2e # <<>> <=> oc.e2e # <<>>) /\ w.pending = oc.pending
  <2>1. KeysKept(Layers(oc), Layers(w))
    BY <1>6, <1>10
  <2>2. PICK e, k, ck, sk : e = "service" /\ k = 1 /\ ck = H2C /\ sk = C2H
    OBVIOUS
  <2>3. EndLayers(oc, e, k, ck, sk)
    BY <1>5, <2>2
  <2>4. EndFits(e, w) /\ E2EFits(w, ck, sk) /\ Len(w.hops) = k /\ (w.e2e # <<>> <=> oc.e2e # <<>>) /\ w.pending = oc.pending
    BY ONLY <1>9, <2>1, <2>3, FitsAfter
  <2>. QED
    BY <2>2, <2>4
<1>12. Len(Layers(w)) >= 1
  BY <1>7, <1>9 DEF SameOut
<1>. QED
  BY <1>3, <1>9, <1>10, <1>11, <1>12 DEF ServiceInward, ServiceOut

\* It recognises nothing before it has the keys.
LEMMA KnownHasKeys ==
  ASSUME Good, NEW p, NEW G, NEW T, T = ServiceLayers[1].bn, ComesToService(G, p, T), RecognisedBy(ServiceEnd, p) # {}
  PROVE  ServiceEnd.e2e # <<>>
<1>1. Shape /\ ServiceWayOut
  BY DEF Good
<1>2. ServiceIs /\ ServiceChain
  BY GoodFacts DEF Facts
<1>3. /\ Len(ServiceEnd.hops) = 1 /\ T \in Nat /\ ChainOK(G) /\ Len(G) = 2 /\ p = CellOf(G, 1, 2, T) /\ G[1].k = BK(Meet) /\ G[1].o = 0
  BY DEF ComesToService
<1>4. PICK oc : oc = ServiceEnd
  OBVIOUS
<1>5. EndLayers(oc, "service", 1, H2C, C2H) /\ Layers(oc) = ServiceLayers
  BY <1>2, <1>3, <1>4 DEF ServiceIs, ServiceLayers
<1>6. SUFFICES ASSUME oc.e2e = <<>> PROVE FALSE
  BY <1>4
<1>7. Len(Layers(oc)) = 1 /\ Layers(oc)[1].bk = BK(Meet)
  <2>1. Len(oc.e2e) = 0
    BY <1>6, EmptyIs
  <2>2. 1 \in 1..1
    OBVIOUS
  <2>. QED
    BY <1>5, <2>1, <2>2 DEF EndLayers, Meet
<1>8. PICK i, h : i = 1 /\ h = 2
  OBVIOUS
<1>9. i \in Nat /\ h \in 1..Len(G) /\ i < h /\ T \in Int
  BY <1>3, <1>8
<1>10. \A q \in 1..i : G[q].k = Layers(oc)[q].bk /\ Layers(oc)[q].bn = T - G[q].o
  <2>1. \A q \in 1..i : q = 1
    BY <1>8
  <2>2. G[1].k = Layers(oc)[1].bk
    BY <1>3, <1>7
  <2>3. Layers(oc)[1].bn = T /\ T - G[1].o = T
    BY <1>3, <1>5
  <2>. QED
    BY <2>1, <2>2, <2>3
<1>11. i \notin RecognisedBy(oc, CellOf(G, 1, h, T))
  BY ONLY <1>3, <1>9, <1>10, NotRecognised, Zenon
<1>12. RecognisedBy(oc, p) \subseteq 1..Len(Layers(oc))
  <2>1. LayersOK(Layers(oc)) /\ Len(Layers(oc)) >= 1 /\ OriginOK(oc)
    BY <1>1, <1>5, <1>7 DEF ServiceWayOut, EndLayers
  <2>2. PICK w : w = AfterInbound(oc, p)
    OBVIOUS
  <2>. QED
    BY ONLY <2>1, <2>2, InboundIs
<1>13. 1 \notin RecognisedBy(oc, p)
  BY <1>3, <1>8, <1>11
<1>14. RecognisedBy(oc, p) \subseteq 1..1
  BY <1>7, <1>12
<1>. QED
  BY <1>4, <1>13, <1>14

InTime == "keys late" \notin excuses
\* With the keys in time, it recognises the cell and has heard all that came.
LEMMA ServiceHearsIt ==
  ASSUME Good, NEW p, NEW G, NEW T, T = ServiceLayers[1].bn, G = MeetBack, ComesToService(G, p, T), InTime,
         ServiceEnd.e2e # <<>>, NEW w, w = AfterInbound(ServiceEnd, p)
  PROVE  /\ RecognisedBy(ServiceEnd, p) # {} /\ w.e2e[1].bn = T + 1 /\ w.e2e[1].bd = Upto(G[2].d, (T + 1) + 1)
<1>1. Shape /\ ServiceWayOut /\ Timely
  BY DEF Good
<1>2. ServiceIs /\ ServiceChain
  BY GoodFacts DEF Facts
<1>3. /\ Len(ServiceEnd.hops) = 1 /\ T \in Nat /\ ChainOK(G) /\ Len(G) = 2 /\ p = CellOf(G, 1, 2, T) /\ EndsAt(G, 2, T)
      /\ G[1].k = BK(Meet) /\ G[1].o = 0 /\ G[2].k = C2H /\ G[2].o = 0 /\ ClientEnd.e2e # <<>>
  BY DEF ComesToService
<1>4. PICK oc, ls : oc = ServiceEnd /\ ls = ServiceLayers
  OBVIOUS
<1>5. EndLayers(oc, "service", 1, H2C, C2H) /\ Layers(oc) = ls
  BY <1>2, <1>3, <1>4 DEF ServiceIs, ServiceLayers
<1>6. /\ Len(ls) = 2 /\ ls[1].bk = BK(Meet) /\ ls[2] = oc.e2e[1] /\ ls[2].bk = C2H
      /\ OriginOK(oc) /\ IsSeq(ls)
  <2>1. Len(oc.e2e) = 1
    BY <1>4, <1>5 DEF EndLayers
  <2>2. 1 \in 1..1 /\ 1 + 1 = 2
    OBVIOUS
  <2>3. OriginOK(oc) /\ IsSeq(ls) /\ Len(ls) = 2
    BY <1>5, <2>1 DEF EndLayers
  <2>4. ls[1].bk = BK(Meet)
    BY <1>5, <2>2 DEF EndLayers, Meet
  <2>5. ls[2] = oc.e2e[1] /\ ls[2].bk = C2H
    BY <1>4, <1>5, <2>2 DEF EndLayers
  <2>. QED
    BY <2>3, <2>4, <2>5
<1>7. ls[2].bn = T /\ Heard(G, 2, ls[2].bn, ls[2].bd)
  BY <1>1, <1>3, <1>4, <1>6 DEF Timely, InTime
<1>8. ls[2].bd = Upto(G[2].d, T + 1)
  <2>1. ~(2 < Len(G))
    BY <1>3
  <2>. QED
    BY <1>7, <2>1 DEF Heard
<1>9. PICK h : h = 2
  OBVIOUS
<1>10. \A q \in 1..h : G[q].k = Layers(oc)[q].bk /\ Layers(oc)[q].bn = T - G[q].o
  <2>1. \A q \in 1..h : q = 1 \/ q = 2
    BY <1>9
  <2>2. G[1].k = ls[1].bk /\ ls[1].bn = T /\ T - G[1].o = T
    BY <1>3, <1>4, <1>6
  <2>3. G[2].k = ls[2].bk /\ ls[2].bn = T /\ T - G[2].o = T
    BY <1>3, <1>6, <1>7
  <2>. QED
    BY <1>5, <2>1, <2>2, <2>3
<1>11. T \in Int /\ h \in 1..Len(G) /\ IsSeq(Layers(oc)) /\ h = Len(Layers(oc)) /\ EndsAt(G, h, T)
  BY <1>3, <1>5, <1>6, <1>9
<1>12. Layers(oc)[h].bd = Upto(G[h].d, T - G[h].o + 1)
  <2>1. T - G[2].o + 1 = T + 1
    BY <1>3
  <2>. QED
    BY <1>5, <1>8, <1>9, <2>1
<1>13. /\ RecognisedBy(oc, CellOf(G, 1, h, T)) = {h}
       /\ Append(Layers(oc)[h].bd, CellOf(G, 1, h, T).cell) = Upto(G[h].d, T - G[h].o + 2)
  <2>1. ChainOK(G) /\ T \in Int /\ h \in 1..Len(G) /\ IsSeq(Layers(oc)) /\ h = Len(Layers(oc))
    BY <1>3, <1>11
  <2>2. \A q \in 1..h : G[q].k = Layers(oc)[q].bk /\ Layers(oc)[q].bn = T - G[q].o
    BY <1>10
  <2>3. EndsAt(G, h, T)
    BY <1>11
  <2>4. LastTurn(oc, G, h, T)
    BY ONLY <2>1, <2>2, <2>3, <1>12 DEF LastTurn
  <2>. QED
    BY ONLY <2>4, RecognisedLast
<1>14. RecognisedBy(oc, p) = {2} /\ Append(ls[2].bd, p.cell) = Upto(G[2].d, (T + 1) + 1)
  <2>1. T - G[2].o + 2 = (T + 1) + 1
    BY <1>3
  <2>. QED
    BY <1>3, <1>5, <1>9, <1>13, <2>1
<1>15. TakenIn(ls[2], Layers(w)[2], TRUE, 2 = Len(ls), p.cell)
  <2>1. LayersOK(Layers(oc)) /\ Len(Layers(oc)) >= 1 /\ OriginOK(oc) /\ w = AfterInbound(oc, p)
    BY <1>1, <1>4, <1>5, <1>6 DEF ServiceWayOut
  <2>2. RecognisedBy(oc, p) = {Len(Layers(oc))}
    BY <1>5, <1>6, <1>14
  <2>3. RecognisedBy(oc, p) = {Len(Layers(oc))} =>
          \A i \in 1..Len(Layers(oc)) : TakenIn(Layers(oc)[i], Layers(w)[i], TRUE, i = Len(Layers(oc)), p.cell)
    BY ONLY <2>1, InboundIs
  <2>4. 2 \in 1..Len(Layers(oc))
    BY <1>5, <1>6
  <2>. QED
    BY <1>5, <2>2, <2>3, <2>4
<1>16. Layers(w)[2].bn = T + 1 /\ Layers(w)[2].bd = Upto(G[2].d, (T + 1) + 1)
  <2>1. PICK tick, mine, l, m, cell : tick = TRUE /\ mine = (2 = Len(ls)) /\ l = ls[2] /\ m = Layers(w)[2] /\ cell = p.cell
    OBVIOUS
  <2>2. IsHop(l)
    <3>1. LayersOK(ls)
      BY <1>1, <1>4 DEF ServiceWayOut
    <3>2. 2 \in 1..Len(ls)
      BY <1>6
    <3>. QED
      BY <2>1, <3>1, <3>2 DEF LayersOK
  <2>3. TakenIn(l, m, tick, mine, cell)
    BY <1>15, <2>1
  <2>4. m.bn = (IF tick THEN l.bn + 1 ELSE l.bn) /\ m.bd = (IF mine THEN Append(l.bd, cell) ELSE l.bd)
    BY ONLY <2>2, <2>3, TakenHop
  <2>. QED
    BY <1>6, <1>7, <1>14, <2>1, <2>4
<1>17. w.e2e[1] = Layers(w)[2]
  <2>1. ServiceInward(w)
    BY <1>3, ServiceInwardIs
  <2>2. SameShape(oc, w)
    BY <1>4, <2>1 DEF ServiceInward
  <2>3. Len(oc.e2e) = 1 /\ Len(oc.hops) = 1
    BY <1>3, <1>4, <1>5 DEF EndLayers
  <2>4. 1 \in 1..1 /\ 1 + 1 = 2
    OBVIOUS
  <2>. QED
    BY <2>2, <2>3, <2>4 DEF SameShape
<1>. QED
  BY <1>4, <1>14, <1>16, <1>17

\* The step, whether the service answers or not.
ServiceStep(v) ==
  /\ origin' = [origin EXCEPT !["service"] = v] /\ Loses(backward, backward', Meet) /\ Tables'
  /\ \A l \in Leg : l # Meet => forward'[l] = forward[l]
  /\ UNCHANGED <<relays, held, tables, ends0>>
ReadAs(v, T) ==
  /\ EndFits("service", v) /\ E2EFits(v, H2C, C2H) /\ Len(v.hops) = 1 /\ v.pending = ServiceEnd.pending
  /\ v.e2e # <<>> <=> ServiceEnd.e2e # <<>>
  /\ Layers(v)[1].bn = T + 1
HeardInTime(v, G, T) ==
  InTime' => ~lost' /\ ServiceEnd.e2e # <<>> /\ v.e2e[1].bn = T + 1 /\ v.e2e[1].bd = Upto(G[2].d, (T + 1) + 1)

LEMMA ServiceReadRest ==
  ASSUME Good, NEW p, NEW G, NEW T, T = ServiceLayers[1].bn, G = MeetBack, ComesToService(G, p, T), backward[Meet] # <<>>,
         NEW v, ServiceStep(v), ReadAs(v, T), HeardInTime(v, G, T)
  PROVE  /\ Shape' /\ ServiceEnd' = v /\ SameClient /\ RelaysSame /\ ServiceLayers' = Layers(v) /\ Building'
         /\ ClientOut' /\ RelaysSaid' /\ Bridged' /\ SaidStill /\ BackHopsStill /\ (ChainBack' = ChainBack => ClientHears' /\ ClientBack')
         /\ ServiceBack' /\ Timely'
<1>1. Shape /\ ServiceBack
  BY DEF Good
<1>2. /\ Len(ServiceEnd.hops) = 1 /\ T \in Nat /\ ChainOK(G) /\ Len(G) = 2 /\ ClientEnd.e2e # <<>>
  BY DEF ComesToService
<1>3. /\ origin' = [origin EXCEPT !["service"] = v] /\ Loses(backward, backward', Meet) /\ Tables'
      /\ UNCHANGED <<relays, held, tables, ends0>>
  BY DEF ServiceStep
<1>4. /\ EndFits("service", v) /\ E2EFits(v, H2C, C2H) /\ Len(v.hops) = 1 /\ v.pending = ServiceEnd.pending
      /\ Layers(v)[1].bn = T + 1
  BY DEF ReadAs
<1>5. Shape' /\ ServiceEnd' = v /\ SameClient /\ RelaysSame
  BY <1>1, <1>3, <1>4, ServiceChanges
<1>6. \A l \in Leg : l # Meet => forward'[l] = forward[l] /\ backward'[l] = backward[l]
  BY <1>3 DEF Loses, ServiceStep
<1>7. ClientOut' /\ RelaysSaid' /\ Bridged' /\ SaidStill /\ BackHopsStill /\ (ChainBack' = ChainBack => ClientHears' /\ ClientBack')
  BY <1>3, <1>5, <1>6, ServiceMoves
<1>8. ServiceLayers' = Layers(v)
  BY <1>5 DEF ServiceLayers
<1>9. Building'
  <2>1. CircuitsStay
    BY <1>2, <1>4, <1>5 DEF CircuitsStay, OriginEnd, SameClient, ClientEnd, ServiceEnd
  <2>. QED
    BY <1>2, <1>5, <1>6, <2>1, ServiceBuilding
<1>10. MeetBack' = MeetBack /\ ClientEnd' = ClientEnd
  BY <1>5 DEF SameClient
<1>11. ServiceBack'
  <2>1. PICK R, Q, Q2, e, m, w : /\ R = <<MeetHop>> /\ Q = <<backward[Meet]>> /\ Q2 = <<backward'[Meet]>> /\ e = <<>>
                                 /\ m = 1 /\ w = T
    OBVIOUS
  <2>2. BackLine(G, m, w, e, e, R, Q)
    BY <1>1, <1>2, <2>1 DEF ServiceBack
  <2>3. backward'[Meet] = Tail(backward[Meet])
    BY <1>3 DEF Loses
  <2>4. Q[1] # <<>> /\ Q2[1] = Tail(Q[1]) /\ (\A i \in 2..m : Q2[i] = Q[i])
    BY <2>1, <2>3
  <2>5. m \in Nat /\ m >= 1 /\ ChainOK(G) /\ m <= Len(G)
    BY <1>2, <2>1
  <2>6. BackLine(G, m, w + 1, e, e, R, Q2)
    BY ONLY <2>2, <2>4, <2>5, BackLineRead
  <2>7. MeetHop' = MeetHop
    BY <1>5 DEF RelaysSame
  <2>8. ServiceLayers'[1].bn = w + 1
    BY <1>4, <1>8, <2>1
  <2>9. BackLine(MeetBack', 1, ServiceLayers'[1].bn, <<>>, <<>>, <<MeetHop'>>, <<backward'[Meet]>>)
    BY <1>10, <2>1, <2>6, <2>7, <2>8
  <2>. QED
    BY <2>9 DEF ServiceBack, Meet
<1>12. Timely'
  <2>1. SUFFICES ASSUME InTime'
        PROVE  /\ ~lost'
               /\ ServiceEnd'.e2e # <<>>
               /\ ServiceEnd'.e2e[1].bn = ServiceLayers'[1].bn
               /\ ClientEnd'.e2e # <<>>
               /\ Heard(MeetBack', 2, ServiceEnd'.e2e[1].bn, ServiceEnd'.e2e[1].bd)
    BY DEF Timely, InTime
  <2>2. ~lost' /\ ServiceEnd.e2e # <<>> /\ v.e2e[1].bn = T + 1 /\ v.e2e[1].bd = Upto(G[2].d, (T + 1) + 1)
    BY <2>1 DEF HeardInTime
  <2>3. ServiceEnd'.e2e # <<>>
    BY <1>5, <2>2 DEF ReadAs
  <2>4. ServiceEnd'.e2e[1].bn = T + 1 /\ ServiceEnd'.e2e[1].bd = Upto(G[2].d, (T + 1) + 1) /\ ServiceLayers'[1].bn = T + 1
    BY <1>4, <1>5, <1>8, <2>2
  <2>5. ~(2 < Len(G))
    BY <1>2
  <2>6. Heard(G, 2, T + 1, Upto(G[2].d, (T + 1) + 1))
    BY <2>5 DEF Heard
  <2>7. Heard(MeetBack', 2, ServiceEnd'.e2e[1].bn, ServiceEnd'.e2e[1].bd)
    BY <1>10, <2>4, <2>6
  <2>8. ClientEnd'.e2e # <<>>
    BY <1>2, <1>10
  <2>. QED
    BY <2>2, <2>3, <2>4, <2>7, <2>8
<1>. QED
  BY <1>5, <1>7, <1>8, <1>9, <1>11, <1>12

\* The service's end, layer by layer.
LEMMA ServiceParts ==
  ASSUME Good, Len(ServiceEnd.hops) = 1, NEW v, SameShape(ServiceEnd, v), NEW ls, ls = ServiceLayers
  PROVE  /\ ls[1] = ServiceEnd.hops[1] /\ v.hops[1] = Layers(v)[1] /\ 1 \in 1..Len(ls)
         /\ ServiceEnd.e2e = <<>> => Len(ls) = 1
         /\ ServiceEnd.e2e # <<>> => /\ Len(ls) = 2 /\ ls[2] = ServiceEnd.e2e[1] /\ v.e2e[1] = Layers(v)[2] /\ 2 \in 1..Len(ls)
<1>1. ServiceIs
  BY GoodFacts DEF Facts
<1>2. EndLayers(ServiceEnd, "service", 1, H2C, C2H) /\ Layers(ServiceEnd) = ls
  BY <1>1 DEF ServiceIs, ServiceLayers
<1>3. 1 \in 1..1 /\ 1 + 1 = 2
  OBVIOUS
<1>4. ls[1] = ServiceEnd.hops[1] /\ Len(ls) = 1 + Len(ServiceEnd.e2e) /\ Len(ServiceEnd.e2e) \in 0..1
  BY <1>2, <1>3 DEF EndLayers
<1>5. v.hops[1] = Layers(v)[1]
  BY <1>3 DEF SameShape
<1>6. 1 \in 1..Len(ls)
  BY <1>4
<1>7. ServiceEnd.e2e = <<>> => Len(ls) = 1
  BY <1>4, EmptyIs
<1>8. ASSUME ServiceEnd.e2e # <<>>
      PROVE  Len(ls) = 2 /\ ls[2] = ServiceEnd.e2e[1] /\ v.e2e[1] = Layers(v)[2] /\ 2 \in 1..Len(ls)
  <2>1. Len(ServiceEnd.e2e) = 1
    BY <1>2, <1>8 DEF EndLayers
  <2>2. ls[2] = ServiceEnd.e2e[1]
    BY <1>2, <1>3, <1>8 DEF EndLayers
  <2>3. v.e2e[1] = Layers(v)[2]
    BY <1>3, <2>1 DEF SameShape
  <2>4. Len(ls) = 2 /\ 2 \in 1..Len(ls)
    BY <1>4, <2>1
  <2>. QED
    BY <2>2, <2>3, <2>4
<1>. QED
  BY <1>4, <1>5, <1>6, <1>7, <1>8

\* How far things have come is as before: the point is bridged.
LEMMA ServiceReadControl ==
  ASSUME Good, cookie = "used", NEW v, ServiceStep(v), ServiceEnd' = v, Len(v.hops) = 1, v.e2e # <<>> <=> ServiceEnd.e2e # <<>>,
         SameClient, RelaysSame
  PROVE  Control'
<1>1. Control
  BY DEF Good
<1>2. PointEstablished' <=> PointEstablished
  BY DEF PointEstablished, RelaysSame
<1>3. NoKey' = NoKey /\ Meeting' = Meeting
  BY DEF NoKey, Meeting
<1>4. UNCHANGED <<fetching, meeting, intro, cookie, bridged, rendezvousing>>
  BY DEF ServiceStep, tables, ends0
<1>5. ClientEnd' = ClientEnd /\ Known' = Known /\ Read' = Read
  BY DEF SameClient
<1>6. MeetHop' = MeetHop
  BY DEF RelaysSame
<1>7. Len(ServiceEnd'.hops) = 1 /\ (ServiceEnd'.e2e # <<>> <=> ServiceEnd.e2e # <<>>)
  OBVIOUS
<1>8. rendezvousing \in {"sent", "installed"} /\ Len(ServiceEnd.hops) = 1
  BY ServiceSent
<1>. QED
  BY <1>1, <1>2, <1>3, <1>4, <1>5, <1>6, <1>7, <1>8 DEF Control, PointEstablished

LEMMA ServiceReadsQuiet ==
  ASSUME Good, NEW p, NEW G, NEW T, T = ServiceLayers[1].bn, G = MeetBack, ComesToService(G, p, T), backward[Meet] # <<>>,
         NEW w, ServiceInward(w), ServiceStep(w), forward' = forward, HeardInTime(w, G, T)
  PROVE  Good'
<1>1. Shape /\ ServiceWayOut /\ Control /\ Contents
  BY DEF Good
<1>2. Len(ServiceEnd.hops) = 1 /\ cookie = "used"
  BY DEF ComesToService
<1>3. /\ SameShape(ServiceEnd, w) /\ SameOut(ServiceLayers, Layers(w)) /\ LayersOK(Layers(w)) /\ KeysApart(Layers(w))
      /\ Chain(Layers(w)) = ServiceOut /\ Len(w.hops) = 1 /\ (w.e2e # <<>> <=> ServiceEnd.e2e # <<>>)
  BY DEF ServiceInward
<1>4. ReadAs(w, T)
  BY DEF ServiceInward, ReadAs
<1>5. /\ Shape' /\ ServiceEnd' = w /\ SameClient /\ RelaysSame /\ ServiceLayers' = Layers(w) /\ Building'
      /\ ClientOut' /\ RelaysSaid' /\ Bridged' /\ (ChainBack' = ChainBack => ClientHears' /\ ClientBack')
      /\ ServiceBack' /\ Timely'
  BY <1>4, ServiceReadRest
<1>6. PICK ls, ms : ls = ServiceLayers /\ ms = Layers(w)
  OBVIOUS
<1>7. /\ ls[1] = ServiceEnd.hops[1] /\ w.hops[1] = ms[1] /\ 1 \in 1..Len(ls)
      /\ ServiceEnd.e2e # <<>> => /\ ls[2] = ServiceEnd.e2e[1] /\ w.e2e[1] = ms[2] /\ 2 \in 1..Len(ls)
  BY <1>2, <1>3, <1>6, ServiceParts
<1>8. \A i \in 1..Len(ls) : ms[i].fn = ls[i].fn /\ ms[i].fd = ls[i].fd
  BY <1>3, <1>6 DEF SameOut
<1>9. w.hops[1].fd = ServiceEnd.hops[1].fd /\ ms[1].fn = ls[1].fn
  BY <1>7, <1>8
<1>10. ServiceEnd.e2e # <<>> => w.e2e[1].fd = ServiceEnd.e2e[1].fd
  BY <1>7, <1>8
<1>11. MeetHop' = MeetHop /\ Known' = Known
  BY <1>5 DEF RelaysSame, SameClient
<1>12. ServiceWayOut'
  <2>1. ServiceOut' = ServiceOut /\ ServiceLayers'[1].fn = ServiceLayers[1].fn
    BY <1>3, <1>5, <1>6, <1>9 DEF ServiceOut
  <2>2. OutLine(ServiceOut, 1, ServiceLayers[1].fn, <<>>, <<>>, <<MeetHop>>, <<forward[Meet]>>)
    BY <1>1, <1>2 DEF ServiceWayOut
  <2>3. OutLine(ServiceOut', 1, ServiceLayers'[1].fn, <<>>, <<>>, <<MeetHop'>>, <<forward'[Meet]>>)
    BY <1>11, <2>1, <2>2
  <2>4. LayersOK(ServiceLayers')
    BY <1>3, <1>5
  <2>. QED
    BY <2>3, <2>4 DEF ServiceWayOut, Meet
<1>13. ChainBack' = ChainBack
  <2>1. ServiceEnd'.e2e = <<>> <=> ServiceEnd.e2e = <<>>
    BY <1>3, <1>5
  <2>2. CASE ServiceEnd.e2e = <<>>
    BY <1>5, <1>11, <2>1, <2>2 DEF ChainBack, BK, LegTo, H2C, Meeting, ServiceKey, RelaysSame
  <2>3. CASE ServiceEnd.e2e # <<>>
    <3>1. ServiceEnd'.e2e[1].fd = ServiceEnd.e2e[1].fd
      BY <1>5, <1>10, <2>3
    <3>. QED
      BY <1>5, <1>11, <2>1, <2>3, <3>1 DEF ChainBack, BK, LegTo, H2C, Meeting, ServiceKey, RelaysSame
  <2>. QED
    BY <2>2, <2>3
<1>14. Control'
  BY <1>2, <1>3, <1>5, ServiceReadControl
<1>15. Contents'
  <2>1. UNCHANGED <<fetching, rendezvousing>>
    BY DEF ServiceStep, ends0
  <2>2. ClientSaid'
    BY <1>1, <1>5, <2>1, ClientSaidStays
  <2>3. ServiceEnd.hops[1].fd = <<FK(Meet), Rendezvous1>> /\ rendezvousing \in {"sent", "installed"}
    BY <1>2, ServiceSent
  <2>4. (<<FK(Meet), Rendezvous1>>)' = <<FK(Meet), Rendezvous1>>
    BY DEF FK, Meet, Rendezvous1, ServiceKey, Meeting, Auth
  <2>5. ServiceEnd'.hops[1].fd = <<FK(Meet), Rendezvous1>>
    BY <1>5, <1>9, <2>3
  <2>6. (Len(ServiceEnd.hops) = 1 =>
           ServiceEnd.hops[1].fd = IF rendezvousing \in {"sent", "installed"} THEN <<FK(Meet), Rendezvous1>> ELSE <<FK(Meet)>>)'
    BY <2>1, <2>3, <2>4, <2>5
  <2>7. H2C' = H2C
    BY DEF H2C, Meeting, ServiceKey
  <2>8. (ServiceEnd.e2e # <<>> =>
           /\ ServiceEnd.e2e[1].fd[1] = H2C
           /\ \A q \in 2..Len(ServiceEnd.e2e[1].fd) : ServiceEnd.e2e[1].fd[q][1] = "answer")'
    BY <1>1, <1>3, <1>5, <1>10, <2>7 DEF Contents
  <2>. QED
    BY <2>2, <2>6, <2>8 DEF Contents, ClientSaid
<1>. QED
  BY <1>5, <1>12, <1>13, <1>14, <1>15 DEF Good

\* The client has heard no more than the service has said.
LEMMA ServiceAhead ==
  ASSUME Good, cookie = "used", ServiceEnd.e2e # <<>>, NEW r \in Nat, r + (PathLen + 1) = Read, NEW n, n = Len(ServiceEnd.e2e[1].fd)
  PROVE  n \in Nat /\ r + 1 <= n
<1>1. Shape /\ RelaysSaid /\ ServiceWayOut
  BY DEF Good
<1>2. ServiceIs
  BY GoodFacts DEF Facts
<1>3. Known = PathLen /\ Len(ServiceEnd.hops) = 1 /\ ServiceEnd.hops[1].fd = <<FK(Meet), Rendezvous1>>
  BY ServiceSent
<1>4. PathLen \in Nat /\ PathLen >= 1 /\ Known > 0
  BY <1>1, <1>3, KnownIs
<1>5. PICK k, b, bn, f, s, w : /\ k = Known /\ b = BackTurn(ChainBack, Read, Relayed, Known) /\ bn = RelayHop(k).bn
                               /\ f = MeetHop.fn /\ s = ServiceLayers[1].fn /\ w = Read
  OBVIOUS
<1>6. b = bn + (k - 1) /\ bn \in Nat /\ w \in Nat /\ w <= b
  BY <1>4, <1>5, BackAtLast
<1>7. bn + 1 = f + 2
  BY <1>1, <1>4, <1>5 DEF RelaysSaid
<1>8. f \in Nat /\ s \in Nat /\ f <= s
  BY <1>3, <1>5, MeetPassed
<1>9. PICK ls : ls = ServiceLayers
  OBVIOUS
<1>10. /\ Len(ls) = 2 /\ ls[1].fd = <<FK(Meet), Rendezvous1>> /\ ls[2] = ServiceEnd.e2e[1]
  <2>1. EndLayers(ServiceEnd, "service", 1, H2C, C2H) /\ Layers(ServiceEnd) = ls
    BY <1>2, <1>3, <1>9 DEF ServiceIs, ServiceLayers
  <2>2. 1 \in 1..1 /\ 1 + 1 = 2
    OBVIOUS
  <2>3. Len(ServiceEnd.e2e) = 1
    BY <2>1 DEF EndLayers
  <2>4. Len(ls) = 2 /\ ls[1] = ServiceEnd.hops[1] /\ ls[2] = ServiceEnd.e2e[1]
    BY <2>1, <2>2, <2>3 DEF EndLayers
  <2>. QED
    BY <1>3, <2>4
<1>11. PICK t : t = ls[2].fn
  OBVIOUS
<1>12. 2 = s - t + 1 /\ n = t + 1 /\ t \in Nat
  <2>1. LayersOK(ls)
    BY <1>1, <1>9 DEF ServiceWayOut
  <2>2. 1 \in 1..Len(ls) /\ 2 \in 1..Len(ls) /\ 1 < Len(ls) /\ ~(2 < Len(ls)) /\ 1 + 1 = 2
    BY <1>10
  <2>3. Len(ls[1].fd) = ls[1].fn - ls[2].fn + 1 /\ Len(ls[2].fd) = ls[2].fn + 1
    BY <2>1, <2>2 DEF LayersOK
  <2>4. Len(ls[1].fd) = 2
    BY <1>10, TwoIs
  <2>5. t \in Nat
    BY <1>11, <2>1, <2>2, LayersNat
  <2>. QED
    BY <1>5, <1>9, <1>10, <1>11, <2>3, <2>4, <2>5
<1>13. k = PathLen /\ r + (PathLen + 1) = w
  BY <1>3, <1>5
<1>14. w <= bn + (PathLen - 1)
  BY <1>6, <1>13
<1>15. r + 2 <= bn
  BY ONLY <1>4, <1>6, <1>13, <1>14
<1>16. r + 1 <= f
  BY ONLY <1>6, <1>7, <1>8, <1>15
<1>17. n = s /\ n \in Nat
  BY ONLY <1>8, <1>12
<1>. QED
  BY ONLY <1>8, <1>16, <1>17

\* What the service answers is heard after all it has said.
LEMMA AnswerHeard ==
  ASSUME Good, cookie = "used", ServiceEnd.e2e # <<>>, SameClient, RelaysSame, BackIs', ServiceEnd'.e2e # <<>>, NEW cell,
         ServiceEnd'.e2e[1].fd = Append(ServiceEnd.e2e[1].fd, cell), NEW b
  PROVE  ClientHears' /\ Grows(ChainBack, ChainBack', b) /\ ChainOK(ChainBack')
<1>1. Shape /\ ClientHears
  BY DEF Good
<1>2. BackIs /\ ClientIs /\ ClientChain
  BY GoodFacts DEF Facts
<1>3. Known = PathLen /\ PathLen \in Nat /\ PathLen >= 1
  BY <1>1, ServiceSent, KnownIs
<1>4. PICK G, H, m : G = ChainBack /\ H = ChainBack' /\ m = PathLen + 1
  OBVIOUS
<1>5. /\ ChainOK(G) /\ Len(G) = m /\ G[m].k = H2C /\ G[m].o = PathLen + 1 /\ G[m].d = ServiceEnd.e2e[1].fd
      /\ \A i \in 1..Known : G[i].k = BK(LegTo(i)) /\ G[i].o = i - 1 /\ G[i].d = RelayHop(i).bd
  BY <1>2, <1>4 DEF BackIs
<1>6. Known' = Known /\ ClientLayers' = ClientLayers /\ Read' = Read /\ (\A i : RelayHop(i)' = RelayHop(i)) /\ ClientEnd' = ClientEnd
  BY DEF SameClient, RelaysSame
<1>7. /\ ChainOK(H) /\ Len(H) = m /\ H[m].k = H2C /\ H[m].o = PathLen + 1 /\ H[m].d = ServiceEnd'.e2e[1].fd
      /\ \A i \in 1..Known : H[i].k = BK(LegTo(i)) /\ H[i].o = i - 1 /\ H[i].d = RelayHop(i).bd
  <2>1. /\ ChainOK(H) /\ Len(H) = PathLen + 1
        /\ \A i \in 1..Known' : H[i].k = BK(LegTo(i))' /\ H[i].o = i - 1 /\ H[i].d = RelayHop(i)'.bd
        /\ H[PathLen + 1].k = H2C' /\ H[PathLen + 1].o = PathLen + 1 /\ H[PathLen + 1].d = ServiceEnd'.e2e[1].fd
    BY <1>4 DEF BackIs
  <2>2. (\A i : BK(LegTo(i))' = BK(LegTo(i))) /\ H2C' = H2C
    BY DEF BK, LegTo, H2C, Meeting, ServiceKey
  <2>. QED
    BY <1>4, <1>6, <2>1, <2>2
<1>8. m \in 1..Len(G) /\ SaidOnto(G, H, m, cell)
  <2>1. m \in 1..m
    BY <1>3, <1>4
  <2>2. H[m].d = Append(G[m].d, cell)
    BY <1>5, <1>7
  <2>3. ASSUME NEW i \in 1..Len(G) PROVE H[i].k = G[i].k /\ H[i].o = G[i].o /\ (i # m => H[i].d = G[i].d)
    <3>1. i = m \/ i \in 1..Known
      BY <1>3, <1>4, <1>5
    <3>. QED
      BY <1>3, <1>4, <1>5, <1>7, <3>1
  <2>. QED
    BY <1>5, <1>7, <2>1, <2>2, <2>3 DEF SaidOnto
<1>9. Grows(G, H, b)
  BY ONLY <1>5, <1>8, GrowsSaid
<1>10. PICK ls : ls = ClientLayers
  OBVIOUS
<1>11. Len(ls) \in Nat /\ Len(ls) <= m
  <2>1. Len(ls) = Known + Len(ClientEnd.e2e) /\ Len(ClientEnd.e2e) \in 0..1
    BY <1>2, <1>10 DEF ClientIs, EndLayers, ClientLayers
  <2>2. PICK z : z = Len(ClientEnd.e2e)
    OBVIOUS
  <2>3. z \in 0..1 /\ Len(ls) = PathLen + z
    BY <1>3, <2>1, <2>2
  <2>. QED
    BY <1>3, <1>4, <2>3
<1>12. ASSUME NEW i \in 1..Len(ls)
       PROVE  Heard(H, i, ls[i].bn, ls[i].bd) /\ ls[i].bn + Starts(i) = ls[1].bn /\ i <= m /\ i \in Nat
  <2>1. i \in 1..m /\ i <= m /\ i \in Nat /\ i \in 1..Len(G) /\ ~(i > Len(G))
    BY <1>3, <1>4, <1>5, <1>11
  <2>2. ls[i].bn + Starts(i) = ls[1].bn /\ Heard(G, i, ls[i].bn, ls[i].bd)
    BY <1>1, <1>4, <1>10, <2>1 DEF ClientHears, ClientHeard
  <2>3. PICK r, fd : r = ls[i].bn /\ fd = ls[i].bd
    OBVIOUS
  <2>4. r \in Nat
    <3>1. ChainIsFor(ls, Known)
      BY <1>2, <1>3, <1>10 DEF ClientChain
    <3>2. IsHop(ls[i])
      BY <3>1 DEF ChainIsFor
    <3>. QED
      BY <2>3, <3>2 DEF IsHop
  <2>5. i = m => r + 1 <= Len(G[m].d)
    <3>1. SUFFICES ASSUME i = m PROVE r + 1 <= Len(G[m].d)
      OBVIOUS
    <3>2. r + (PathLen + 1) = Read
      <4>1. Starts(i) = PathLen + 1
        BY <1>3, <1>4, <3>1 DEF Starts
      <4>. QED
        BY <1>10, <2>2, <2>3, <4>1 DEF Read
    <3>3. PICK n : n = Len(ServiceEnd.e2e[1].fd)
      OBVIOUS
    <3>4. r + 1 <= n
      BY <2>4, <3>2, <3>3, ServiceAhead
    <3>. QED
      BY <1>5, <3>3, <3>4
  <2>6. m < Len(G) => Len(G[m].d) + G[m].o <= G[m + 1].o
    BY <1>3, <1>4, <1>5
  <2>7. Heard(G, i, r, fd)
    BY <2>2, <2>3
  <2>8. Heard(H, i, r, fd)
    BY ONLY <1>5, <1>8, <2>1, <2>4, <2>5, <2>6, <2>7, HeardSaid
  <2>. QED
    BY <2>1, <2>2, <2>3, <2>8
<1>13. ClientHears'
  <2>1. ASSUME NEW i \in 1..Len(ClientLayers') PROVE ClientHeard(i)'
    <3>1. i \in 1..Len(ls) /\ ClientLayers' = ls
      BY <1>6, <1>10
    <3>2. Starts(i)' = Starts(i)
      BY DEF Starts
    <3>3. Heard(H, i, ls[i].bn, ls[i].bd) /\ ls[i].bn + Starts(i) = ls[1].bn /\ ~(i > Len(H))
      BY <1>3, <1>4, <1>7, <1>12, <3>1
    <3>. QED
      BY <1>4, <3>1, <3>2, <3>3 DEF ClientHeard
  <2>. QED
    BY <2>1 DEF ClientHears
<1>. QED
  BY <1>4, <1>7, <1>9, <1>13

\* The service's end when it has read a cell and answered it.
Answering(oc, v, cell) ==
  /\ SameShape(ServiceEnd, v) /\ SealedFrom(Layers(oc), Layers(v), cell)
  /\ EndFits("service", v) /\ E2EFits(v, H2C, C2H) /\ Len(v.hops) = 1 /\ v.pending = ServiceEnd.pending
  /\ v.e2e # <<>> <=> ServiceEnd.e2e # <<>>
  /\ CellOK(Chain(Layers(v)), Outbound(oc, cell), 1, Layers(oc)[1].fn)

LEMMA AnsweringIs ==
  ASSUME Good, Len(ServiceEnd.hops) = 1, NEW oc, ServiceInward(oc), NEW cell, NEW v, v = AfterOutbound(oc, cell)
  PROVE  Answering(oc, v, cell)
<1>1. ServiceIs
  BY GoodFacts DEF Facts
<1>2. /\ SameShape(ServiceEnd, oc) /\ LayersOK(Layers(oc)) /\ Len(Layers(oc)) >= 1 /\ KeysKept(ServiceLayers, Layers(oc))
      /\ SameOut(ServiceLayers, Layers(oc)) /\ (oc.e2e # <<>> <=> ServiceEnd.e2e # <<>>)
  BY DEF ServiceInward
<1>3. OriginOK(oc)
  BY <1>2 DEF SameShape
<1>4. SameShape(oc, v) /\ SealedFrom(Layers(oc), Layers(v), cell) /\ CellOK(Chain(Layers(v)), Outbound(oc, cell), 1, Layers(oc)[1].fn)
  <2>1. LayersOK(Layers(oc)) /\ Len(Layers(oc)) >= 1 /\ v = AfterOutbound(oc, cell)
    BY <1>2
  <2>. QED
    BY ONLY <1>3, <2>1, OutboundIs
<1>5. SameShape(ServiceEnd, v)
  <2>1. /\ Len(oc.hops) = Len(ServiceEnd.hops) /\ Len(oc.e2e) = Len(ServiceEnd.e2e) /\ oc.pending = ServiceEnd.pending
        /\ Len(Layers(oc)) = Len(Layers(ServiceEnd))
    BY <1>2 DEF SameShape
  <2>2. /\ OriginOK(v) /\ Len(v.hops) = Len(oc.hops) /\ Len(v.e2e) = Len(oc.e2e) /\ v.pending = oc.pending
        /\ Len(Layers(v)) = Len(Layers(oc))
        /\ \A i \in 1..Len(oc.hops) : v.hops[i] = Layers(v)[i]
        /\ \A i \in 1..Len(oc.e2e) : v.e2e[i] = Layers(v)[Len(oc.hops) + i]
    BY <1>4 DEF SameShape
  <2>. QED
    BY <2>1, <2>2 DEF SameShape
<1>6. KeysKept(Layers(ServiceEnd), Layers(v))
  <2>1. KeysKept(Layers(oc), Layers(v))
    BY <1>4, SealKeepsKeys
  <2>2. ServiceLayers = Layers(ServiceEnd) /\ Len(Layers(oc)) = Len(ServiceLayers)
    BY <1>2 DEF ServiceLayers, SameOut
  <2>. QED
    BY <1>2, <2>1, <2>2 DEF KeysKept
<1>7. EndFits("service", v) /\ E2EFits(v, H2C, C2H) /\ Len(v.hops) = 1 /\ (v.e2e # <<>> <=> ServiceEnd.e2e # <<>>) /\ v.pending = ServiceEnd.pending
  <2>1. PICK e, k, ck, sk, se : e = "service" /\ k = 1 /\ ck = H2C /\ sk = C2H /\ se = ServiceEnd
    OBVIOUS
  <2>2. EndLayers(se, e, k, ck, sk) /\ SameShape(se, v) /\ KeysKept(Layers(se), Layers(v))
    BY <1>1, <1>5, <1>6, <2>1 DEF ServiceIs
  <2>3. EndFits(e, v) /\ E2EFits(v, ck, sk) /\ Len(v.hops) = k /\ (v.e2e # <<>> <=> se.e2e # <<>>) /\ v.pending = se.pending
    BY ONLY <2>2, FitsAfter
  <2>. QED
    BY <2>1, <2>3
<1>. QED
  BY <1>4, <1>5, <1>7 DEF Answering

\* What it says then, layer by layer.
LEMMA AnsweringSays ==
  ASSUME Good, Len(ServiceEnd.hops) = 1, ServiceEnd.e2e # <<>>, NEW T, T = ServiceLayers[1].bn, NEW G,
         NEW oc, ServiceInward(oc), NEW cell, NEW v, Answering(oc, v, cell), HeardInTime(oc, G, T)
  PROVE  /\ ReadAs(v, T) /\ HeardInTime(v, G, T) /\ v.hops[1].fd = ServiceEnd.hops[1].fd
         /\ v.e2e[1].fd = Append(ServiceEnd.e2e[1].fd, cell) /\ Layers(oc)[1].fn = ServiceLayers[1].fn
<1>1. PICK ls, os, ms : ls = ServiceLayers /\ os = Layers(oc) /\ ms = Layers(v)
  OBVIOUS
<1>2. SameShape(ServiceEnd, oc) /\ SameOut(ls, os) /\ os[1].bn = T + 1
  BY <1>1 DEF ServiceInward
<1>3. SameShape(ServiceEnd, v) /\ SealedFrom(os, ms, cell)
  BY <1>1 DEF Answering
<1>4. /\ ls[1] = ServiceEnd.hops[1] /\ v.hops[1] = ms[1] /\ 1 \in 1..Len(ls)
      /\ Len(ls) = 2 /\ ls[2] = ServiceEnd.e2e[1] /\ v.e2e[1] = ms[2] /\ 2 \in 1..Len(ls)
  BY <1>1, <1>3, ServiceParts
<1>5. oc.e2e[1] = os[2]
  BY <1>1, <1>2, ServiceParts
<1>6. Len(os) = 2 /\ os[1].fn = ls[1].fn /\ os[1].fd = ls[1].fd /\ os[2].fd = ls[2].fd
  BY <1>2, <1>4 DEF SameOut
<1>7. SealedFields(os, ms, cell)
  BY <1>3, SealFields
<1>8. /\ ms[1].bn = os[1].bn /\ ms[1].fd = os[1].fd
      /\ ms[2].bn = os[2].bn /\ ms[2].bd = os[2].bd /\ ms[2].fd = Append(os[2].fd, cell)
  <2>1. 1 \in 1..Len(os) /\ 2 \in 1..Len(os) /\ 1 # Len(os) /\ 2 = Len(os)
    BY <1>6
  <2>. QED
    BY <1>7, <2>1 DEF SealedFields
<1>9. ReadAs(v, T)
  BY <1>1, <1>2, <1>8 DEF ReadAs, Answering
<1>10. HeardInTime(v, G, T)
  BY <1>4, <1>5, <1>8 DEF HeardInTime
<1>. QED
  BY <1>1, <1>4, <1>6, <1>8, <1>9, <1>10

LEMMA ServiceReadsAnswer ==
  ASSUME Good, NEW p, NEW G, NEW T, T = ServiceLayers[1].bn, G = MeetBack, ComesToService(G, p, T), backward[Meet] # <<>>,
         NEW oc, ServiceInward(oc), ServiceEnd.e2e # <<>>, NEW cell, cell[1] = "answer", NEW v, v = AfterOutbound(oc, cell),
         NEW c, c = Outbound(oc, cell), ServiceStep(v), Gains(forward, forward', Meet, c), HeardInTime(oc, G, T)
  PROVE  Good'
<1>1. Shape /\ ServiceWayOut /\ Control /\ Contents /\ ClientBack
  BY DEF Good
<1>2. Len(ServiceEnd.hops) = 1 /\ cookie = "used"
  BY DEF ComesToService
<1>3. Answering(oc, v, cell)
  BY <1>2, AnsweringIs
<1>4. /\ ReadAs(v, T) /\ HeardInTime(v, G, T) /\ v.hops[1].fd = ServiceEnd.hops[1].fd
      /\ v.e2e[1].fd = Append(ServiceEnd.e2e[1].fd, cell) /\ Layers(oc)[1].fn = ServiceLayers[1].fn
  BY <1>2, <1>3, AnsweringSays
<1>5. /\ Shape' /\ ServiceEnd' = v /\ SameClient /\ RelaysSame /\ ServiceLayers' = Layers(v) /\ Building'
      /\ ClientOut' /\ RelaysSaid' /\ Bridged' /\ BackHopsStill /\ ServiceBack' /\ Timely'
  BY <1>4, ServiceReadRest
<1>6. MeetHop' = MeetHop /\ Known' = Known /\ Read' = Read
  BY <1>5 DEF RelaysSame, SameClient
<1>7. ServiceWayOut'
  <2>1. PICK ls, ms : ls = Layers(oc) /\ ms = Layers(v)
    OBVIOUS
  <2>2. LayersOK(ls) /\ KeysApart(ls) /\ Len(ls) >= 1 /\ Chain(ls) = ServiceOut
    BY <2>1 DEF ServiceInward
  <2>3. SealedFrom(ls, ms, cell) /\ CellOK(Chain(ms), c, 1, ls[1].fn)
    BY <1>3, <2>1 DEF Answering
  <2>4. ServiceLayers' = ms /\ forward'[Meet] = Append(forward[Meet], c)
    BY <1>5, <2>1 DEF Gains
  <2>5. OutLine(Chain(ls), 1, ls[1].fn, <<>>, <<>>, <<MeetHop>>, <<forward[Meet]>>)
    BY <1>1, <1>2, <1>4, <2>1, <2>2 DEF ServiceWayOut
  <2>. QED
    BY <1>6, <2>2, <2>3, <2>4, <2>5, ServiceSendsOut
<1>8. Len(v.hops) = 1 /\ v.e2e # <<>>
  BY <1>4 DEF ReadAs
<1>9. Control'
  BY <1>2, <1>5, <1>8, ServiceReadControl
<1>10. BackIs'
  <2>1. ClientIs' /\ ServiceIs'
    BY <1>5, EndsAreNext
  <2>. QED
    BY <1>5, <1>7, <1>9, <2>1, BackChainNext
<1>11. PICK b : b = BackTurn(ChainBack, Read, Relayed, Known)
  OBVIOUS
<1>12. ClientHears' /\ Grows(ChainBack, ChainBack', b) /\ ChainOK(ChainBack')
  <2>1. ServiceEnd'.e2e # <<>> /\ ServiceEnd'.e2e[1].fd = Append(ServiceEnd.e2e[1].fd, cell)
    BY <1>4, <1>5, <1>8
  <2>. QED
    BY <1>2, <1>5, <1>10, <2>1, AnswerHeard
<1>13. ClientBack'
  <2>1. Known \in Nat /\ Known >= 1 /\ PathLen \in Nat /\ Known = PathLen
    BY <1>1, <1>2, ServiceSent, KnownIs
  <2>2. PICK K, H, m, w, x, y, R, Q, R2, Q2 :
           /\ K = ChainBack /\ H = ChainBack' /\ m = Known /\ w = Read /\ x = held["clientReader"] /\ y = held["serviceReader"]
           /\ R = Relayed /\ Q = BackQueues /\ R2 = Relayed' /\ Q2 = BackQueues'
    OBVIOUS
  <2>3. ChainOK(K) /\ ChainOK(H) /\ m <= Len(K) /\ b = BackTurn(K, w, R, m) /\ Grows(K, H, b) /\ m \in Nat /\ m >= 1
    <3>1. BackIs
      BY GoodFacts DEF Facts
    <3>. QED
      BY <1>11, <1>12, <2>1, <2>2, <3>1 DEF BackIs
  <2>4. BackLine(K, m, w, x, y, R, Q)
    BY <1>1, <2>1, <2>2 DEF ClientBack
  <2>5. \A i \in 1..m : R2[i].bn = R[i].bn /\ Q2[i] = Q[i]
    BY <1>5, <1>6, <2>1, <2>2, RelayedIs DEF BackHopsStill
  <2>6. BackLine(H, m, w, x, y, R2, Q2)
    BY ONLY <2>3, <2>4, <2>5, BackLineGrows
  <2>7. held' = held
    BY DEF ServiceStep
  <2>8. BackLine(ChainBack', Known', Read', held'["clientReader"], held'["serviceReader"], Relayed', BackQueues')
    BY <1>6, <2>2, <2>6, <2>7
  <2>9. ~(Known' < PathLen)
    BY <1>6, <2>1
  <2>. QED
    BY <2>8, <2>9 DEF ClientBack
<1>14. Contents'
  <2>1. UNCHANGED <<fetching, rendezvousing>>
    BY DEF ServiceStep, ends0
  <2>2. ClientSaid'
    BY <1>1, <1>5, <2>1, ClientSaidStays
  <2>3. ServiceEnd.hops[1].fd = <<FK(Meet), Rendezvous1>> /\ rendezvousing \in {"sent", "installed"}
    BY <1>2, ServiceSent
  <2>4. (<<FK(Meet), Rendezvous1>>)' = <<FK(Meet), Rendezvous1>>
    BY DEF FK, Meet, Rendezvous1, ServiceKey, Meeting, Auth
  <2>5. ServiceEnd'.hops[1].fd = <<FK(Meet), Rendezvous1>>
    BY <1>4, <1>5, <2>3
  <2>6. (Len(ServiceEnd.hops) = 1 =>
           ServiceEnd.hops[1].fd = IF rendezvousing \in {"sent", "installed"} THEN <<FK(Meet), Rendezvous1>> ELSE <<FK(Meet)>>)'
    BY <2>1, <2>3, <2>4, <2>5
  <2>7. H2C' = H2C
    BY DEF H2C, Meeting, ServiceKey
  <2>8. PICK q0, q1 : q0 = ServiceEnd.e2e[1].fd /\ q1 = ServiceEnd'.e2e[1].fd
    OBVIOUS
  <2>9. IsSeq(q0) /\ Len(q0) \in Nat /\ Len(q0) >= 1
    <3>1. /\ Len(ServiceLayers) = 2 /\ ServiceLayers[2] = ServiceEnd.e2e[1] /\ 2 \in 1..Len(ServiceLayers)
      <4>1. SameShape(ServiceEnd, v)
        BY <1>3 DEF Answering
      <4>. QED
        BY <1>2, <4>1, ServiceParts
    <3>2. LayersOK(ServiceLayers)
      BY <1>1 DEF ServiceWayOut
    <3>. QED
      BY <2>8, <3>1, <3>2, LayersNat
  <2>10. q1 = Append(q0, cell)
    BY <1>4, <1>5, <2>8
  <2>11. Len(q1) = Len(q0) + 1 /\ q1[Len(q0) + 1] = cell /\ \A i \in 1..Len(q0) : q1[i] = q0[i]
    BY <2>9, <2>10, AppendIs
  <2>12. q0[1] = H2C /\ \A q \in 2..Len(q0) : q0[q][1] = "answer"
    BY <1>1, <2>8 DEF Contents
  <2>13. q1[1] = H2C
    BY <2>9, <2>11, <2>12
  <2>14. ASSUME NEW q \in 2..Len(q1) PROVE q1[q][1] = "answer"
    <3>1. CASE q = Len(q0) + 1
      BY <2>11, <3>1
    <3>2. CASE q # Len(q0) + 1
      <4>1. q \in 2..Len(q0) /\ q \in 1..Len(q0)
        BY <2>9, <2>11, <3>2
      <4>. QED
        BY <2>11, <2>12, <4>1
    <3>. QED
      BY <3>1, <3>2
  <2>15. (ServiceEnd.e2e # <<>> =>
           /\ ServiceEnd.e2e[1].fd[1] = H2C
           /\ \A q \in 2..Len(ServiceEnd.e2e[1].fd) : ServiceEnd.e2e[1].fd[q][1] = "answer")'
    BY <2>7, <2>8, <2>13, <2>14
  <2>. QED
    BY <2>2, <2>6, <2>15 DEF Contents, ClientSaid
<1>. QED
  BY <1>5, <1>7, <1>9, <1>12, <1>13, <1>14 DEF Good

LEMMA ServiceReadsGood ==
  ASSUME Good, ServiceReads
  PROVE  Good'
<1>1. Shape /\ Timely
  BY DEF Good
<1>2. PICK p, G, T, oc, cell, c : /\ p = Head(backward[Meet]) /\ G = MeetBack /\ T = ServiceLayers[1].bn
                                  /\ oc = AfterInbound(origin["service"], p) /\ cell = <<"answer", p.cell[2], 0>>
                                  /\ c = Outbound(oc, cell)
  OBVIOUS
<1>3. PICK known : known = (RecognisedBy(origin["service"], p) # {})
  OBVIOUS
<1>4. /\ CellArrives(backward, Meet, "relay")
      /\ \/ /\ known /\ forward' = On(forward, Meet, c)
            /\ origin' = [origin EXCEPT !["service"] = AfterOutbound(oc, cell)]
         \/ origin' = [origin EXCEPT !["service"] = oc] /\ forward' = forward
      /\ lost' = (lost \/ ~known)
      /\ excuses' = IF rendezvousing = "sent" THEN excuses \union {"keys late"} ELSE excuses
      /\ backward' = Off(backward, Meet)
      /\ UNCHANGED <<relays, held, tables, ends>>
  BY <1>2, <1>3 DEF ServiceReads
<1>5. ComesToService(G, p, T) /\ backward[Meet] # <<>>
  BY <1>2, <1>4, ServiceReadAt DEF CellArrives
<1>6. Len(ServiceEnd.hops) = 1 /\ cookie = "used"
  BY <1>5 DEF ComesToService
<1>7. rendezvousing \in {"sent", "installed"} /\ (rendezvousing = "installed" <=> ServiceEnd.e2e # <<>>)
  BY <1>6, ServiceSent
<1>8. oc = AfterInbound(ServiceEnd, p) /\ known = (RecognisedBy(ServiceEnd, p) # {})
  BY <1>2, <1>3 DEF ServiceEnd
<1>9. ServiceInward(oc)
  BY <1>6, <1>8, ServiceInwardIs
<1>10. known => ServiceEnd.e2e # <<>>
  BY <1>2, <1>5, <1>8, KnownHasKeys
<1>11. HeardInTime(oc, G, T)
  <2>1. SUFFICES ASSUME InTime'
        PROVE  ~lost' /\ ServiceEnd.e2e # <<>> /\ oc.e2e[1].bn = T + 1 /\ oc.e2e[1].bd = Upto(G[2].d, (T + 1) + 1)
    BY DEF HeardInTime
  <2>2. rendezvousing # "sent" /\ excuses' = excuses
    BY <1>4, <2>1 DEF InTime
  <2>3. InTime
    BY <2>1, <2>2 DEF InTime
  <2>4. ServiceEnd.e2e # <<>>
    BY <1>7, <2>2
  <2>5. RecognisedBy(ServiceEnd, p) # {} /\ oc.e2e[1].bn = T + 1 /\ oc.e2e[1].bd = Upto(G[2].d, (T + 1) + 1)
    BY <1>2, <1>5, <1>8, <2>3, <2>4, ServiceHearsIt
  <2>6. ~lost
    BY <1>1, <2>3 DEF Timely, InTime
  <2>7. known
    BY <1>8, <2>5
  <2>8. ~lost'
    BY <1>4, <2>6, <2>7
  <2>. QED
    BY <2>4, <2>5, <2>8
<1>12. Meet \in Leg /\ Loses(backward, backward', Meet)
  <2>1. Meet \in Leg /\ backward = [l \in Leg |-> backward[l]]
    BY <1>1, LegIs DEF Shape
  <2>. QED
    BY <1>4, <2>1, OffIs
<1>13. UNCHANGED <<relays, held, tables, ends0>>
  BY <1>4 DEF ends, ends0
<1>14. CASE origin' = [origin EXCEPT !["service"] = oc] /\ forward' = forward
  <2>1. Tables'
    <3>1. backward' = [l \in Leg |-> backward'[l]]
      BY <1>12 DEF Loses
    <3>. QED
      BY <1>1, <1>13, <1>14, <3>1 DEF Tables, Shape, Leg, OnionTask, OriginEnd, Hops, FromClient, AtPoint
  <2>2. \A l \in Leg : l # Meet => forward'[l] = forward[l]
    BY <1>14
  <2>3. ServiceStep(oc)
    BY <1>12, <1>13, <1>14, <2>1, <2>2 DEF ServiceStep
  <2>. QED
    BY <1>2, <1>5, <1>9, <1>11, <1>14, <2>3, ServiceReadsQuiet
<1>15. CASE known /\ forward' = On(forward, Meet, c) /\ origin' = [origin EXCEPT !["service"] = AfterOutbound(oc, cell)]
  <2>1. PICK v : v = AfterOutbound(oc, cell)
    OBVIOUS
  <2>2. Gains(forward, forward', Meet, c)
    <3>1. forward = [l \in Leg |-> forward[l]]
      BY <1>1 DEF Shape
    <3>. QED
      BY <1>12, <1>15, <3>1, OnIs
  <2>3. Tables'
    <3>1. backward' = [l \in Leg |-> backward'[l]] /\ forward' = [l \in Leg |-> forward'[l]]
      BY <1>12, <2>2 DEF Loses, Gains
    <3>. QED
      BY <1>1, <1>13, <3>1 DEF Tables, Shape, Leg, OnionTask, OriginEnd, Hops, FromClient, AtPoint
  <2>4. \A l \in Leg : l # Meet => forward'[l] = forward[l]
    BY <2>2 DEF Gains
  <2>5. origin' = [origin EXCEPT !["service"] = v]
    BY <1>15, <2>1
  <2>6. ServiceStep(v)
    BY <1>12, <1>13, <2>3, <2>4, <2>5 DEF ServiceStep
  <2>7. cell[1] = "answer" /\ ServiceEnd.e2e # <<>>
    BY <1>2, <1>10, <1>15
  <2>. QED
    BY <1>2, <1>5, <1>9, <1>11, <2>1, <2>2, <2>6, <2>7, ServiceReadsAnswer
<1>. QED
  BY <1>4, <1>14, <1>15

NoLines == forward = [l \in Leg |-> <<>>] /\ backward = [l \in Leg |-> <<>>] /\ DOMAIN relays = {}
LEMMA AllQuiet == NoLines => \A l \in Leg : Quiet(l)
BY DEF NoLines, Quiet, Absent

LEMMA InitGood == OnionInit => Good
<1>. SUFFICES ASSUME OnionInit PROVE Good
  OBVIOUS
<1>1. ClientEnd = NoLayers /\ ServiceEnd = NoLayers
  BY DEF OnionInit, ClientEnd, ServiceEnd, OriginEnd
<1>2. IsSeq(<<>>) /\ Len(<<>>) = 0
  BY EmptyIs
<1>3. OriginOK(NoLayers) /\ NoLayers.hops = <<>> /\ NoLayers.e2e = <<>> /\ NoLayers.pending = NoKey
  BY <1>2 DEF OriginOK, NoLayers
<1>4. Known = 0 /\ Len(ServiceEnd.hops) = 0 /\ ClientEnd.e2e = <<>> /\ ServiceEnd.e2e = <<>> /\ ServiceEnd.pending = NoKey
      /\ ClientEnd.pending = NoKey
  BY <1>1, <1>2, <1>3 DEF Known
<1>5. IsSeq(ClientLayers) /\ Len(ClientLayers) = 0 /\ IsSeq(ServiceLayers) /\ Len(ServiceLayers) = 0
  <2>1. ClientLayers = Layers(NoLayers) /\ ServiceLayers = Layers(NoLayers)
    BY <1>1 DEF ClientLayers, ServiceLayers
  <2>2. IsSeq(Layers(NoLayers)) /\ Len(Layers(NoLayers)) = 0
    <3>1. PICK oc : oc = NoLayers
      OBVIOUS
    <3>2. OriginOK(oc) /\ Len(oc.hops) = 0 /\ Len(oc.e2e) = 0
      BY <3>1, <1>2, <1>3
    <3>3. Len(Layers(oc)) = Len(oc.hops) + Len(oc.e2e) /\ IsSeq(Layers(oc))
      BY <3>2, LayersOf
    <3>. QED
      BY <3>1, <3>2, <3>3
  <2>. QED
    BY <2>1, <2>2
<1>6. LayersOK(ClientLayers) /\ LayersOK(ServiceLayers)
  BY <1>5 DEF LayersOK
<1>7. relays = <<>> /\ DOMAIN relays = {} /\ NoLines
  BY DEF OnionInit, NoLines
<1>8. \A l \in Leg : Quiet(l)
  BY <1>7, AllQuiet
<1>9. PathLen \in Nat /\ PathLen >= 1 /\ (\A i \in 1..PathLen : LegTo(i) \in Leg) /\ Meet \in Leg
  BY LegIs
<1>10. Free("fetch") /\ Free("pump") /\ Free("clientReader") /\ Free("serviceReader")
  BY DEF OnionInit, Free, OnionTask, FromClient, AtPoint
<1>11. Shape
  <2>1. \A e \in OriginEnd : EndOK(e)
    <3>1. \A e \in OriginEnd : origin[e] = NoLayers /\ Hops(e) \in Nat
      BY <1>9 DEF OnionInit, Hops
    <3>. QED
      BY <3>1, <1>2, <1>3 DEF EndOK
  <2>2. DOMAIN origin = OriginEnd /\ origin = [e \in OriginEnd |-> origin[e]]
    BY DEF OnionInit
  <2>3. relays = [l \in DOMAIN relays |-> relays[l]] /\ DOMAIN relays \subseteq Leg
    BY <1>7
  <2>4. forward = [l \in Leg |-> forward[l]] /\ backward = [l \in Leg |-> backward[l]] /\ held = [t \in OnionTask |-> held[t]]
    BY DEF OnionInit
  <2>. QED
    BY <2>1, <2>2, <2>3, <2>4, <1>2, <1>4, <1>7 DEF Shape
<1>12. Building
  <2>1. \A e \in OriginEnd : Begun(e)
    <3>1. \A e \in OriginEnd : origin[e].pending = NoKey /\ <<e, 1>> \in Leg
      <4>1. Client \in Leg /\ Meet \in Leg
        BY <1>9, LegIs
      <4>. QED
        BY <4>1, <1>4 DEF OriginEnd, ClientEnd, ServiceEnd, Client, Meet
    <3>. QED
      BY <3>1, <1>8 DEF Begun
  <2>2. Extending
    BY <1>4 DEF Extending
  <2>3. \A i \in 1..PathLen : Quiet(LegTo(i))
    BY <1>8, <1>9
  <2>4. Known = PathLen => ClientEnd.pending = NoKey /\ Idle(LastRelay)
    BY <1>4, <1>9
  <2>5. \A i \in 1..(Known - 1) : Joined(relays[LegTo(i)])
    <3>1. PICK k : k = Known
      OBVIOUS
    <3>2. k = 0 /\ 1..(k - 1) = {}
      BY <3>1, <1>4
    <3>. QED
      BY <3>1, <3>2
  <2>6. Len(ServiceEnd.hops) = 1 => ServiceEnd.pending = NoKey /\ Idle(relays[Meet])
    <3>1. PICK n : n = Len(ServiceEnd.hops)
      OBVIOUS
    <3>2. n = 0 /\ n # 1
      BY <3>1, <1>4
    <3>. QED
      BY <3>1, <3>2
  <2>. QED
    BY <2>1, <2>2, <2>3, <2>4, <2>5, <2>6 DEF Building
<1>13. ClientOut /\ ServiceWayOut
  BY <1>4, <1>6, <1>10 DEF ClientOut, ServiceWayOut
<1>14. RelaysSaid /\ ClientHears /\ ClientBack
  BY <1>4, <1>5, <1>10 DEF RelaysSaid, ClientHears, ClientBack
<1>15. Bridged /\ ServiceBack
  BY <1>4, <1>7 DEF Bridged, ServiceBack
<1>16. Control
  <2>1. /\ fetching = "start" /\ rendezvousing = "idle" /\ cookie = "none" /\ bridged = FALSE
        /\ meeting = NoKey /\ intro = NoKey
    BY DEF OnionInit
  <2>2. /\ fetching \in {"start", "build", "established", "introduced"}
        /\ rendezvousing \in {"idle", "opened", "build", "sent", "installed"}
        /\ cookie \in {"none", "held", "used"} /\ bridged = (cookie = "used")
    BY <2>1
  <2>3. ~(fetching \in {"established", "introduced"}) /\ ~(rendezvousing \in {"sent", "installed"}) /\ fetching # "introduced"
    BY <2>1
  <2>4. meeting = IF ClientEnd.e2e = <<>> /\ fetching \in {"established", "introduced"} THEN Meeting ELSE NoKey
    BY <2>1, <2>3
  <2>5. intro = IF fetching = "introduced" THEN Meeting ELSE NoKey
    BY <2>1, <2>3
  <2>6. ServiceEnd.e2e # <<>> <=> rendezvousing = "installed"
    BY <2>1, <1>4
  <2>7. ~(Known > 0)
    BY <1>4
  <2>. QED
    BY ONLY <2>1, <2>2, <2>3, <2>4, <2>5, <2>6, <2>7, <1>4 DEF Control
<1>17. Contents
  BY <1>4 DEF Contents
<1>18. Timely
  BY <1>4 DEF Timely, OnionInit
<1>. QED
  BY <1>11, <1>12, <1>13, <1>14, <1>15, <1>16, <1>17, <1>18 DEF Good

LEMMA StutterGood == Good /\ UNCHANGED onionVars => Good'
<1>. SUFFICES ASSUME Good, UNCHANGED onionVars PROVE Good'
  OBVIOUS
<1>1. UNCHANGED <<origin, relays, forward, backward, held, tables, ghosts>> /\ UNCHANGED <<tables, ends0>>
  BY DEF onionVars, tables, ghosts, ends0
<1>2. StillAll' /\ SameClient /\ SameService /\ relays' = relays
  BY <1>1, StillGood
<1>3. Control /\ Contents
  BY DEF Good
<1>4. cookie # "none" => PointEstablished'
  BY <1>2, <1>3 DEF Control, PointEstablished, RelayHop, LegTo
<1>5. cookie = "used" => MeetHop'.fn > 0
  BY <1>2, <1>3 DEF Control, MeetHop, Meet
<1>6. Control'
  BY <1>1, <1>2, <1>3, <1>4, <1>5, ControlStays
<1>7. Contents'
  BY <1>1, <1>2, <1>3, ContentsStays
<1>. QED
  BY <1>2, <1>6, <1>7 DEF Good, StillAll

InOrder == "overtaken" \notin excuses
LEMMA OrderKept == OnionNext /\ InOrder' => InOrder
<1>. SUFFICES ASSUME OnionNext, InOrder' PROVE InOrder
  OBVIOUS
<1>1. CASE excuses' = excuses
  BY <1>1 DEF InOrder
<1>2. CASE \E t \in OnionTask : Queued(t)
  BY <1>2 DEF Queued, InOrder
<1>3. CASE ServiceReads
  BY <1>3 DEF ServiceReads, InOrder
<1>. QED
  BY <1>1, <1>2, <1>3 DEF OnionNext, StartCircuit, HandleCreated, HandleCreate, HandleCreatedFromNext, HandleExtend,
     HandleDrop, ForwardOn, Undeliverable, BackwardOn, ExtendCircuit, HandleEstablish, HandleRendezvous1, BridgeToClient,
     BridgeToService, Pad, EstablishRendezvousOn, SendIntroduce, Ask, ClientReads, HandleIntroduce2, SendRendezvous1,
     InstallKeys, ghosts

LEMMA NextGood == ASSUME Good, OnionNext, InOrder' PROVE Good'
<1>1. ASSUME NEW e \in OriginEnd, StartCircuit(e) \/ HandleCreated(e) PROVE Good'
  <2>1. CASE e = "client"
    BY <1>1, <2>1, StartClientGood, HandleCreatedClientGood
  <2>2. CASE e = "service"
    BY <1>1, <2>2, StartServiceGood, HandleCreatedServiceGood
  <2>. QED
    BY <2>1, <2>2 DEF OriginEnd
<1>2. ASSUME NEW leg \in Leg,
             HandleCreate(leg) \/ HandleCreatedFromNext(leg) \/ HandleExtend(leg)
      PROVE  Good'
  BY <1>2, HandleCreateGood, HandleCreatedFromNextGood, HandleExtendGood
<1>3. ASSUME NEW leg \in Leg,
             HandleDrop(leg) \/ ForwardOn(leg) \/ Undeliverable(leg) \/ BackwardOn(leg)
      PROVE  Good'
  BY <1>3, HandleDropGood, ForwardOnGood, UndeliverableGood, BackwardOnGood
<1>4. ASSUME NEW to \in LinkSpecs, ExtendCircuit(to) PROVE Good'
  BY <1>4, ExtendCircuitGood
<1>5. ASSUME NEW t \in OnionTask, Queued(t) PROVE Good'
  <2>1. "overtaken" \notin excuses'
    BY DEF InOrder
  <2>. QED
    BY <1>5, <2>1, QueuedGood
<1>6. CASE HandleEstablish \/ HandleRendezvous1 \/ BridgeToClient \/ BridgeToService
  BY <1>6, HandleEstablishGood, HandleRendezvous1Good, BridgeToClientGood, BridgeToServiceGood
<1>7. CASE Pad \/ EstablishRendezvousOn \/ SendIntroduce \/ Ask \/ ClientReads
  BY <1>7, PadGood, EstablishRendezvousOnGood, SendIntroduceGood, AskGood, ClientReadsGood
<1>8. CASE HandleIntroduce2 \/ SendRendezvous1 \/ InstallKeys \/ ServiceReads
  BY <1>8, HandleIntroduce2Good, SendRendezvous1Good, InstallKeysGood, ServiceReadsGood
<1>. QED
  BY <1>1, <1>2, <1>3, <1>4, <1>5, <1>6, <1>7, <1>8 DEF OnionNext

\* Whatever interleaving of building, padding, the bridge and both ends: until two
\* tasks queue in an order they did not encrypt in, Good holds.
THEOREM OnionInvHolds == OnionSpec => []OnionInv
<1>1. OnionInit => OnionInv
  BY InitGood DEF OnionInv
<1>2. OnionInv /\ [OnionNext]_onionVars => OnionInv'
  <2>. SUFFICES ASSUME OnionInv, [OnionNext]_onionVars, InOrder' PROVE Good'
    BY DEF OnionInv, InOrder
  <2>1. CASE OnionNext
    <3>1. InOrder
      BY <2>1, OrderKept
    <3>2. Good
      BY <3>1 DEF OnionInv, InOrder
    <3>. QED
      BY <3>2, <2>1, NextGood
  <2>2. CASE UNCHANGED onionVars
    <3>1. InOrder
      BY <2>2 DEF InOrder, onionVars
    <3>2. Good
      BY <3>1 DEF OnionInv, InOrder
    <3>. QED
      BY <3>2, <2>2, StutterGood
  <2>. QED
    BY <2>1, <2>2
<1>. QED
  BY <1>1, <1>2, PTL DEF OnionSpec

-----------------------------------------------------------------------------
(* From the invariant to LayersInStep: which cells bear a layer. *)

Bears(c, k, t) == \E l \in c.layers : l[1] = k /\ l[2] = t
LEMMA CountersAre ==
  ASSUME NEW k, NEW W, NEW t
  PROVE  t \in Counters(k, W) <=> \E c \in W : Bears(c, k, t)
BY DEF Counters, Bears

LEMMA CellBears ==
  ASSUME NEW G, ChainOK(G), NEW c, NEW j \in Nat \ {0}, NEW T \in Int, CellOK(G, c, j, T), NEW n \in 1..Len(G), NEW t
  PROVE  Bears(c, G[n].k, t) <=> (j <= n /\ G[n].o <= T /\ t = T - G[n].o)
<1>1. PICK h \in 1..Len(G) : j <= h /\ EndsAt(G, h, T) /\ c = CellOf(G, j, h, T)
  BY DEF CellOK
<1>2. c.layers = {<<G[i].k, T - G[i].o>> : i \in j..h}
  BY <1>1 DEF CellOf, Coats
<1>3. Len(G) \in Nat
  BY IsSeqShape DEF ChainOK
<1>4. \A i \in 1..Len(G) : G[i].o \in Nat /\ (G[i].k = G[n].k => i = n)
  BY DEF ChainOK
<1>5. ASSUME Bears(c, G[n].k, t) PROVE j <= n /\ G[n].o <= T /\ t = T - G[n].o
  <2>1. PICK i \in j..h : <<G[i].k, T - G[i].o>>[1] = G[n].k /\ <<G[i].k, T - G[i].o>>[2] = t
    BY <1>2, <1>5 DEF Bears
  <2>2. i \in 1..Len(G) /\ i = n
    BY <1>1, <1>3, <1>4, <2>1
  <2>3. G[n].o <= G[h].o /\ G[h].o <= T /\ G[n].o \in Nat /\ G[h].o \in Nat
    BY <1>1, <1>4, <2>1, <2>2 DEF ChainOK, EndsAt
  <2>. QED
    BY <2>1, <2>2, <2>3
<1>6. ASSUME j <= n, G[n].o <= T, t = T - G[n].o PROVE Bears(c, G[n].k, t)
  <2>1. n <= h
    <3>1. SUFFICES ASSUME n > h PROVE FALSE
      BY <1>1, <1>3
    <3>2. h < Len(G) /\ h + 1 \in 1..Len(G) /\ h + 1 <= n
      BY <3>1, <1>1, <1>3
    <3>3. T < G[h + 1].o /\ G[h + 1].o <= G[n].o
      BY <3>2, <1>1 DEF EndsAt, ChainOK
    <3>4. G[h + 1].o \in Nat /\ G[n].o \in Nat
      BY <3>2, <1>4
    <3>. QED
      BY <3>3, <3>4, <1>6
  <2>2. n \in j..h
    BY <2>1, <1>6, <1>1, <1>3
  <2>3. <<G[n].k, T - G[n].o>> \in c.layers
    BY <2>2, <1>2
  <2>. QED
    BY <2>3, <1>6 DEF Bears
<1>. QED
  BY <1>5, <1>6

Foreign(G, k) == \A i \in 1..Len(G) : G[i].k # k
LEMMA CellBare ==
  ASSUME NEW G, ChainOK(G), NEW c, NEW j \in Nat \ {0}, NEW T, CellOK(G, c, j, T), NEW k, Foreign(G, k), NEW t
  PROVE  ~Bears(c, k, t)
<1>1. PICK h \in 1..Len(G) : j <= h /\ EndsAt(G, h, T) /\ c = CellOf(G, j, h, T)
  BY DEF CellOK
<1>2. c.layers = {<<G[i].k, T - G[i].o>> : i \in j..h}
  BY <1>1 DEF CellOf, Coats
<1>3. Len(G) \in Nat
  BY IsSeqShape DEF ChainOK
<1>. SUFFICES ASSUME Bears(c, k, t) PROVE FALSE
  OBVIOUS
<1>4. PICK i \in j..h : <<G[i].k, T - G[i].o>>[1] = k
  BY <1>2 DEF Bears
<1>5. i \in 1..Len(G)
  BY <1>1, <1>3, <1>4
<1>. QED
  BY <1>4, <1>5 DEF Foreign

\* The cells on the first p legs of a way, and those two tasks hold.
InWay(W, Q, p, x, y) ==
  \A c : c \in W <=> \/ \E i \in 1..p : c \in ToSet(Q[i]) /\ c.kind = "relay"
                     \/ x # <<>> /\ c = x[1].cell
                     \/ y # <<>> /\ c = y[1].cell
\* The counters of one layer on them: those of the cells from turn a to b - 1.
OnTheWay(k, W, a, b, o) == \A t : t \in Counters(k, W) <=> (t \in Nat /\ a <= t + o /\ t + o < b)

\* The turns of one way's legs leave no gap: some leg, or a task, has each cell.
LEMMA Between ==
  ASSUME NEW f, NEW p \in Nat, \A i \in 0..p : f[i] \in Int, NEW T \in Int, f[p] <= T, T < f[0]
  PROVE  \E i \in 1..p : f[i] <= T /\ T < f[i - 1]
<1>. DEFINE S == {i \in 0..p : f[i] <= T}
<1>1. S \in SUBSET Nat /\ p \in S
  OBVIOUS
<1>2. PICK i \in S : \A j \in S : i <= j
  BY <1>1, NatMin
<1>3. i # 0
  BY <1>2
<1>4. i \in 1..p /\ i - 1 \in 0..p /\ i - 1 \notin S
  BY <1>2, <1>3
<1>. QED
  BY <1>2, <1>4

\* Two held cells fill the turns nobody has queued.
Filled(x, y, s, T) == (x # <<>> /\ x[1].turn + s = T) \/ (y # <<>> /\ y[1].turn + s = T)
LEMMA HeldFills ==
  ASSUME NEW G, NEW j, NEW s \in Nat, NEW x, NEW y, NEW a \in Int, NEW b \in Int, HeldOK(G, j, s, x, y, a, b),
         a = b - One(x) - One(y), NEW T \in Int, a <= T, T < b
  PROVE  Filled(x, y, s, T)
<1>1. One(x) \in Nat /\ One(y) \in Nat /\ One(x) <= 1 /\ One(y) <= 1
      /\ (x = <<>> => One(x) = 0) /\ (y = <<>> => One(y) = 0) /\ (x # <<>> => One(x) = 1) /\ (y # <<>> => One(y) = 1)
  BY OneNat
<1>2. x # <<>> => x[1].turn \in Nat /\ a <= x[1].turn + s /\ x[1].turn + s < b
  BY DEF HeldOK, HeldOne
<1>3. y # <<>> => y[1].turn \in Nat /\ a <= y[1].turn + s /\ y[1].turn + s < b
  BY DEF HeldOK, HeldOne
<1>4. x # <<>> /\ y # <<>> => x[1].turn # y[1].turn
  BY DEF HeldOK
<1>5. CASE x = <<>>
  BY <1>1, <1>3, <1>5 DEF Filled
<1>6. CASE y = <<>>
  BY <1>1, <1>2, <1>6 DEF Filled
<1>7. CASE x # <<>> /\ y # <<>>
  <2>1. PICK u, v : u = x[1].turn /\ v = y[1].turn
    OBVIOUS
  <2>2. u \in Nat /\ v \in Nat /\ u # v /\ a <= u + s /\ u + s < b /\ a <= v + s /\ v + s < b /\ a = b - 2
    BY <2>1, <1>1, <1>2, <1>3, <1>4, <1>7
  <2>3. u + s = T \/ v + s = T
    BY ONLY <2>2, a \in Int, b \in Int, T \in Int, a <= T, T < b, s \in Nat
  <2>. QED
    BY <2>1, <2>3, <1>7 DEF Filled
<1>. QED
  BY <1>5, <1>6, <1>7

\* W holds exactly the cells of the turns from a to b - 1, with the layers from one of
\* the first p on.
Covers(G, W, p, a, b) ==
  /\ \A c \in W : \E T \in Int, j \in 1..p : CellOK(G, c, j, T) /\ (a <= T \/ a <= G[p].o) /\ T < b
  /\ \A T \in Int : a <= T /\ T < b => \E c \in W, j \in 1..p : CellOK(G, c, j, T)
LEMMA CoversCounts ==
  ASSUME NEW G, ChainOK(G), NEW p \in Nat \ {0}, NEW n \in 1..Len(G), p <= n, NEW W, NEW a \in Int, NEW b \in Int,
         Covers(G, W, p, a, b), NEW k, k = G[n].k, NEW o, o = G[n].o
  PROVE  OnTheWay(k, W, a, b, o)
<1>1. Len(G) \in Nat
  BY IsSeqShape DEF ChainOK
<1>2. p \in 1..Len(G) /\ G[n].o \in Nat /\ G[p].o \in Nat /\ G[p].o <= G[n].o
  <2>1. p \in 1..Len(G)
    BY <1>1
  <2>. QED
    BY <2>1 DEF ChainOK
<1>3. ASSUME NEW t, t \in Counters(k, W) PROVE t \in Nat /\ a <= t + o /\ t + o < b
  <2>1. PICK c \in W : Bears(c, k, t)
    BY <1>3, CountersAre
  <2>2. PICK T \in Int, j \in 1..p : CellOK(G, c, j, T) /\ (a <= T \/ a <= G[p].o) /\ T < b
    BY DEF Covers
  <2>3. j \in Nat \ {0}
    OBVIOUS
  <2>4. G[n].o <= T /\ t = T - G[n].o
    <3>1. ChainOK(G) /\ T \in Int /\ j \in Nat \ {0} /\ n \in 1..Len(G) /\ CellOK(G, c, j, T)
      BY <2>2, <2>3
    <3>2. Bears(c, G[n].k, t) <=> (j <= n /\ G[n].o <= T /\ t = T - G[n].o)
      BY ONLY <3>1, CellBears
    <3>3. Bears(c, G[n].k, t)
      BY <2>1
    <3>. QED
      BY ONLY <3>2, <3>3
  <2>. QED
    BY <2>2, <2>4, <1>2
<1>4. ASSUME NEW t \in Nat, a <= t + o, t + o < b PROVE t \in Counters(k, W)
  <2>1. PICK T : T = t + o
    OBVIOUS
  <2>2. T \in Int /\ a <= T /\ T < b /\ G[n].o <= T /\ t = T - G[n].o
    BY <2>1, <1>2, <1>4
  <2>3. PICK c \in W, j \in 1..p : CellOK(G, c, j, T)
    BY <2>2 DEF Covers
  <2>4. j \in Nat \ {0} /\ j <= n
    OBVIOUS
  <2>5. Bears(c, G[n].k, t)
    <3>1. Bears(c, G[n].k, t) <=> (j <= n /\ G[n].o <= T /\ t = T - G[n].o)
      <4>1. ChainOK(G) /\ T \in Int /\ j \in Nat \ {0} /\ n \in 1..Len(G) /\ CellOK(G, c, j, T)
        BY <2>2, <2>3, <2>4
      <4>. QED
        BY ONLY <4>1, CellBears
    <3>. QED
      BY <3>1, <2>2, <2>4
  <2>. QED
    BY <2>5, CountersAre
<1>. QED
  BY <1>3, <1>4 DEF OnTheWay

\* A leg that has passed anything has passed what the legs behind it have not.
LEMMA OutReach ==
  ASSUME NEW G, NEW m \in Nat, NEW N \in Nat, NEW top, NEW R, NEW Q, ChainOK(G), m <= Len(G),
         OutWay(G, m, N, top, R, Q), NEW p \in 1..m, NEW j \in 0..p
  PROVE  OutTurn(G, top, R, p) <= OutTurn(G, top, R, j) \/ OutTurn(G, top, R, p) <= G[p].o
<1>1. /\ \A i \in 0..m : OutTurn(G, top, R, i) \in Nat
      /\ \A i \in 1..m : OutHop(G, N, top, R, Q, i) /\ G[i].o \in Nat /\ OutTurn(G, top, R, i) = R[i].fn + G[i].o
  BY OutTurns
<1>2. Len(G) \in Nat
  BY IsSeqShape DEF ChainOK
<1>. DEFINE u(i) == OutTurn(G, top, R, i)
            o == G[p].o
            f == [i \in 0..p |-> IF u(i) <= o THEN 0 - o ELSE 0 - u(i)]
<1>3. o \in Nat /\ \A i \in 0..p : u(i) \in Nat
  BY <1>1
<1>4. \A i \in 1..p : /\ u(i) = R[i].fn + G[i].o /\ R[i].fn \in Nat /\ G[i].o \in Nat /\ G[i].o <= o
                      /\ (R[i].fn > 0 => u(i) <= u(i - 1))
  <2>1. ASSUME NEW i \in 1..p PROVE i \in 1..m /\ G[i].o <= o
    <3>1. i \in 1..Len(G) /\ p \in 1..Len(G) /\ i <= p /\ i \in 1..m
      BY <1>2
    <3>. QED
      BY <3>1 DEF ChainOK
  <2>. QED
    BY <1>1, <2>1 DEF OutHop
<1>. HIDE DEF u, o
<1>5. \A i \in 0..p : f[i] \in Int
  BY <1>3
<1>6. ASSUME NEW i \in 1..p PROVE f[i - 1] <= f[i]
  <2>1. i - 1 \in 0..p /\ i \in 0..p
    OBVIOUS
  <2>2. u(i - 1) \in Nat /\ u(i) \in Nat /\ o \in Nat
    BY <1>3, <2>1
  <2>3. u(i) <= u(i - 1) \/ u(i) <= o
    BY <1>4
  <2>4. f[i] = (IF u(i) <= o THEN 0 - o ELSE 0 - u(i)) /\ f[i - 1] = (IF u(i - 1) <= o THEN 0 - o ELSE 0 - u(i - 1))
    BY <2>1
  <2>. HIDE DEF f
  <2>. QED
    BY <2>2, <2>3, <2>4
<1>. HIDE DEF f
<1>7. p \in Nat /\ p \in 0..p /\ j \in 0..p /\ j <= p
  OBVIOUS
<1>8. f[j] <= f[p]
  BY ONLY <1>5, <1>6, <1>7, Climbs
<1>9. f[j] = (IF u(j) <= o THEN 0 - o ELSE 0 - u(j)) /\ f[p] = (IF u(p) <= o THEN 0 - o ELSE 0 - u(p))
  BY <1>7 DEF f
<1>10. u(j) \in Nat /\ u(p) \in Nat
  BY <1>3, <1>7
<1>11. u(p) <= u(j) \/ u(p) <= o
  BY ONLY <1>3, <1>8, <1>9, <1>10
<1>. QED
  BY <1>11 DEF u, o

LEMMA OutCovers ==
  ASSUME NEW G, NEW m \in Nat, NEW N \in Nat, NEW x, NEW y, NEW R, NEW Q, ChainOK(G), m <= Len(G),
         OutLine(G, m, N, x, y, R, Q), NEW p \in 1..m, NEW W, InWay(W, Q, p, x, y)
  PROVE  Covers(G, W, p, R[p].fn + G[p].o, N) /\ R[p].fn + G[p].o <= N /\ R[p].fn \in Nat
<1>. DEFINE top == N - One(x) - One(y)
            u(i) == OutTurn(G, top, R, i)
            a == R[p].fn + G[p].o
<1>1. top \in Nat /\ top <= N /\ HeldOK(G, 1, 0, x, y, top, N) /\ OutWay(G, m, N, top, R, Q)
  BY LineTop
<1>2. top = N - One(x) - One(y)
  OBVIOUS
<1>. HIDE DEF top
<1>3. /\ \A i \in 0..m : u(i) \in Nat /\ u(i) <= N
      /\ \A i \in 1..m : OutHop(G, N, top, R, Q, i) /\ G[i].o \in Nat /\ u(i) = R[i].fn + G[i].o
      /\ u(0) = top
  BY <1>1, OutTurns
<1>4. u(p) = a /\ a \in Nat /\ a <= N /\ R[p].fn \in Nat
  BY <1>3 DEF OutHop
<1>5. \A j \in 0..p : a <= u(j) \/ a <= G[p].o
  BY <1>1, <1>4, OutReach
<1>6. \A i \in 1..p : Run(G, Q[i], i, u(i), u(i - 1))
  BY <1>3 DEF OutHop
<1>. HIDE DEF u, a
<1>7. ASSUME NEW c \in W
      PROVE  \E T \in Int, j \in 1..p : CellOK(G, c, j, T) /\ (a <= T \/ a <= G[p].o) /\ T < N
  <2>1. CASE \E i \in 1..p : c \in ToSet(Q[i]) /\ c.kind = "relay"
    <3>1. PICK i \in 1..p : c \in ToSet(Q[i])
      BY <2>1
    <3>2. u(i) \in Int /\ u(i - 1) \in Int /\ u(i - 1) <= N /\ u(i) <= N /\ i \in 0..p
      <4>1. i \in 0..m /\ i - 1 \in 0..m /\ i \in 0..p
        OBVIOUS
      <4>. QED
        BY <4>1, <1>3
    <3>3. PICK T \in u(i)..(u(i - 1) - 1) : CellOK(G, c, i, T)
      BY <1>6, <3>1, <3>2, RunHolds
    <3>4. T \in Int /\ T < N /\ u(i) <= T
      BY <3>2, <3>3
    <3>5. a <= T \/ a <= G[p].o
      BY <1>4, <1>5, <3>2, <3>4
    <3>. QED
      BY <3>3, <3>4, <3>5
  <2>2. ASSUME NEW z, z = x \/ z = y, z # <<>>, c = z[1].cell
        PROVE  \E T \in Int, j \in 1..p : CellOK(G, c, j, T) /\ (a <= T \/ a <= G[p].o) /\ T < N
    <3>1. z[1].turn \in Nat /\ top <= z[1].turn + 0 /\ z[1].turn + 0 < N /\ CellOK(G, z[1].cell, 1, z[1].turn + 0)
      BY <1>1, <2>2 DEF HeldOK, HeldOne
    <3>2. PICK T : T = z[1].turn + 0
      OBVIOUS
    <3>3. T \in Int /\ T < N /\ top <= T /\ CellOK(G, c, 1, T)
      BY <3>1, <3>2, <2>2
    <3>4. a <= T \/ a <= G[p].o
      <4>1. 0 \in 0..p
        OBVIOUS
      <4>. QED
        BY <4>1, <1>1, <1>3, <1>4, <1>5, <3>3
    <3>5. 1 \in 1..p
      OBVIOUS
    <3>. QED
      BY <3>3, <3>4, <3>5
  <2>. QED
    BY <2>1, <2>2 DEF InWay
<1>8. ASSUME NEW T \in Int, a <= T, T < N PROVE \E c \in W, j \in 1..p : CellOK(G, c, j, T)
  <2>1. CASE top <= T
    <3>1. 0 \in Nat /\ top \in Int /\ N \in Int
      BY <1>1
    <3>2. Filled(x, y, 0, T)
      BY ONLY <1>1, <1>2, <1>8, <2>1, <3>1, HeldFills
    <3>3. ASSUME NEW z, z = x \/ z = y, z # <<>>, z[1].turn + 0 = T PROVE \E c \in W, j \in 1..p : CellOK(G, c, j, T)
      <4>1. CellOK(G, z[1].cell, 1, z[1].turn + 0)
        BY <1>1, <3>3 DEF HeldOK, HeldOne
      <4>2. z[1].cell \in W /\ 1 \in 1..p
        BY <3>3 DEF InWay
      <4>. QED
        BY <4>1, <4>2, <3>3
    <3>. QED
      BY <3>2, <3>3 DEF Filled
  <2>2. CASE T < top
    <3>. DEFINE f == [i \in 0..p |-> u(i)]
    <3>1. \A i \in 0..p : f[i] \in Int /\ f[i] = u(i)
      BY <1>3
    <3>2. p \in Nat /\ p \in 0..p /\ 0 \in 0..p
      OBVIOUS
    <3>3. f[p] <= T /\ T < f[0]
      BY <3>1, <3>2, <1>3, <1>4, <1>8, <2>2
    <3>. HIDE DEF f
    <3>4. PICK i \in 1..p : f[i] <= T /\ T < f[i - 1]
      BY <3>1, <3>2, <3>3, Between
    <3>5. i \in 0..p /\ i - 1 \in 0..p
      OBVIOUS
    <3>6. u(i) <= T /\ T < u(i - 1) /\ u(i) \in Int /\ u(i - 1) \in Int
      BY <3>1, <3>4, <3>5
    <3>7. T \in u(i)..(u(i - 1) - 1)
      BY <3>6
    <3>8. PICK c \in ToSet(Q[i]) : CellOK(G, c, i, T)
      BY <1>6, <3>6, <3>7, RunHolds
    <3>9. c.kind = "relay"
      BY <3>8, CellKind
    <3>. QED
      BY <3>8, <3>9 DEF InWay
  <2>. QED
    BY <2>1, <2>2, <1>1
<1>9. Covers(G, W, p, a, N)
  BY <1>7, <1>8 DEF Covers
<1>. QED
  BY <1>4, <1>9 DEF a

LEMMA BetweenUp ==
  ASSUME NEW f, NEW p \in Nat, \A i \in 0..p : f[i] \in Int, NEW T \in Int, f[0] <= T, T < f[p]
  PROVE  \E i \in 1..p : f[i - 1] <= T /\ T < f[i]
<1>. DEFINE S == {i \in 0..p : T < f[i]}
<1>1. S \in SUBSET Nat /\ p \in S
  OBVIOUS
<1>2. PICK i \in S : \A j \in S : i <= j
  BY <1>1, NatMin
<1>3. i # 0
  BY <1>2
<1>4. i \in 1..p /\ i - 1 \in 0..p /\ i - 1 \notin S
  BY <1>2, <1>3
<1>. QED
  BY <1>2, <1>4

\* The tasks at the point hold what only the last leg's counters show.
HeldFor(p, m, x, y, x2, y2) == (p = m /\ x2 = x /\ y2 = y) \/ (p < m /\ x2 = <<>> /\ y2 = <<>>)
LEMMA BackCovers ==
  ASSUME NEW G, NEW m \in Nat, m >= 1, NEW w, NEW x, NEW y, NEW R, NEW Q, ChainOK(G), m <= Len(G),
         BackLine(G, m, w, x, y, R, Q), NEW p \in 1..m, NEW x2, NEW y2, HeldFor(p, m, x, y, x2, y2),
         NEW W, InWay(W, Q, p, x2, y2)
  PROVE  Covers(G, W, p, w, R[p].bn + G[p].o) /\ w <= R[p].bn + G[p].o /\ R[p].bn \in Nat /\ w \in Nat
<1>1. PICK b, top : b = BackTurn(G, w, R, m) /\ top = b - One(x) - One(y)
  OBVIOUS
<1>2. BackLineOK(G, m, w, x, y, R, Q, b, top)
  BY <1>1, BackLineTop
<1>3. b \in Nat /\ top \in Nat /\ w \in Nat /\ HeldOK(G, m, m - 1, x, y, top, b) /\ BackWay(G, m, w, top, R, Q) /\ top <= b
  BY <1>2 DEF BackLineOK
<1>. DEFINE u(i) == BackTurn(G, w, R, i)
            v(i) == BackFed(G, m, top, R, i)
            e == R[p].bn + G[p].o
<1>4. /\ u(0) = w /\ \A i \in 0..m : u(i) \in Nat
      /\ \A i \in 1..m : BackHop(G, m, w, top, R, Q, i) /\ v(i) \in Nat /\ v(i) <= u(i) /\ u(i) = R[i].bn + G[i].o
      /\ \A i \in 1..m : i # m => v(i) = u(i)
      /\ v(m) = top
  BY <1>3, BackTurns
<1>5. \A i \in 1..m : u(i - 1) <= v(i) /\ Run(G, Q[i], i, u(i - 1), v(i)) /\ R[i].bn \in Nat
  BY <1>4 DEF BackHop
<1>6. \A i, j \in 0..m : i <= j => u(i) <= u(j)
  BY <1>3, BackClimbs
<1>7. u(p) = e /\ e \in Nat /\ R[p].bn \in Nat
  BY <1>4, <1>5
<1>. HIDE DEF u, v, e
<1>8. w <= e
  <2>1. 0 \in 0..m /\ p \in 0..m /\ 0 <= p
    OBVIOUS
  <2>. QED
    BY <2>1, <1>4, <1>6, <1>7
<1>9. ASSUME NEW c \in W
      PROVE  \E T \in Int, j \in 1..p : CellOK(G, c, j, T) /\ (w <= T \/ w <= G[p].o) /\ T < e
  <2>1. CASE \E i \in 1..p : c \in ToSet(Q[i]) /\ c.kind = "relay"
    <3>1. PICK i \in 1..p : c \in ToSet(Q[i])
      BY <2>1
    <3>2. i \in 0..m /\ i - 1 \in 0..m /\ 0 \in 0..m /\ p \in 0..m /\ i \in 1..m /\ 0 <= i - 1 /\ i <= p
      OBVIOUS
    <3>3. u(i - 1) \in Int /\ v(i) \in Int /\ w <= u(i - 1) /\ v(i) <= e
      BY <3>2, <1>4, <1>6, <1>7
    <3>4. PICK T \in u(i - 1)..(v(i) - 1) : CellOK(G, c, i, T)
      <4>1. Run(G, Q[i], i, u(i - 1), v(i))
        BY <3>2, <1>5
      <4>. QED
        BY <4>1, <3>1, <3>3, RunHolds
    <3>5. T \in Int /\ T < e /\ w <= T
      BY <3>3, <3>4, <1>3, <1>7
    <3>. QED
      BY <3>4, <3>5
  <2>2. ASSUME NEW z, z = x2 \/ z = y2, z # <<>>, c = z[1].cell
        PROVE  \E T \in Int, j \in 1..p : CellOK(G, c, j, T) /\ (w <= T \/ w <= G[p].o) /\ T < e
    <3>1. p = m /\ (z = x \/ z = y)
      BY <2>2 DEF HeldFor
    <3>2. z[1].turn \in Nat /\ top <= z[1].turn + (m - 1) /\ z[1].turn + (m - 1) < b /\ CellOK(G, z[1].cell, m, z[1].turn + (m - 1))
      BY <1>3, <2>2, <3>1 DEF HeldOK, HeldOne
    <3>3. PICK T : T = z[1].turn + (m - 1)
      OBVIOUS
    <3>4. b = e
      BY <1>1, <1>7, <3>1 DEF u
    <3>5. T \in Int /\ T < e /\ top <= T /\ CellOK(G, c, m, T)
      BY <3>2, <3>3, <3>4, <2>2
    <3>6. w <= T
      <4>1. m \in 1..m /\ m - 1 \in 0..m /\ 0 \in 0..m /\ 0 <= m - 1
        OBVIOUS
      <4>2. w <= u(m - 1) /\ u(m - 1) <= top /\ u(m - 1) \in Nat
        BY <4>1, <1>4, <1>5, <1>6
      <4>. QED
        BY <4>2, <3>5, <1>3
    <3>7. m \in 1..p
      BY <3>1
    <3>. QED
      BY <3>5, <3>6, <3>7
  <2>. QED
    BY <2>1, <2>2 DEF InWay
<1>10. ASSUME NEW T \in Int, w <= T, T < e PROVE \E c \in W, j \in 1..p : CellOK(G, c, j, T)
  <2>1. ASSUME p = m, top <= T PROVE \E c \in W, j \in 1..p : CellOK(G, c, j, T)
    <3>1. m - 1 \in Nat /\ top \in Int /\ b \in Int /\ T < b
      BY <1>1, <1>3, <1>7, <1>10, <2>1 DEF u
    <3>2. Filled(x, y, m - 1, T)
      BY ONLY <1>1, <1>3, <1>10, <2>1, <3>1, HeldFills
    <3>3. ASSUME NEW z, z = x \/ z = y, z # <<>>, z[1].turn + (m - 1) = T PROVE \E c \in W, j \in 1..p : CellOK(G, c, j, T)
      <4>1. CellOK(G, z[1].cell, m, z[1].turn + (m - 1))
        BY <1>3, <3>3 DEF HeldOK, HeldOne
      <4>2. z[1].cell \in W /\ m \in 1..p
        BY <3>3, <2>1 DEF InWay, HeldFor
      <4>. QED
        BY <4>1, <4>2, <3>3
    <3>. QED
      BY <3>2, <3>3 DEF Filled
  <2>2. ASSUME ~(p = m /\ top <= T) PROVE \E c \in W, j \in 1..p : CellOK(G, c, j, T)
    <3>. DEFINE f == [i \in 0..p |-> IF i = p THEN v(p) ELSE u(i)]
    <3>0. p \in 1..m /\ p \in Nat /\ p \in 0..m /\ 0 \in 0..m
      OBVIOUS
    <3>1. \A i \in 0..p : f[i] \in Int
      BY <1>4, <3>0
    <3>2. f[0] = w /\ f[p] = v(p) /\ \A i \in 0..p : i # p => f[i] = u(i)
      BY <1>4, <3>0
    <3>3. T < v(p)
      <4>1. CASE p = m
        <5>1. v(p) = top /\ ~(top <= T)
          BY <4>1, <1>4, <2>2
        <5>. QED
          BY <5>1, <1>3, <1>10
      <4>2. CASE p # m
        <5>1. v(p) = e
          BY <4>2, <1>4, <1>7, <3>0
        <5>. QED
          BY <5>1, <1>10
      <4>. QED
        BY <4>1, <4>2
    <3>. HIDE DEF f
    <3>4. PICK i \in 1..p : f[i - 1] <= T /\ T < f[i]
      <4>1. f[0] <= T /\ T < f[p]
        BY <1>10, <3>2, <3>3
      <4>. QED
        BY <4>1, <3>1, <3>0, BetweenUp
    <3>5. i \in 0..p /\ i - 1 \in 0..p /\ i - 1 # p /\ i \in 1..m /\ i \in 0..m /\ i - 1 \in 0..m
      OBVIOUS
    <3>6. f[i] = v(i)
      BY <1>4, <3>2, <3>5
    <3>7. u(i - 1) <= T /\ T < v(i) /\ u(i - 1) \in Int /\ v(i) \in Int
      BY <1>4, <3>2, <3>4, <3>5, <3>6
    <3>8. T \in u(i - 1)..(v(i) - 1)
      BY <3>7
    <3>9. Run(G, Q[i], i, u(i - 1), v(i))
      BY <3>5, <1>5
    <3>10. PICK c \in ToSet(Q[i]) : CellOK(G, c, i, T)
      BY <3>9, <3>7, <3>8, RunHolds
    <3>11. c.kind = "relay"
      BY <3>10, CellKind
    <3>. QED
      BY <3>10, <3>11 DEF InWay
  <2>. QED
    BY <2>1, <2>2
<1>11. Covers(G, W, p, w, e)
  BY <1>9, <1>10 DEF Covers
<1>. QED
  BY <1>3, <1>7, <1>8, <1>11 DEF e

LEMMA RelayCellsAre == \A q, c : c \in RelayCells(q) <=> c \in ToSet(q) /\ c.kind = "relay"
BY DEF RelayCells

LEMMA HeldAre ==
  /\ \A c : c \in HeldBy(FromClient) <=> \/ held["fetch"] # <<>> /\ c = held["fetch"][1].cell
                                         \/ held["pump"] # <<>> /\ c = held["pump"][1].cell
  /\ \A c : c \in HeldBy(AtPoint) <=> \/ held["clientReader"] # <<>> /\ c = held["clientReader"][1].cell
                                      \/ held["serviceReader"] # <<>> /\ c = held["serviceReader"][1].cell
BY DEF HeldBy, FromClient, AtPoint, Free

LEMMA OutgoingAny ==
  ASSUME NEW e, NEW n \in Int, NEW c
  PROVE  c \in Outgoing(<<e, n>>) <=> (\E i \in 1..n : c \in RelayCells(forward[<<e, i>>])) \/ (e = "client" /\ c \in HeldBy(FromClient))
<1>. DEFINE U == UNION {RelayCells(forward[<<e, i>>]) : i \in 1..n}
            K == IF e = "client" THEN HeldBy(FromClient) ELSE {}
<1>1. Outgoing(<<e, n>>) = U \union K
  BY DEF Outgoing
<1>2. c \in U <=> \E i \in 1..n : c \in RelayCells(forward[<<e, i>>])
  OBVIOUS
<1>3. c \in K <=> e = "client" /\ c \in HeldBy(FromClient)
  OBVIOUS
<1>. HIDE DEF U, K
<1>4. c \in U \union K <=> c \in U \/ c \in K
  OBVIOUS
<1>5. c \in Outgoing(<<e, n>>) <=> c \in U \/ c \in K
  BY ONLY <1>1, <1>4, Zenon
<1>. QED
  BY <1>2, <1>3, <1>5, Zenon

LEMMA IncomingAny ==
  ASSUME NEW e, NEW n \in Int, NEW c
  PROVE  c \in Incoming(<<e, n>>) <=> (\E i \in 1..n : c \in RelayCells(backward[<<e, i>>])) \/ (<<e, n>> = Point /\ c \in HeldBy(AtPoint))
<1>. DEFINE U == UNION {RelayCells(backward[<<e, i>>]) : i \in 1..n}
            K == IF <<e, n>> = Point THEN HeldBy(AtPoint) ELSE {}
<1>1. Incoming(<<e, n>>) = U \union K
  BY DEF Incoming
<1>2. c \in U <=> \E i \in 1..n : c \in RelayCells(backward[<<e, i>>])
  OBVIOUS
<1>3. c \in K <=> <<e, n>> = Point /\ c \in HeldBy(AtPoint)
  OBVIOUS
<1>. HIDE DEF U, K
<1>4. c \in U \union K <=> c \in U \/ c \in K
  OBVIOUS
<1>5. c \in Incoming(<<e, n>>) <=> c \in U \/ c \in K
  BY ONLY <1>1, <1>4, Zenon
<1>. QED
  BY <1>2, <1>3, <1>5, Zenon

LEMMA OutgoingIs ==
  /\ \A p \in Int : \A c :
       c \in Outgoing(LegTo(p)) <=> (\E i \in 1..p : c \in RelayCells(forward[LegTo(i)])) \/ c \in HeldBy(FromClient)
  /\ \A c : c \in Outgoing(Meet) <=> c \in RelayCells(forward[Meet])
<1>1. ASSUME NEW p \in Int, NEW c
      PROVE  c \in Outgoing(LegTo(p)) <=> (\E i \in 1..p : c \in RelayCells(forward[LegTo(i)])) \/ c \in HeldBy(FromClient)
  <2>1. PICK e : e = "client"
    OBVIOUS
  <2>2. c \in Outgoing(<<e, p>>) <=> (\E i \in 1..p : c \in RelayCells(forward[<<e, i>>])) \/ (e = "client" /\ c \in HeldBy(FromClient))
    BY OutgoingAny, Zenon
  <2>. QED
    BY <2>1, <2>2, Zenon DEF LegTo
<1>2. ASSUME NEW c
      PROVE  c \in Outgoing(Meet) <=> c \in RelayCells(forward[Meet])
  <2>1. PICK e, n : e = "service" /\ n = 1
    OBVIOUS
  <2>2. n \in Int /\ e # "client" /\ <<e, n>> = Meet /\ \A i : i \in 1..n <=> i = n
    BY <2>1 DEF Meet
  <2>3. c \in Outgoing(<<e, n>>) <=> (\E i \in 1..n : c \in RelayCells(forward[<<e, i>>])) \/ (e = "client" /\ c \in HeldBy(FromClient))
    BY <2>2, OutgoingAny, Zenon
  <2>4. (\E i \in 1..n : c \in RelayCells(forward[<<e, i>>])) <=> c \in RelayCells(forward[<<e, n>>])
    BY ONLY <2>2, Zenon
  <2>. QED
    BY ONLY <2>2, <2>3, <2>4, Zenon
<1>. QED
  BY <1>1, <1>2

LEMMA IncomingIs ==
  /\ \A p \in 1..PathLen : \A c :
       c \in Incoming(LegTo(p)) <=>
         (\E i \in 1..p : c \in RelayCells(backward[LegTo(i)])) \/ (p = PathLen /\ c \in HeldBy(AtPoint))
  /\ \A c : c \in Incoming(Meet) <=> c \in RelayCells(backward[Meet])
<1>1. ASSUME NEW p \in 1..PathLen, NEW c
      PROVE  c \in Incoming(LegTo(p)) <=>
               (\E i \in 1..p : c \in RelayCells(backward[LegTo(i)])) \/ (p = PathLen /\ c \in HeldBy(AtPoint))
  <2>1. PICK e : e = "client"
    OBVIOUS
  <2>2. p \in Int /\ (<<e, p>> = Point <=> p = PathLen)
    BY <2>1 DEF Point
  <2>3. c \in Incoming(<<e, p>>) <=> (\E i \in 1..p : c \in RelayCells(backward[<<e, i>>])) \/ (<<e, p>> = Point /\ c \in HeldBy(AtPoint))
    BY <2>2, IncomingAny, Zenon
  <2>4. c \in Incoming(<<e, p>>) <=> (\E i \in 1..p : c \in RelayCells(backward[<<e, i>>])) \/ (p = PathLen /\ c \in HeldBy(AtPoint))
    BY ONLY <2>2, <2>3, Zenon
  <2>. QED
    BY <2>1, <2>4, Zenon DEF LegTo
<1>2. ASSUME NEW c
      PROVE  c \in Incoming(Meet) <=> c \in RelayCells(backward[Meet])
  <2>1. PICK e, n : e = "service" /\ n = 1
    OBVIOUS
  <2>2. n \in Int /\ <<e, n>> # Point /\ <<e, n>> = Meet /\ \A i : i \in 1..n <=> i = n
    BY <2>1 DEF Meet, Point
  <2>3. c \in Incoming(<<e, n>>) <=> (\E i \in 1..n : c \in RelayCells(backward[<<e, i>>])) \/ (<<e, n>> = Point /\ c \in HeldBy(AtPoint))
    BY <2>2, IncomingAny, Zenon
  <2>4. (\E i \in 1..n : c \in RelayCells(backward[<<e, i>>])) <=> c \in RelayCells(backward[<<e, n>>])
    BY ONLY <2>2, Zenon
  <2>. QED
    BY ONLY <2>2, <2>3, <2>4, Zenon
<1>. QED
  BY <1>1, <1>2

LEMMA ClientWaysAre ==
  ASSUME ClientIs, NEW p \in 1..Known
  PROVE  InWay(Outgoing(LegTo(p)), OutQueues, p, held["fetch"], held["pump"])
<1>1. \A i \in 1..p : OutQueues[i] = forward[LegTo(i)]
  BY KnownRelays, RelayedIs
<1>2. p \in Int
  BY KnownRelays
<1>3. ASSUME NEW c
      PROVE  c \in Outgoing(LegTo(p)) <=> \/ \E i \in 1..p : c \in ToSet(OutQueues[i]) /\ c.kind = "relay"
                                          \/ held["fetch"] # <<>> /\ c = held["fetch"][1].cell
                                          \/ held["pump"] # <<>> /\ c = held["pump"][1].cell
  <2>1. c \in Outgoing(LegTo(p)) <=> (\E i \in 1..p : c \in RelayCells(forward[LegTo(i)])) \/ c \in HeldBy(FromClient)
    BY <1>2, OutgoingIs
  <2>2. \A i \in 1..p : c \in RelayCells(forward[LegTo(i)]) <=> c \in ToSet(OutQueues[i]) /\ c.kind = "relay"
    BY <1>1, RelayCellsAre
  <2>3. c \in HeldBy(FromClient) <=> \/ held["fetch"] # <<>> /\ c = held["fetch"][1].cell
                                     \/ held["pump"] # <<>> /\ c = held["pump"][1].cell
    BY HeldAre
  <2>. QED
    BY <2>1, <2>2, <2>3
<1>. QED
  BY <1>3 DEF InWay

LEMMA ClientBackWaysAre ==
  ASSUME ClientIs, ClientBack, NEW p \in 1..Known
  PROVE  \E x2, y2 : /\ HeldFor(p, Known, held["clientReader"], held["serviceReader"], x2, y2)
                     /\ InWay(Incoming(LegTo(p)), BackQueues, p, x2, y2)
<1>0. Known \in Nat /\ Known <= PathLen /\ p \in Int /\ p \in 1..PathLen
  BY KnownRelays, LegIs
<1>1. \A i \in 1..p : BackQueues[i] = backward[LegTo(i)]
  BY <1>0, RelayedIs
<1>2. \A c : c \in Incoming(LegTo(p)) <=>
               (\E i \in 1..p : c \in ToSet(BackQueues[i]) /\ c.kind = "relay") \/ (p = PathLen /\ c \in HeldBy(AtPoint))
  <2>. TAKE c
  <2>1. c \in Incoming(LegTo(p)) <=>
          (\E i \in 1..p : c \in RelayCells(backward[LegTo(i)])) \/ (p = PathLen /\ c \in HeldBy(AtPoint))
    BY <1>0, IncomingIs
  <2>2. \A i \in 1..p : c \in RelayCells(backward[LegTo(i)]) <=> c \in ToSet(BackQueues[i]) /\ c.kind = "relay"
    BY <1>1, RelayCellsAre
  <2>. QED
    BY <2>1, <2>2
<1>3. PICK x, y : x = held["clientReader"] /\ y = held["serviceReader"]
  OBVIOUS
<1>4. \A c : c \in HeldBy(AtPoint) <=> (x # <<>> /\ c = x[1].cell) \/ (y # <<>> /\ c = y[1].cell)
  BY <1>3, HeldAre
<1>5. CASE p = Known
  <2>1. HeldFor(p, Known, x, y, x, y)
    BY <1>5 DEF HeldFor
  <2>2. p # PathLen => x = <<>> /\ y = <<>>
    <3>1. Known < PathLen => held["clientReader"] = <<>> /\ held["serviceReader"] = <<>>
      BY DEF ClientBack, Free
    <3>2. PathLen \in Nat
      BY LegIs
    <3>3. p # PathLen => Known < PathLen
      BY <1>0, <1>5, <3>2
    <3>. QED
      BY <1>3, <3>1, <3>3
  <2>3. InWay(Incoming(LegTo(p)), BackQueues, p, x, y)
    <3>1. ASSUME NEW c
          PROVE  c \in Incoming(LegTo(p)) <=> \/ \E i \in 1..p : c \in ToSet(BackQueues[i]) /\ c.kind = "relay"
                                              \/ x # <<>> /\ c = x[1].cell
                                              \/ y # <<>> /\ c = y[1].cell
      BY <1>2, <1>4, <2>2
    <3>. QED
      BY <3>1 DEF InWay
  <2>. QED
    BY <1>3, <2>1, <2>3
<1>6. CASE p # Known
  <2>1. HeldFor(p, Known, x, y, <<>>, <<>>)
    BY <1>0, <1>6 DEF HeldFor
  <2>2. p # PathLen
    BY <1>0, <1>6
  <2>3. InWay(Incoming(LegTo(p)), BackQueues, p, <<>>, <<>>)
    <3>1. ASSUME NEW c
          PROVE  c \in Incoming(LegTo(p)) <=> \E i \in 1..p : c \in ToSet(BackQueues[i]) /\ c.kind = "relay"
      BY <1>2, <2>2
    <3>. QED
      BY <3>1 DEF InWay
  <2>. QED
    BY <1>3, <2>1, <2>3
<1>. QED
  BY <1>5, <1>6

LEMMA MeetWaysAre ==
  ASSUME NEW P, P = <<forward[Meet]>>, NEW Q, Q = <<backward[Meet]>>
  PROVE  InWay(Outgoing(Meet), P, 1, <<>>, <<>>) /\ InWay(Incoming(Meet), Q, 1, <<>>, <<>>)
<1>1. P[1] = forward[Meet] /\ Q[1] = backward[Meet] /\ \A i : i \in 1..1 <=> i = 1
  OBVIOUS
<1>2. \A c : c \in Outgoing(Meet) <=> c \in ToSet(P[1]) /\ c.kind = "relay"
  BY <1>1, OutgoingIs, RelayCellsAre
<1>3. \A c : c \in Incoming(Meet) <=> c \in ToSet(Q[1]) /\ c.kind = "relay"
  BY <1>1, IncomingIs, RelayCellsAre
<1>. QED
  BY <1>1, <1>2, <1>3 DEF InWay

LEMMA ClientOutCounts ==
  ASSUME ClientIs, ClientChain, ClientOut, NEW p \in 1..Known, NEW n \in 1..Len(ChainOut), p <= n
  PROVE  /\ OnTheWay(ChainOut[n].k, Outgoing(LegTo(p)), Passed(p), Sent, ChainOut[n].o)
         /\ Passed(p) <= Sent /\ RelayHop(p).fn \in Nat /\ Sent \in Nat
<1>1. PICK G, m, N, x, y, R, Q, W :
        /\ G = ChainOut /\ m = Known /\ N = Sent /\ x = held["fetch"] /\ y = held["pump"] /\ R = Relayed /\ Q = OutQueues
        /\ W = Outgoing(LegTo(p))
  OBVIOUS
<1>2. Known \in Nat /\ Known > 0
  BY KnownRelays
<1>3. ChainOK(G) /\ m <= Len(G) /\ N \in Nat /\ m \in Nat /\ Len(G) \in Nat
  BY <1>1, <1>2 DEF ClientChain, ChainIsFor, ChainOut, Sent
<1>4. OutLine(G, m, N, x, y, R, Q)
  BY <1>1, <1>2 DEF ClientOut
<1>5. p \in 1..m /\ n \in 1..Len(G) /\ p \in Nat \ {0}
  BY <1>1
<1>6. InWay(W, Q, p, x, y)
  BY <1>1, ClientWaysAre
<1>7. R[p] = RelayHop(p) /\ Passed(p) = RelayHop(p).fn + ChainOut[p].o
  BY <1>1, RelayedIs DEF Passed
<1>8. PICK a : a = R[p].fn + G[p].o
  OBVIOUS
<1>9. Covers(G, W, p, a, N) /\ a <= N /\ R[p].fn \in Nat
  BY ONLY <1>3, <1>4, <1>5, <1>6, <1>8, OutCovers
<1>10. G[p].o \in Nat
  BY <1>3, <1>5 DEF ChainOK
<1>11. a \in Int /\ N \in Int /\ p <= n
  BY <1>3, <1>8, <1>9, <1>10
<1>12. PICK k, o : k = G[n].k /\ o = G[n].o
  OBVIOUS
<1>13. OnTheWay(k, W, a, N, o)
  BY ONLY <1>3, <1>5, <1>9, <1>11, <1>12, CoversCounts
<1>14. a = Passed(p)
  BY <1>1, <1>7, <1>8
<1>15. OnTheWay(ChainOut[n].k, Outgoing(LegTo(p)), Passed(p), Sent, ChainOut[n].o)
  BY <1>1, <1>12, <1>13, <1>14
<1>. QED
  BY <1>1, <1>3, <1>7, <1>9, <1>14, <1>15

LEMMA ClientBackCounts ==
  ASSUME ClientIs, BackIs, ClientBack, NEW p \in 1..Known, NEW n \in 1..Len(ChainBack), p <= n
  PROVE  /\ OnTheWay(ChainBack[n].k, Incoming(LegTo(p)), Read, RelayHop(p).bn + ChainBack[p].o, ChainBack[n].o)
         /\ Read <= RelayHop(p).bn + ChainBack[p].o /\ RelayHop(p).bn \in Nat /\ Read \in Nat
<1>1. PICK G, m, w, x, y, R, Q, W :
        /\ G = ChainBack /\ m = Known /\ w = Read /\ x = held["clientReader"] /\ y = held["serviceReader"]
        /\ R = Relayed /\ Q = BackQueues /\ W = Incoming(LegTo(p))
  OBVIOUS
<1>2. Known \in Nat /\ Known > 0
  BY KnownRelays
<1>3. ChainOK(G) /\ m <= Len(G) /\ m \in Nat /\ m >= 1 /\ Len(G) \in Nat
  BY <1>1, <1>2 DEF BackIs
<1>4. BackLine(G, m, w, x, y, R, Q)
  BY <1>1, <1>2 DEF ClientBack
<1>5. p \in 1..m /\ n \in 1..Len(G) /\ p \in Nat \ {0}
  BY <1>1
<1>6. PICK x2, y2 : HeldFor(p, m, x, y, x2, y2) /\ InWay(W, Q, p, x2, y2)
  BY <1>1, ClientBackWaysAre
<1>7. R[p] = RelayHop(p)
  BY <1>1, RelayedIs
<1>8. PICK e : e = R[p].bn + G[p].o
  OBVIOUS
<1>9. Covers(G, W, p, w, e) /\ w <= e /\ R[p].bn \in Nat /\ w \in Nat
  BY ONLY <1>3, <1>4, <1>5, <1>6, <1>8, BackCovers
<1>10. G[p].o \in Nat
  BY <1>3, <1>5 DEF ChainOK
<1>11. e \in Int /\ w \in Int /\ p <= n
  BY <1>3, <1>8, <1>9, <1>10
<1>12. PICK k, o : k = G[n].k /\ o = G[n].o
  OBVIOUS
<1>13. OnTheWay(k, W, w, e, o)
  BY ONLY <1>3, <1>5, <1>9, <1>11, <1>12, CoversCounts
<1>14. e = RelayHop(p).bn + ChainBack[p].o
  BY <1>1, <1>7, <1>8
<1>15. OnTheWay(ChainBack[n].k, Incoming(LegTo(p)), Read, RelayHop(p).bn + ChainBack[p].o, ChainBack[n].o)
  BY <1>1, <1>12, <1>13, <1>14
<1>. QED
  BY <1>1, <1>7, <1>9, <1>14, <1>15

LEMMA ServiceOutCounts ==
  ASSUME ServiceIs, ServiceChain, ServiceWayOut, Len(ServiceEnd.hops) = 1, NEW n \in 1..Len(ServiceOut)
  PROVE  /\ OnTheWay(ServiceOut[n].k, Outgoing(Meet), MeetHop.fn, ServiceLayers[1].fn, ServiceOut[n].o)
         /\ MeetHop.fn <= ServiceLayers[1].fn /\ MeetHop.fn \in Nat /\ ServiceLayers[1].fn \in Nat
<1>1. PICK G, m, N, z, R, Q, P, W :
        /\ G = ServiceOut /\ m = 1 /\ N = ServiceLayers[1].fn /\ z = <<>> /\ R = <<MeetHop>> /\ Q = <<forward[Meet]>>
        /\ P = <<backward[Meet]>> /\ W = Outgoing(Meet)
  OBVIOUS
<1>2. Len(ServiceEnd.hops) > 0
  OBVIOUS
<1>3. ChainOK(G) /\ m <= Len(G) /\ N \in Nat /\ m \in Nat /\ Len(G) \in Nat /\ G[1].o = 0
  BY <1>1, <1>2 DEF ServiceChain, ChainIsFor, ServiceOut
<1>4. OutLine(G, m, N, z, z, R, Q)
  BY <1>1, <1>2 DEF ServiceWayOut
<1>5. PICK p : p = 1
  OBVIOUS
<1>6. p \in 1..m /\ n \in 1..Len(G) /\ p \in Nat \ {0} /\ p <= n
  BY <1>1, <1>5
<1>7. InWay(W, Q, p, z, z)
  BY <1>1, <1>5, MeetWaysAre
<1>8. R[p] = MeetHop /\ G[p].o = 0
  BY <1>1, <1>3, <1>5, OneIs
<1>9. PICK a : a = R[p].fn + G[p].o
  OBVIOUS
<1>10. Covers(G, W, p, a, N) /\ a <= N /\ R[p].fn \in Nat
  BY ONLY <1>3, <1>4, <1>6, <1>7, <1>9, OutCovers
<1>11. a \in Int /\ N \in Int /\ a = R[p].fn
  BY <1>3, <1>8, <1>9, <1>10
<1>12. PICK k, o : k = G[n].k /\ o = G[n].o
  OBVIOUS
<1>13. OnTheWay(k, W, a, N, o)
  BY ONLY <1>3, <1>6, <1>10, <1>11, <1>12, CoversCounts
<1>14. a = MeetHop.fn
  BY <1>8, <1>11
<1>15. OnTheWay(ServiceOut[n].k, Outgoing(Meet), MeetHop.fn, ServiceLayers[1].fn, ServiceOut[n].o)
  BY <1>1, <1>12, <1>13, <1>14
<1>. QED
  BY <1>1, <1>3, <1>8, <1>10, <1>14, <1>15

LEMMA MeetBackCounts ==
  ASSUME MeetBackIs, ServiceBack, Len(ServiceEnd.hops) = 1, NEW n \in 1..Len(MeetBack)
  PROVE  /\ OnTheWay(MeetBack[n].k, Incoming(Meet), ServiceLayers[1].bn, MeetHop.bn, MeetBack[n].o)
         /\ ServiceLayers[1].bn <= MeetHop.bn /\ MeetHop.bn \in Nat /\ ServiceLayers[1].bn \in Nat
<1>1. PICK G, m, w, z, R, Q, P, W :
        /\ G = MeetBack /\ m = 1 /\ w = ServiceLayers[1].bn /\ z = <<>> /\ R = <<MeetHop>> /\ Q = <<backward[Meet]>>
        /\ P = <<forward[Meet]>> /\ W = Incoming(Meet)
  OBVIOUS
<1>2. Len(ServiceEnd.hops) > 0
  OBVIOUS
<1>3. ChainOK(G) /\ m <= Len(G) /\ m \in Nat /\ m >= 1 /\ Len(G) \in Nat /\ G[1].o = 0
  <2>1. ChainOK(G) /\ G[1].o = 0 /\ m = 1
    BY <1>1 DEF MeetBackIs
  <2>2. Len(G) = 1 \/ Len(G) = 2
    BY <1>1 DEF MeetBackIs
  <2>. QED
    BY ONLY <2>1, <2>2
<1>4. BackLine(G, m, w, z, z, R, Q)
  BY <1>1, <1>2 DEF ServiceBack
<1>5. PICK p : p = 1
  OBVIOUS
<1>6. p \in 1..m /\ n \in 1..Len(G) /\ p \in Nat \ {0} /\ p <= n
  BY <1>1, <1>5
<1>7. InWay(W, Q, p, z, z) /\ HeldFor(p, m, z, z, z, z)
  BY <1>1, <1>5, MeetWaysAre DEF HeldFor
<1>8. R[p] = MeetHop /\ G[p].o = 0
  BY <1>1, <1>3, <1>5, OneIs
<1>9. PICK e : e = R[p].bn + G[p].o
  OBVIOUS
<1>10. Covers(G, W, p, w, e) /\ w <= e /\ R[p].bn \in Nat /\ w \in Nat
  BY ONLY <1>3, <1>4, <1>6, <1>7, <1>9, BackCovers
<1>11. e \in Int /\ w \in Int /\ e = R[p].bn
  BY <1>3, <1>8, <1>9, <1>10
<1>12. PICK k, o : k = G[n].k /\ o = G[n].o
  OBVIOUS
<1>13. OnTheWay(k, W, w, e, o)
  BY ONLY <1>3, <1>6, <1>10, <1>11, <1>12, CoversCounts
<1>14. e = MeetHop.bn
  BY <1>8, <1>11
<1>15. OnTheWay(MeetBack[n].k, Incoming(Meet), ServiceLayers[1].bn, MeetHop.bn, MeetBack[n].o)
  BY <1>1, <1>12, <1>13, <1>14
<1>. QED
  BY <1>1, <1>8, <1>10, <1>14, <1>15

\* Where a cell can be, and as which cell of which chain.
OutSite(c) == \E i \in 1..Known, T \in Int : c \in Outgoing(LegTo(i)) /\ CellOK(ChainOut, c, i, T)
BackSite(c) == \E i \in 1..Known, T \in Int : c \in Incoming(LegTo(i)) /\ CellOK(ChainBack, c, i, T)
MeetOutSite(c) == Len(ServiceEnd.hops) = 1 /\ \E T \in Int : c \in Outgoing(Meet) /\ CellOK(ServiceOut, c, 1, T)
MeetBackSite(c) == Len(ServiceEnd.hops) = 1 /\ \E T \in Int : c \in Incoming(Meet) /\ CellOK(MeetBack, c, 1, T)
Sited(c) == OutSite(c) \/ BackSite(c) \/ MeetOutSite(c) \/ MeetBackSite(c)

LEMMA EverywhereIs ==
  \A c : c \in Everywhere <=> \/ \E l \in Leg : c \in RelayCells(forward[l]) \/ c \in RelayCells(backward[l])
                              \/ c \in HeldBy(FromClient) \/ c \in HeldBy(AtPoint)
<1>. TAKE c
<1>. DEFINE U == UNION {RelayCells(forward[l]) \union RelayCells(backward[l]) : l \in Leg}
<1>1. Everywhere = U \union HeldBy(OnionTask)
  BY DEF Everywhere
<1>2. c \in U <=> \E l \in Leg : c \in RelayCells(forward[l]) \/ c \in RelayCells(backward[l])
  OBVIOUS
<1>3. c \in HeldBy(OnionTask) <=> c \in HeldBy(FromClient) \/ c \in HeldBy(AtPoint)
  BY DEF HeldBy, OnionTask
<1>. HIDE DEF U
<1>4. c \in U \union HeldBy(OnionTask) <=> c \in U \/ c \in HeldBy(OnionTask)
  OBVIOUS
<1>5. c \in Everywhere <=> c \in U \/ c \in HeldBy(OnionTask)
  BY ONLY <1>1, <1>4, Zenon
<1>. QED
  BY <1>2, <1>3, <1>5, Zenon

\* A leg under construction has no such cell.
LEMMA NoneBuilding ==
  ASSUME NEW l, Building0(l), NEW c
  PROVE  c \notin RelayCells(forward[l]) /\ c \notin RelayCells(backward[l])
<1>1. ASSUME NEW d, d.kind # "relay" PROVE c \notin RelayCells(<<d>>)
  BY <1>1 DEF RelayCells, ToSet
<1>2. c \notin RelayCells(<<>>)
  BY DEF RelayCells, ToSet
<1>3. CreatedBy(l).kind # "relay" /\ \A to : CreateFor(l, to).kind # "relay"
  BY DEF CreatedBy, CreateFor
<1>4. c \notin RelayCells(forward[l])
  <2>1. CASE forward[l] = <<>>
    BY <1>2, <2>1
  <2>2. CASE \E to \in LinkSpecs : forward[l] = <<CreateFor(l, to)>>
    BY <1>1, <1>3, <2>2
  <2>. QED
    BY <2>1, <2>2 DEF Building0
<1>5. c \notin RelayCells(backward[l])
  <2>1. CASE backward[l] = <<>>
    BY <1>2, <2>1
  <2>2. CASE backward[l] = <<CreatedBy(l)>>
    BY <1>1, <1>3, <2>2
  <2>. QED
    BY <2>1, <2>2 DEF Building0
<1>. QED
  BY <1>4, <1>5

\* The cells of one way, each on its leg or held.
LEMMA OutCells ==
  ASSUME NEW G, NEW m \in Nat, NEW N \in Nat, NEW x, NEW y, NEW R, NEW Q, ChainOK(G), m <= Len(G),
         OutLine(G, m, N, x, y, R, Q)
  PROVE  /\ \A i \in 1..m : \A c \in ToSet(Q[i]) : \E T \in Int : CellOK(G, c, i, T)
         /\ x # <<>> => \E T \in Int : CellOK(G, x[1].cell, 1, T)
         /\ y # <<>> => \E T \in Int : CellOK(G, y[1].cell, 1, T)
<1>1. PICK top : top = N - One(x) - One(y)
  OBVIOUS
<1>2. top \in Nat /\ HeldOK(G, 1, 0, x, y, top, N) /\ OutWay(G, m, N, top, R, Q)
  BY <1>1, LineTop
<1>3. \A i \in 0..m : OutTurn(G, top, R, i) \in Nat
  BY <1>2, OutTurns
<1>4. ASSUME NEW i \in 1..m, NEW c \in ToSet(Q[i]) PROVE \E T \in Int : CellOK(G, c, i, T)
  <2>1. i \in 0..m /\ i - 1 \in 0..m
    OBVIOUS
  <2>2. PICK a, b : a = OutTurn(G, top, R, i) /\ b = OutTurn(G, top, R, i - 1)
    OBVIOUS
  <2>3. a \in Int /\ b \in Int /\ Run(G, Q[i], i, a, b)
    BY <1>2, <1>3, <2>1, <2>2 DEF OutWay
  <2>4. PICK T \in a..(b - 1) : CellOK(G, c, i, T)
    BY <2>3, RunHolds
  <2>. QED
    BY <2>3, <2>4
<1>5. ASSUME NEW z, z = x \/ z = y, z # <<>> PROVE \E T \in Int : CellOK(G, z[1].cell, 1, T)
  <2>1. HeldOne(G, 1, 0, z, top, N)
    BY <1>2, <1>5 DEF HeldOK
  <2>2. z[1].turn + 0 \in Int /\ CellOK(G, z[1].cell, 1, z[1].turn + 0)
    BY <2>1, <1>5 DEF HeldOne
  <2>. QED
    BY <2>2
<1>. QED
  BY <1>4, <1>5

LEMMA BackCells ==
  ASSUME NEW G, NEW m \in Nat, m >= 1, NEW w, NEW x, NEW y, NEW R, NEW Q, ChainOK(G), m <= Len(G),
         BackLine(G, m, w, x, y, R, Q)
  PROVE  /\ \A i \in 1..m : \A c \in ToSet(Q[i]) : \E T \in Int : CellOK(G, c, i, T)
         /\ x # <<>> => \E T \in Int : CellOK(G, x[1].cell, m, T)
         /\ y # <<>> => \E T \in Int : CellOK(G, y[1].cell, m, T)
<1>1. PICK b, top : b = BackTurn(G, w, R, m) /\ top = b - One(x) - One(y)
  OBVIOUS
<1>2. BackLineOK(G, m, w, x, y, R, Q, b, top)
  BY <1>1, BackLineTop
<1>3. b \in Nat /\ top \in Nat /\ w \in Nat /\ HeldOK(G, m, m - 1, x, y, top, b) /\ BackWay(G, m, w, top, R, Q)
  BY <1>2 DEF BackLineOK
<1>4. /\ \A i \in 0..m : BackTurn(G, w, R, i) \in Nat
      /\ \A i \in 1..m : BackHop(G, m, w, top, R, Q, i) /\ BackFed(G, m, top, R, i) \in Nat
  BY <1>3, BackTurns
<1>5. ASSUME NEW i \in 1..m, NEW c \in ToSet(Q[i]) PROVE \E T \in Int : CellOK(G, c, i, T)
  <2>1. i \in 0..m /\ i - 1 \in 0..m
    OBVIOUS
  <2>2. PICK a, e : a = BackTurn(G, w, R, i - 1) /\ e = BackFed(G, m, top, R, i)
    OBVIOUS
  <2>3. a \in Int /\ e \in Int /\ Run(G, Q[i], i, a, e)
    BY <1>4, <2>1, <2>2 DEF BackHop
  <2>4. PICK T \in a..(e - 1) : CellOK(G, c, i, T)
    BY <2>3, RunHolds
  <2>. QED
    BY <2>3, <2>4
<1>6. ASSUME NEW z, z = x \/ z = y, z # <<>> PROVE \E T \in Int : CellOK(G, z[1].cell, m, T)
  <2>1. HeldOne(G, m, m - 1, z, top, b)
    BY <1>3, <1>6 DEF HeldOK
  <2>2. z[1].turn \in Nat /\ CellOK(G, z[1].cell, m, z[1].turn + (m - 1))
    BY <2>1, <1>6 DEF HeldOne
  <2>. QED
    BY <2>2
<1>. QED
  BY <1>5, <1>6

LEMMA OutSited ==
  ASSUME ClientIs, ClientChain, ClientOut, NEW c
  PROVE  /\ \A i \in 1..Known : c \in RelayCells(forward[LegTo(i)]) => OutSite(c)
         /\ c \in HeldBy(FromClient) => OutSite(c)
<1>1. PICK G, m, N, x, y, R, Q :
        G = ChainOut /\ m = Known /\ N = Sent /\ x = held["fetch"] /\ y = held["pump"] /\ R = Relayed /\ Q = OutQueues
  OBVIOUS
<1>2. Known \in Nat /\ \A i \in 1..Known : i \in Int
  BY KnownRelays
<1>3. Known > 0 =>
        /\ \A i \in 1..m : \A d \in ToSet(Q[i]) : \E T \in Int : CellOK(G, d, i, T)
        /\ x # <<>> => \E T \in Int : CellOK(G, x[1].cell, 1, T)
        /\ y # <<>> => \E T \in Int : CellOK(G, y[1].cell, 1, T)
  <2>1. SUFFICES ASSUME Known > 0
                 PROVE  /\ \A i \in 1..m : \A d \in ToSet(Q[i]) : \E T \in Int : CellOK(G, d, i, T)
                        /\ x # <<>> => \E T \in Int : CellOK(G, x[1].cell, 1, T)
                        /\ y # <<>> => \E T \in Int : CellOK(G, y[1].cell, 1, T)
    OBVIOUS
  <2>2. ChainOK(G) /\ m <= Len(G) /\ N \in Nat /\ m \in Nat
    BY <1>1, <1>2, <2>1 DEF ClientChain, ChainIsFor, ChainOut, Sent
  <2>3. OutLine(G, m, N, x, y, R, Q)
    BY <1>1, <2>1 DEF ClientOut
  <2>. QED
    BY ONLY <2>2, <2>3, OutCells
<1>4. ASSUME NEW i \in 1..Known, c \in RelayCells(forward[LegTo(i)]) PROVE OutSite(c)
  <2>1. Known > 0
    BY <1>2
  <2>2. c \in ToSet(Q[i])
    BY <1>1, <1>4, RelayedIs, RelayCellsAre
  <2>3. PICK T \in Int : CellOK(G, c, i, T)
    BY <1>1, <1>3, <2>1, <2>2
  <2>4. c \in Outgoing(LegTo(i))
    <3>1. i \in 1..i /\ i \in Int
      BY <1>2
    <3>. QED
      BY <3>1, <1>4, OutgoingIs
  <2>. QED
    BY <1>1, <2>3, <2>4 DEF OutSite
<1>5. ASSUME c \in HeldBy(FromClient) PROVE OutSite(c)
  <2>1. PICK z : (z = x \/ z = y) /\ z # <<>> /\ c = z[1].cell
    BY <1>1, <1>5, HeldAre
  <2>2. Known > 0
    <3>1. Known = 0 => x = <<>> /\ y = <<>>
      BY <1>1 DEF ClientOut, Free
    <3>. QED
      BY <1>2, <2>1, <3>1
  <2>3. PICK T \in Int : CellOK(G, c, 1, T)
    BY <1>3, <2>1, <2>2
  <2>4. 1 \in 1..Known /\ 1 \in Int
    BY <1>2, <2>2
  <2>5. c \in Outgoing(LegTo(1))
    BY <1>5, <2>4, OutgoingIs
  <2>. QED
    BY <1>1, <2>3, <2>4, <2>5 DEF OutSite
<1>. QED
  BY <1>4, <1>5

LEMMA BackSited ==
  ASSUME ClientIs, BackIs, ClientBack, NEW c
  PROVE  /\ \A i \in 1..Known : c \in RelayCells(backward[LegTo(i)]) => BackSite(c)
         /\ c \in HeldBy(AtPoint) => BackSite(c)
<1>1. PICK G, m, w, x, y, R, Q :
        /\ G = ChainBack /\ m = Known /\ w = Read /\ x = held["clientReader"] /\ y = held["serviceReader"]
        /\ R = Relayed /\ Q = BackQueues
  OBVIOUS
<1>2. Known \in Nat /\ Known <= PathLen /\ PathLen \in Nat /\ PathLen >= 1 /\ \A i \in 1..Known : i \in Int /\ i \in 1..PathLen
  BY KnownRelays, LegIs
<1>3. Known > 0 =>
        /\ \A i \in 1..m : \A d \in ToSet(Q[i]) : \E T \in Int : CellOK(G, d, i, T)
        /\ x # <<>> => \E T \in Int : CellOK(G, x[1].cell, m, T)
        /\ y # <<>> => \E T \in Int : CellOK(G, y[1].cell, m, T)
  <2>1. SUFFICES ASSUME Known > 0
                 PROVE  /\ \A i \in 1..m : \A d \in ToSet(Q[i]) : \E T \in Int : CellOK(G, d, i, T)
                        /\ x # <<>> => \E T \in Int : CellOK(G, x[1].cell, m, T)
                        /\ y # <<>> => \E T \in Int : CellOK(G, y[1].cell, m, T)
    OBVIOUS
  <2>2. ChainOK(G) /\ m <= Len(G) /\ m \in Nat /\ m >= 1
    BY <1>1, <1>2, <2>1 DEF BackIs
  <2>3. BackLine(G, m, w, x, y, R, Q)
    BY <1>1, <2>1 DEF ClientBack
  <2>. QED
    BY ONLY <2>2, <2>3, BackCells
<1>4. ASSUME NEW i \in 1..Known, c \in RelayCells(backward[LegTo(i)]) PROVE BackSite(c)
  <2>1. Known > 0
    BY <1>2
  <2>2. c \in ToSet(Q[i])
    BY <1>1, <1>4, RelayedIs, RelayCellsAre
  <2>3. PICK T \in Int : CellOK(G, c, i, T)
    BY <1>1, <1>3, <2>1, <2>2
  <2>4. c \in Incoming(LegTo(i))
    <3>1. i \in 1..i /\ i \in 1..PathLen
      BY <1>2
    <3>. QED
      BY <3>1, <1>4, IncomingIs
  <2>. QED
    BY <1>1, <2>3, <2>4 DEF BackSite
<1>5. ASSUME c \in HeldBy(AtPoint) PROVE BackSite(c)
  <2>1. PICK z : (z = x \/ z = y) /\ z # <<>> /\ c = z[1].cell
    BY <1>1, <1>5, HeldAre
  <2>2. Known = PathLen
    <3>1. Known < PathLen => x = <<>> /\ y = <<>>
      BY <1>1 DEF ClientBack, Free
    <3>. QED
      BY <1>2, <2>1, <3>1
  <2>3. Known > 0
    BY <1>2, <2>2
  <2>4. PICK T \in Int : CellOK(G, c, m, T)
    BY <1>3, <2>1, <2>3
  <2>5. PathLen \in 1..Known /\ PathLen \in 1..PathLen
    BY <1>2, <2>2
  <2>6. c \in Incoming(LegTo(PathLen))
    BY <1>5, <2>5, IncomingIs
  <2>. QED
    BY <1>1, <2>2, <2>4, <2>5, <2>6 DEF BackSite
<1>. QED
  BY <1>4, <1>5

LEMMA MeetSited ==
  ASSUME ServiceIs, ServiceChain, ServiceWayOut, MeetBackIs, ServiceBack, Len(ServiceEnd.hops) = 1, NEW c
  PROVE  /\ c \in RelayCells(forward[Meet]) => MeetOutSite(c)
         /\ c \in RelayCells(backward[Meet]) => MeetBackSite(c)
<1>1. Len(ServiceEnd.hops) > 0
  OBVIOUS
<1>2. ASSUME c \in RelayCells(forward[Meet]) PROVE MeetOutSite(c)
  <2>1. PICK G, m, N, z, R, Q :
        G = ServiceOut /\ m = 1 /\ N = ServiceLayers[1].fn /\ z = <<>> /\ R = <<MeetHop>> /\ Q = <<forward[Meet]>>
    OBVIOUS
  <2>2. ChainOK(G) /\ m <= Len(G) /\ N \in Nat /\ m \in Nat
    BY <1>1, <2>1 DEF ServiceChain, ChainIsFor, ServiceOut
  <2>3. OutLine(G, m, N, z, z, R, Q)
    BY <1>1, <2>1 DEF ServiceWayOut
  <2>4. \A i \in 1..m : \A d \in ToSet(Q[i]) : \E T \in Int : CellOK(G, d, i, T)
    BY ONLY <2>2, <2>3, OutCells
  <2>5. c \in ToSet(Q[1]) /\ 1 \in 1..m
    BY <1>2, <2>1, RelayCellsAre, OneIs
  <2>6. PICK T \in Int : CellOK(G, c, 1, T)
    BY <2>4, <2>5
  <2>. QED
    BY <1>2, <2>1, <2>6, OutgoingIs DEF MeetOutSite
<1>3. ASSUME c \in RelayCells(backward[Meet]) PROVE MeetBackSite(c)
  <2>1. PICK G, m, w, z, R, Q :
        G = MeetBack /\ m = 1 /\ w = ServiceLayers[1].bn /\ z = <<>> /\ R = <<MeetHop>> /\ Q = <<backward[Meet]>>
    OBVIOUS
  <2>2. ChainOK(G) /\ m <= Len(G) /\ m \in Nat /\ m >= 1
    <3>1. Len(G) = 1 \/ Len(G) = 2
      BY <2>1 DEF MeetBackIs
    <3>2. ChainOK(G) /\ m = 1
      BY <2>1 DEF MeetBackIs
    <3>. QED
      BY ONLY <3>1, <3>2
  <2>3. BackLine(G, m, w, z, z, R, Q)
    BY <1>1, <2>1 DEF ServiceBack
  <2>4. \A i \in 1..m : \A d \in ToSet(Q[i]) : \E T \in Int : CellOK(G, d, i, T)
    BY ONLY <2>2, <2>3, BackCells
  <2>5. c \in ToSet(Q[1]) /\ 1 \in 1..m
    BY <1>3, <2>1, RelayCellsAre, OneIs
  <2>6. PICK T \in Int : CellOK(G, c, 1, T)
    BY <2>4, <2>5
  <2>. QED
    BY <1>3, <2>1, <2>6, IncomingIs DEF MeetBackSite
<1>. QED
  BY <1>2, <1>3

\* Every cell on the way is one that some end, or the point, laid its layers on.
LEMMA EverySited == ASSUME Good, NEW c \in Everywhere PROVE Sited(c)
<1>1. Shape /\ Building /\ ClientOut /\ ServiceWayOut /\ ClientBack /\ ServiceBack
  BY DEF Good
<1>2. ClientIs /\ ServiceIs /\ ClientChain /\ ServiceChain /\ BackIs /\ MeetBackIs
  BY GoodFacts DEF Facts
<1>3. Known \in Nat /\ PathLen \in Nat /\ Len(ServiceEnd.hops) \in 0..1
  BY <1>1, KnownIs
<1>4. ASSUME NEW l \in Leg, c \in RelayCells(forward[l]) \/ c \in RelayCells(backward[l]) PROVE Sited(c)
  <2>1. CASE l = Meet
    <3>1. Len(ServiceEnd.hops) = 1
      <4>1. Len(ServiceEnd.hops) # 0
        BY <1>1, <1>4, <2>1, Beyond, NoneBuilding
      <4>. QED
        BY <4>1, <1>3
    <3>. QED
      BY <3>1, <1>1, <1>2, <1>4, <2>1, MeetSited DEF Sited
  <2>2. ASSUME NEW i \in 1..PathLen, l = LegTo(i) PROVE Sited(c)
    <3>1. i \in 1..Known
      <4>1. ~(i > Known)
        BY <1>1, <1>4, <2>2, Beyond, NoneBuilding
      <4>. QED
        BY <4>1, <1>3
    <3>. QED
      BY <3>1, <1>1, <1>2, <1>4, <2>2, OutSited, BackSited DEF Sited
  <2>. QED
    BY <2>1, <2>2, LegIs
<1>5. CASE c \in HeldBy(FromClient)
  BY <1>1, <1>2, <1>5, OutSited DEF Sited
<1>6. CASE c \in HeldBy(AtPoint)
  BY <1>1, <1>2, <1>6, BackSited DEF Sited
<1>. QED
  BY <1>4, <1>5, <1>6, EverywhereIs

\* The layers each way has.
OutKey(k) == k = C2H \/ \E i \in 1..Known : k = FK(LegTo(i))
BackKey(k) == (k = H2C /\ ServiceEnd.e2e # <<>>) \/ \E i \in 1..Known : k = BK(LegTo(i))
MeetOutKey(k) == k = FK(Meet) \/ (k = H2C /\ ServiceEnd.e2e # <<>>)
MeetBackKey(k) == k = BK(Meet) \/ k = C2H

LEMMA ClientOutIs ==
  ASSUME ClientIs, ClientChain, Known > 0
  PROVE  /\ ChainOK(ChainOut) /\ Len(ChainOut) = Known + Len(ClientEnd.e2e) /\ Len(ClientEnd.e2e) \in 0..1 /\ Sent \in Nat
         /\ \A i \in 1..Len(ChainOut) : ChainOut[i].k = ClientLayers[i].fk /\ ChainOut[i].o = Sent - ClientLayers[i].fn
                                        /\ ClientLayers[i].fn \in Nat /\ ClientLayers[i].bn \in Nat
         /\ \A i \in 1..Known : i \in 1..Len(ChainOut) /\ ChainOut[i].k = FK(LegTo(i)) /\ ClientLayers[i] = ClientEnd.hops[i]
         /\ ClientEnd.e2e # <<>> => ChainOut[Known + 1].k = C2H /\ ClientLayers[Known + 1] = ClientEnd.e2e[1]
<1>1. PICK k, e, ls : k = Known /\ e = Len(ClientEnd.e2e) /\ ls = ClientLayers
  OBVIOUS
<1>2. ChainIsFor(ls, k) /\ Chain(ls) = ChainOut
  BY <1>1 DEF ClientChain, ChainOut
<1>3. /\ k \in Nat /\ e \in 0..1 /\ Len(ls) = k + e /\ (ClientEnd.e2e # <<>> <=> e = 1)
      /\ \A i \in 1..k : ls[i] = ClientEnd.hops[i] /\ ls[i].fk = FK(LegTo(i))
      /\ ClientEnd.e2e # <<>> => ls[k + 1] = ClientEnd.e2e[1] /\ ls[k + 1].fk = C2H
  BY <1>1 DEF ClientIs, EndLayers, ClientLayers, LegTo
<1>4. /\ ChainOK(ChainOut) /\ Len(ChainOut) = Len(ls) /\ Sent \in Nat
      /\ \A i \in 1..Len(ls) : ChainOut[i].k = ls[i].fk /\ ChainOut[i].o = Sent - ls[i].fn
                               /\ ls[i].fn \in Nat /\ ls[i].bn \in Nat
  <2>1. ChainOK(ChainOut) /\ Len(ChainOut) = Len(ls) /\ Sent \in Nat
    BY <1>1, <1>2 DEF ChainIsFor, Sent
  <2>2. ASSUME NEW i \in 1..Len(ls)
        PROVE  ChainOut[i].k = ls[i].fk /\ ChainOut[i].o = Sent - ls[i].fn /\ ls[i].fn \in Nat /\ ls[i].bn \in Nat
    <3>1. ChainOut[i].k = ls[i].fk /\ ChainOut[i].o = Sent - ls[i].fn /\ IsHop(ls[i])
      BY <1>1, <1>2 DEF ChainIsFor, Sent
    <3>. QED
      BY <3>1 DEF IsHop
  <2>. QED
    BY <2>1, <2>2
<1>5. Len(ChainOut) = k + e /\ \A i \in 1..k : i \in 1..Len(ls)
  BY <1>3, <1>4
<1>6. \A i \in 1..k : i \in 1..Len(ChainOut) /\ ChainOut[i].k = FK(LegTo(i)) /\ ls[i] = ClientEnd.hops[i]
  BY <1>3, <1>4, <1>5
<1>7. ClientEnd.e2e # <<>> => ChainOut[k + 1].k = C2H /\ ls[k + 1] = ClientEnd.e2e[1]
  <2>1. SUFFICES ASSUME ClientEnd.e2e # <<>> PROVE ChainOut[k + 1].k = C2H /\ ls[k + 1] = ClientEnd.e2e[1]
    OBVIOUS
  <2>2. k + 1 \in 1..Len(ls)
    BY <1>3, <2>1
  <2>. QED
    BY <1>3, <1>4, <2>1, <2>2
<1>. QED
  BY <1>1, <1>3, <1>4, <1>5, <1>6, <1>7

LEMMA ServiceOutIs ==
  ASSUME ServiceIs, ServiceChain, Len(ServiceEnd.hops) = 1
  PROVE  /\ ChainOK(ServiceOut) /\ Len(ServiceOut) = 1 + Len(ServiceEnd.e2e) /\ Len(ServiceEnd.e2e) \in 0..1
         /\ \A i \in 1..Len(ServiceOut) : ServiceOut[i].k = ServiceLayers[i].fk /\ ServiceLayers[i].fn \in Nat
                                          /\ ServiceOut[i].o = ServiceLayers[1].fn - ServiceLayers[i].fn
         /\ ServiceOut[1].k = FK(Meet) /\ ServiceOut[1].o = 0 /\ ServiceLayers[1] = ServiceEnd.hops[1]
         /\ ServiceEnd.e2e # <<>> => ServiceOut[2].k = H2C /\ ServiceLayers[2] = ServiceEnd.e2e[1]
<1>1. PICK e, ls : e = Len(ServiceEnd.e2e) /\ ls = ServiceLayers
  OBVIOUS
<1>2. ChainIsFor(ls, 1) /\ Chain(ls) = ServiceOut
  BY <1>1 DEF ServiceChain, ServiceOut
<1>3. /\ e \in 0..1 /\ Len(ls) = 1 + e /\ (ServiceEnd.e2e # <<>> <=> e = 1)
      /\ ls[1] = ServiceEnd.hops[1] /\ ls[1].fk = FK(Meet)
      /\ ServiceEnd.e2e # <<>> => ls[2] = ServiceEnd.e2e[1] /\ ls[2].fk = H2C
  <2>1. EndLayers(ServiceEnd, "service", 1, H2C, C2H)
    BY DEF ServiceIs
  <2>2. 1 \in 1..1 /\ 1 + 1 = 2
    OBVIOUS
  <2>. QED
    BY <1>1, <2>1, <2>2 DEF EndLayers, ServiceLayers, Meet
<1>4. /\ ChainOK(ServiceOut) /\ Len(ServiceOut) = Len(ls) /\ ServiceOut[1].o = 0
      /\ \A i \in 1..Len(ls) : ServiceOut[i].k = ls[i].fk /\ ServiceOut[i].o = ls[1].fn - ls[i].fn /\ IsHop(ls[i])
  BY <1>1, <1>2 DEF ChainIsFor
<1>5. \A i \in 1..Len(ls) : ls[i].fn \in Nat
  BY <1>4 DEF IsHop
<1>6. Len(ServiceOut) = 1 + e /\ 1 \in 1..Len(ls) /\ (e = 1 => 2 \in 1..Len(ls))
  BY <1>3, <1>4
<1>. QED
  BY <1>1, <1>3, <1>4, <1>5, <1>6

LEMMA ForeignKeys ==
  ASSUME ClientIs, ClientChain, ServiceIs, ServiceChain, BackIs, MeetBackIs, NEW k
  PROVE  /\ Known > 0 /\ ~OutKey(k) => Foreign(ChainOut, k)
         /\ ~BackKey(k) => Foreign(ChainBack, k)
         /\ Len(ServiceEnd.hops) = 1 /\ ~MeetOutKey(k) => Foreign(ServiceOut, k)
         /\ ~MeetBackKey(k) => Foreign(MeetBack, k)
<1>1. Known \in Nat /\ PathLen \in Nat
  BY KnownRelays, LegIs
<1>2. ASSUME Known > 0, ~OutKey(k), NEW i \in 1..Len(ChainOut) PROVE ChainOut[i].k # k
  <2>1. PICK n, e : n = Known /\ e = Len(ClientEnd.e2e)
    OBVIOUS
  <2>2. e \in 0..1 /\ i \in 1..(n + e) /\ n \in Nat /\ (ClientEnd.e2e # <<>> <=> e = 1)
    <3>1. ClientEnd.e2e # <<>> <=> Len(ClientEnd.e2e) = 1
      BY DEF ClientIs, EndLayers
    <3>. QED
      BY <1>1, <1>2, <2>1, <3>1, ClientOutIs
  <2>3. CASE i \in 1..n
    BY <1>2, <2>1, <2>3, ClientOutIs DEF OutKey
  <2>4. CASE i \notin 1..n
    <3>1. i = n + 1 /\ e = 1
      BY <2>2, <2>4
    <3>. QED
      BY <1>2, <2>1, <2>2, <3>1, ClientOutIs DEF OutKey
  <2>. QED
    BY <2>3, <2>4
<1>3. ASSUME ~BackKey(k), NEW i \in 1..Len(ChainBack) PROVE ChainBack[i].k # k
  <2>1. CASE i \in 1..Known
    BY <1>3, <2>1 DEF BackIs, BackKey
  <2>2. CASE i \notin 1..Known
    <3>1. ServiceEnd.e2e # <<>> /\ i \in 1..(PathLen + 1) /\ Known = PathLen
      <4>1. Len(ChainBack) = (IF ServiceEnd.e2e = <<>> THEN Known ELSE PathLen + 1) /\ (ServiceEnd.e2e # <<>> => Known = PathLen)
        BY DEF BackIs
      <4>2. ServiceEnd.e2e # <<>>
        BY <4>1, <2>2
      <4>. QED
        BY <4>1, <4>2
    <3>2. i = PathLen + 1
      BY <1>1, <2>2, <3>1
    <3>. QED
      BY <1>3, <3>1, <3>2 DEF BackIs, BackKey
  <2>. QED
    BY <2>1, <2>2
<1>4. ASSUME Len(ServiceEnd.hops) = 1, ~MeetOutKey(k), NEW i \in 1..Len(ServiceOut) PROVE ServiceOut[i].k # k
  <2>1. i = 1 \/ (i = 2 /\ ServiceEnd.e2e # <<>>)
    <3>1. PICK e : e = Len(ServiceEnd.e2e)
      OBVIOUS
    <3>2. e \in 0..1 /\ i \in 1..(1 + e) /\ (ServiceEnd.e2e # <<>> <=> e = 1)
      <4>1. ServiceEnd.e2e # <<>> <=> Len(ServiceEnd.e2e) = 1
        BY DEF ServiceIs, EndLayers
      <4>. QED
        BY <1>4, <3>1, <4>1, ServiceOutIs
    <3>. QED
      BY <3>2
  <2>. QED
    BY <1>4, <2>1, ServiceOutIs DEF MeetOutKey
<1>5. ASSUME ~MeetBackKey(k), NEW i \in 1..Len(MeetBack) PROVE MeetBack[i].k # k
  <2>1. i = 1 \/ (i = 2 /\ ClientEnd.e2e # <<>>)
    <3>1. Len(MeetBack) = (IF ClientEnd.e2e = <<>> THEN 1 ELSE 2)
      BY DEF MeetBackIs
    <3>. QED
      BY <3>1
  <2>. QED
    BY <1>5, <2>1 DEF MeetBackIs, MeetBackKey
<1>. QED
  BY <1>2, <1>3, <1>4, <1>5 DEF Foreign

\* A cell with a layer is on a way that has it.
LEMMA Bearers ==
  ASSUME Good, NEW c \in Everywhere, NEW k, NEW t, Bears(c, k, t)
  PROVE  \/ OutKey(k) /\ OutSite(c)
         \/ BackKey(k) /\ BackSite(c)
         \/ MeetOutKey(k) /\ MeetOutSite(c)
         \/ MeetBackKey(k) /\ MeetBackSite(c)
<1>1. ClientIs /\ ServiceIs /\ ClientChain /\ ServiceChain /\ BackIs /\ MeetBackIs
  BY GoodFacts DEF Facts
<1>2. Known \in Nat
  BY <1>1, KnownRelays
<1>3. CASE OutSite(c)
  <2>1. PICK i \in 1..Known, T \in Int : CellOK(ChainOut, c, i, T)
    BY <1>3 DEF OutSite
  <2>2. Known > 0 /\ i \in Nat \ {0}
    BY <1>2
  <2>3. ChainOK(ChainOut)
    BY <1>1, <2>2, ClientOutIs
  <2>4. ~Foreign(ChainOut, k)
    BY ONLY <2>1, <2>2, <2>3, Bears(c, k, t), CellBare
  <2>. QED
    BY <1>1, <1>3, <2>2, <2>4, ForeignKeys
<1>4. CASE BackSite(c)
  <2>1. PICK i \in 1..Known, T \in Int : CellOK(ChainBack, c, i, T)
    BY <1>4 DEF BackSite
  <2>2. Known > 0 /\ i \in Nat \ {0}
    BY <1>2
  <2>3. ChainOK(ChainBack)
    BY <1>1 DEF BackIs
  <2>4. ~Foreign(ChainBack, k)
    BY ONLY <2>1, <2>2, <2>3, Bears(c, k, t), CellBare
  <2>. QED
    BY <1>1, <1>4, <2>4, ForeignKeys
<1>5. CASE MeetOutSite(c)
  <2>1. PICK T \in Int : CellOK(ServiceOut, c, 1, T)
    BY <1>5 DEF MeetOutSite
  <2>2. Len(ServiceEnd.hops) = 1 /\ 1 \in Nat \ {0}
    BY <1>5 DEF MeetOutSite
  <2>3. ChainOK(ServiceOut)
    BY <1>1, <2>2, ServiceOutIs
  <2>4. ~Foreign(ServiceOut, k)
    BY ONLY <2>1, <2>2, <2>3, Bears(c, k, t), CellBare
  <2>. QED
    BY <1>1, <1>5, <2>2, <2>4, ForeignKeys
<1>6. CASE MeetBackSite(c)
  <2>1. PICK T \in Int : CellOK(MeetBack, c, 1, T)
    BY <1>6 DEF MeetBackSite
  <2>2. 1 \in Nat \ {0}
    OBVIOUS
  <2>3. ChainOK(MeetBack)
    BY <1>1 DEF MeetBackIs
  <2>4. ~Foreign(MeetBack, k)
    BY ONLY <2>1, <2>2, <2>3, Bears(c, k, t), CellBare
  <2>. QED
    BY <1>1, <1>6, <2>4, ForeignKeys
<1>. QED
  BY <1>3, <1>4, <1>5, <1>6, EverySited DEF Sited

LEMMA KeyLives ==
  ASSUME Good
  PROVE  /\ \A n \in Int : /\ OutKey(FK(LegTo(n))) => n \in 1..Known
                           /\ BackKey(BK(LegTo(n))) => n \in 1..Known
                           /\ ~BackKey(FK(LegTo(n))) /\ ~MeetOutKey(FK(LegTo(n))) /\ ~MeetBackKey(FK(LegTo(n)))
                           /\ ~OutKey(BK(LegTo(n))) /\ ~MeetOutKey(BK(LegTo(n))) /\ ~MeetBackKey(BK(LegTo(n)))
         /\ ~OutKey(FK(Meet)) /\ ~BackKey(FK(Meet)) /\ ~MeetBackKey(FK(Meet))
         /\ ~OutKey(BK(Meet)) /\ ~BackKey(BK(Meet)) /\ ~MeetOutKey(BK(Meet))
         /\ ~BackKey(C2H) /\ ~MeetOutKey(C2H) /\ ~OutKey(H2C) /\ ~MeetBackKey(H2C)
<1>1. ClientIs
  BY GoodFacts DEF Facts
<1>2. \A i \in 1..Known : i \in Int /\ LegTo(i) # Meet
  BY <1>1, KnownRelays, LegApart
<1>3. \A i, j \in Int : LegTo(i) = LegTo(j) => i = j
  BY LegApart
<1>4. \A n \in Int : LegTo(n) # Meet
  BY LegApart
<1>5. ASSUME NEW n \in Int
      PROVE  /\ OutKey(FK(LegTo(n))) => n \in 1..Known
             /\ BackKey(BK(LegTo(n))) => n \in 1..Known
             /\ ~BackKey(FK(LegTo(n))) /\ ~MeetOutKey(FK(LegTo(n))) /\ ~MeetBackKey(FK(LegTo(n)))
             /\ ~OutKey(BK(LegTo(n))) /\ ~MeetOutKey(BK(LegTo(n))) /\ ~MeetBackKey(BK(LegTo(n)))
  <2>1. OutKey(FK(LegTo(n))) => n \in 1..Known
    BY <1>2, <1>3, KeysAre DEF OutKey
  <2>2. BackKey(BK(LegTo(n))) => n \in 1..Known
    BY <1>2, <1>3, KeysAre DEF BackKey
  <2>3. ~BackKey(FK(LegTo(n))) /\ ~OutKey(BK(LegTo(n)))
    BY KeysAre DEF BackKey, OutKey
  <2>4. ~MeetOutKey(FK(LegTo(n))) /\ ~MeetBackKey(FK(LegTo(n))) /\ ~MeetOutKey(BK(LegTo(n))) /\ ~MeetBackKey(BK(LegTo(n)))
    BY <1>4, KeysAre DEF MeetOutKey, MeetBackKey
  <2>. QED
    BY <2>1, <2>2, <2>3, <2>4
<1>6. ~OutKey(FK(Meet)) /\ ~BackKey(FK(Meet)) /\ ~MeetBackKey(FK(Meet))
  BY <1>2, KeysAre DEF OutKey, BackKey, MeetBackKey
<1>7. ~OutKey(BK(Meet)) /\ ~BackKey(BK(Meet)) /\ ~MeetOutKey(BK(Meet))
  BY <1>2, KeysAre DEF OutKey, BackKey, MeetOutKey
<1>8. ~BackKey(C2H) /\ ~MeetOutKey(C2H) /\ ~OutKey(H2C) /\ ~MeetBackKey(H2C)
  BY KeysAre DEF BackKey, MeetOutKey, OutKey, MeetBackKey
<1>. QED
  BY <1>5, <1>6, <1>7, <1>8

\* The two copies of one layer, by what is on its way and on no other.
NoOther(k, W) == \A c \in Everywhere \ W : \A t : ~Bears(c, k, t)
LEMMA InStepIs ==
  ASSUME NEW k, NEW W, NEW a, NEW b, NEW o \in Nat, OnTheWay(k, W, a, b, o), NEW sent \in Nat, NEW seen \in Nat,
         a = seen + o, b = sent + o, a <= b, NoOther(k, W)
  PROVE  InStep(k, sent, seen, W)
<1>1. sent >= seen
  OBVIOUS
<1>2. \A t : t \in Counters(k, W) <=> t \in seen..(sent - 1)
  BY DEF OnTheWay
<1>3. Counters(k, W) = seen..(sent - 1)
  BY ONLY <1>2
<1>4. \A t : t \notin Counters(k, Everywhere \ W)
  BY CountersAre DEF NoOther
<1>5. Counters(k, Everywhere \ W) = {}
  BY ONLY <1>4
<1>. QED
  BY <1>1, <1>3, <1>5 DEF InStep

LEMMA InStepNone ==
  ASSUME NEW k, NEW W, W \subseteq Everywhere, \A c \in Everywhere : \A t : ~Bears(c, k, t), NEW z, z = 0
  PROVE  InStep(k, z, z, W)
<1>1. (\A t : t \notin Counters(k, W)) /\ \A t : t \notin Counters(k, Everywhere \ W)
  BY CountersAre
<1>2. Counters(k, W) = {} /\ Counters(k, Everywhere \ W) = {}
  BY ONLY <1>1
<1>3. 0..(0 - 1) = {} /\ 0 >= 0
  OBVIOUS
<1>. QED
  BY <1>2, <1>3 DEF InStep

LEMMA WaysWithin ==
  \A l \in Leg : Outgoing(l) \subseteq Everywhere /\ Incoming(l) \subseteq Everywhere
<1>. SUFFICES ASSUME NEW l \in Leg PROVE Outgoing(l) \subseteq Everywhere /\ Incoming(l) \subseteq Everywhere
  OBVIOUS
<1>1. CASE l = Meet
  <2>1. Meet \in Leg
    BY LegIs
  <2>. QED
    BY <1>1, <2>1, OutgoingIs, IncomingIs, EverywhereIs
<1>2. ASSUME NEW n \in 1..PathLen, l = LegTo(n) PROVE Outgoing(l) \subseteq Everywhere /\ Incoming(l) \subseteq Everywhere
  <2>1. n \in Int /\ \A i \in 1..n : i \in 1..PathLen
    BY LegIs
  <2>2. \A i \in 1..n : LegTo(i) \in Leg
    BY <2>1, LegIs
  <2>3. ASSUME NEW c \in Outgoing(l) PROVE c \in Everywhere
    BY <1>2, <2>1, <2>2, OutgoingIs, EverywhereIs
  <2>4. ASSUME NEW c \in Incoming(l) PROVE c \in Everywhere
    BY <1>2, <2>1, <2>2, IncomingIs, EverywhereIs
  <2>. QED
    BY <2>3, <2>4
<1>. QED
  BY <1>1, <1>2, LegIs

\* The layers of the client's hops are on the cells of their way.
LEMMA HopOutBearers == ASSUME Good, NEW n \in 1..Known PROVE NoOther(FK(LegTo(n)), Outgoing(LegTo(n)))
<1>1. ClientIs /\ ClientChain
  BY GoodFacts DEF Facts
<1>2. Known \in Nat /\ n \in Int /\ n \in 1..n /\ Known > 0
  BY <1>1, KnownRelays
<1>. SUFFICES ASSUME NEW c \in Everywhere, NEW t, Bears(c, FK(LegTo(n)), t) PROVE c \in Outgoing(LegTo(n))
  BY DEF NoOther
<1>3. OutSite(c)
  BY <1>2, Bearers, KeyLives
<1>4. PICK i \in 1..Known, T \in Int : c \in Outgoing(LegTo(i)) /\ CellOK(ChainOut, c, i, T)
  BY <1>3 DEF OutSite
<1>5. ChainOK(ChainOut) /\ n \in 1..Len(ChainOut) /\ ChainOut[n].k = FK(LegTo(n)) /\ i \in Nat \ {0}
  BY <1>1, <1>2, ClientOutIs
<1>6. Bears(c, ChainOut[n].k, t) => i <= n
  BY ONLY <1>4, <1>5, T \in Int, CellBears, Zenon
<1>7. i <= n /\ i \in Int /\ \A j \in 1..i : j \in 1..n
  BY <1>2, <1>5, <1>6
<1>. QED
  BY <1>2, <1>4, <1>7, OutgoingIs

LEMMA HopBackBearers == ASSUME Good, NEW n \in 1..Known PROVE NoOther(BK(LegTo(n)), Incoming(LegTo(n)))
<1>1. ClientIs /\ BackIs
  BY GoodFacts DEF Facts
<1>2. Known \in Nat /\ n \in Int /\ Known > 0 /\ Known <= PathLen /\ PathLen \in Nat
  BY <1>1, KnownRelays, LegIs
<1>. SUFFICES ASSUME NEW c \in Everywhere, NEW t, Bears(c, BK(LegTo(n)), t) PROVE c \in Incoming(LegTo(n))
  BY DEF NoOther
<1>3. BackSite(c)
  BY <1>2, Bearers, KeyLives
<1>4. PICK i \in 1..Known, T \in Int : c \in Incoming(LegTo(i)) /\ CellOK(ChainBack, c, i, T)
  BY <1>3 DEF BackSite
<1>5. ChainOK(ChainBack) /\ n \in 1..Len(ChainBack) /\ ChainBack[n].k = BK(LegTo(n)) /\ i \in Nat \ {0}
  BY <1>1, <1>2 DEF BackIs
<1>6. Bears(c, ChainBack[n].k, t) => i <= n
  BY ONLY <1>4, <1>5, T \in Int, CellBears, Zenon
<1>7. i <= n /\ i \in 1..PathLen /\ n \in 1..PathLen /\ (i = PathLen => n = PathLen) /\ \A j \in 1..i : j \in 1..n
  BY <1>2, <1>5, <1>6
<1>. QED
  BY <1>4, <1>7, IncomingIs

LEMMA MeetBearers ==
  ASSUME Good, Len(ServiceEnd.hops) = 1
  PROVE  NoOther(FK(Meet), Outgoing(Meet)) /\ NoOther(BK(Meet), Incoming(Meet))
<1>1. ASSUME NEW c \in Everywhere, NEW t, Bears(c, FK(Meet), t) PROVE c \in Outgoing(Meet)
  <2>1. MeetOutSite(c)
    BY <1>1, Bearers, KeyLives
  <2>. QED
    BY <2>1 DEF MeetOutSite
<1>2. ASSUME NEW c \in Everywhere, NEW t, Bears(c, BK(Meet), t) PROVE c \in Incoming(Meet)
  <2>1. MeetBackSite(c)
    BY <1>2, Bearers, KeyLives
  <2>. QED
    BY <2>1 DEF MeetBackSite
<1>. QED
  BY <1>1, <1>2 DEF NoOther

\* One relay's copy of a hop, and its origin's: the same until the origin has the hop.
MineOf(leg, hop) ==
  LET oc == origin[leg[1]] IN IF leg[2] <= Len(oc.hops) THEN oc.hops[leg[2]] ELSE HopState(hop.fk, hop.bk)
HopOK(leg, hop, mine) ==
  /\ mine.fk = hop.fk /\ mine.bk = hop.bk
  /\ InStep(hop.fk, mine.fn, hop.fn, Outgoing(leg))
  /\ InStep(hop.bk, hop.bn, mine.bn, Incoming(leg))
LEMMA HopsAre == (\A leg \in DOMAIN relays : HopOK(leg, relays[leg].hop, MineOf(leg, relays[leg].hop))) => HopsInStep
BY DEF HopsInStep, HopOK, MineOf

LEMMA KnownHopOK ==
  ASSUME Good, NEW n \in 1..Known
  PROVE  HopOK(LegTo(n), RelayHop(n), ClientEnd.hops[n])
<1>1. Shape /\ ClientOut /\ ClientBack /\ ClientHears
  BY DEF Good
<1>2. ClientIs /\ ClientChain /\ BackIs
  BY GoodFacts DEF Facts
<1>3. PICK k, l, h, r : k = Known /\ l = ClientLayers[n] /\ h = ClientEnd.hops[n] /\ r = RelayHop(n)
  OBVIOUS
<1>4. k \in Nat /\ k > 0 /\ n \in 1..k /\ n \in Int /\ LegTo(n) \in DOMAIN relays /\ k <= PathLen /\ PathLen \in Nat
  BY <1>1, <1>3, KnownIs
<1>5. n \in 1..Len(ChainOut) /\ ChainOut[n].k = FK(LegTo(n)) /\ l = h /\ ChainOut[n].o = Sent - l.fn
      /\ l.fn \in Nat /\ l.bn \in Nat /\ ChainOK(ChainOut) /\ Sent \in Nat
  BY <1>2, <1>3, <1>4, ClientOutIs
<1>6. n \in 1..Len(ChainBack) /\ ChainBack[n].k = BK(LegTo(n)) /\ ChainBack[n].o = n - 1
  BY <1>2, <1>3, <1>4 DEF BackIs
<1>7. r.fk = FK(LegTo(n)) /\ r.bk = BK(LegTo(n))
  BY <1>1, <1>3, <1>4, RelayIs DEF RelayHop
<1>8. l.fk = FK(LegTo(n)) /\ l.bk = BK(LegTo(n))
  BY <1>2, <1>3, <1>4 DEF ClientIs, EndLayers, ClientLayers, LegTo
<1>9. InStep(r.fk, l.fn, r.fn, Outgoing(LegTo(n)))
  <2>1. PICK o, a, b, W, x, f, y : o = ChainOut[n].o /\ a = Passed(n) /\ b = Sent /\ W = Outgoing(LegTo(n)) /\ x = FK(LegTo(n))
                                   /\ f = r.fn /\ y = l.fn
    OBVIOUS
  <2>2. OnTheWay(x, W, a, b, o) /\ a <= b /\ f \in Nat /\ b \in Nat
    <3>1. n <= n
      BY <1>4
    <3>. QED
      BY <1>1, <1>2, <1>3, <1>5, <2>1, <3>1, ClientOutCounts
  <2>3. o \in Nat
    BY <1>5, <2>1 DEF ChainOK
  <2>4. a = f + o
    BY <1>3, <2>1 DEF Passed
  <2>5. o = b - y /\ y \in Nat
    BY <1>5, <2>1
  <2>6. b = y + o
    BY ONLY <2>2, <2>3, <2>5
  <2>7. NoOther(x, W)
    BY <2>1, HopOutBearers
  <2>8. InStep(x, y, f, W)
    BY ONLY <2>2, <2>3, <2>4, <2>5, <2>6, <2>7, InStepIs
  <2>. QED
    BY <1>7, <2>1, <2>8
<1>10. InStep(r.bk, r.bn, l.bn, Incoming(LegTo(n)))
  <2>1. PICK o, a, b, W, x, f, y : o = n - 1 /\ a = Read /\ b = r.bn + o /\ W = Incoming(LegTo(n)) /\ x = BK(LegTo(n))
                                   /\ f = r.bn /\ y = l.bn
    OBVIOUS
  <2>2. OnTheWay(x, W, a, b, o) /\ a <= b /\ f \in Nat /\ a \in Nat
    <3>1. n <= n
      BY <1>4
    <3>2. /\ OnTheWay(ChainBack[n].k, Incoming(LegTo(n)), Read, RelayHop(n).bn + ChainBack[n].o, ChainBack[n].o)
          /\ Read <= RelayHop(n).bn + ChainBack[n].o /\ RelayHop(n).bn \in Nat /\ Read \in Nat
      BY <1>1, <1>2, <1>6, <3>1, ClientBackCounts
    <3>. QED
      BY <1>3, <1>6, <2>1, <3>2
  <2>3. o \in Nat
    BY <1>4, <2>1
  <2>4. a = y + o
    <3>1. n \in 1..Len(ClientLayers)
      BY <1>2, <1>3, <1>4 DEF ClientIs, EndLayers, ClientLayers
    <3>2. l.bn + Starts(n) = Read
      BY <1>1, <1>3, <3>1 DEF ClientHears, ClientHeard, Read
    <3>3. Starts(n) = n - 1
      BY <1>4 DEF Starts
    <3>. QED
      BY <2>1, <3>2, <3>3
  <2>5. b = f + o /\ y \in Nat
    BY <1>5, <2>1
  <2>6. NoOther(x, W)
    BY <2>1, HopBackBearers
  <2>7. InStep(x, f, y, W)
    BY ONLY <2>2, <2>3, <2>4, <2>5, <2>6, InStepIs
  <2>. QED
    BY <1>7, <2>1, <2>7
<1>11. h.fk = r.fk /\ h.bk = r.bk /\ InStep(r.fk, h.fn, r.fn, Outgoing(LegTo(n))) /\ InStep(r.bk, r.bn, h.bn, Incoming(LegTo(n)))
  BY <1>5, <1>7, <1>8, <1>9, <1>10
<1>. QED
  BY <1>3, <1>11 DEF HopOK

LEMMA MetHopOK ==
  ASSUME Good, Len(ServiceEnd.hops) = 1
  PROVE  HopOK(Meet, MeetHop, ServiceEnd.hops[1])
<1>1. Shape /\ ServiceWayOut /\ ServiceBack
  BY DEF Good
<1>2. ServiceIs /\ ServiceChain /\ MeetBackIs
  BY GoodFacts DEF Facts
<1>3. PICK h, r : h = ServiceEnd.hops[1] /\ r = MeetHop
  OBVIOUS
<1>4. Meet \in DOMAIN relays
  BY <1>1, KnownIs
<1>5. r.fk = FK(Meet) /\ r.bk = BK(Meet) /\ IsHop(r)
  BY <1>1, <1>3, <1>4, RelayIs DEF MeetHop
<1>6. ServiceLayers[1] = h /\ h.fk = FK(Meet) /\ h.bk = BK(Meet) /\ 1 \in 1..1
  <2>1. 1 \in 1..1
    OBVIOUS
  <2>. QED
    BY <1>2, <1>3, <2>1 DEF ServiceIs, EndLayers, ServiceLayers, Meet
<1>7. InStep(FK(Meet), h.fn, r.fn, Outgoing(Meet))
  <2>1. PICK o, a, b, W, x, n : o = 0 /\ a = r.fn /\ b = h.fn /\ W = Outgoing(Meet) /\ x = FK(Meet) /\ n = 1
    OBVIOUS
  <2>2. n \in 1..Len(ServiceOut) /\ ServiceOut[n].k = x /\ ServiceOut[n].o = o
    <3>1. Len(ServiceOut) = 1 + Len(ServiceEnd.e2e) /\ Len(ServiceEnd.e2e) \in 0..1 /\ ServiceOut[1].k = FK(Meet) /\ ServiceOut[1].o = 0
      BY <1>2, ServiceOutIs
    <3>. QED
      BY <2>1, <3>1
  <2>3. OnTheWay(x, W, a, b, o) /\ a <= b /\ a \in Nat /\ b \in Nat
    BY <1>1, <1>2, <1>3, <1>6, <2>1, <2>2, ServiceOutCounts
  <2>4. o \in Nat /\ a = a + o /\ b = b + o
    BY <2>1, <2>3
  <2>5. NoOther(x, W)
    BY <2>1, MeetBearers
  <2>6. InStep(x, b, a, W)
    BY ONLY <2>3, <2>4, <2>5, InStepIs
  <2>. QED
    BY <2>1, <2>6
<1>8. InStep(BK(Meet), r.bn, h.bn, Incoming(Meet))
  <2>1. PICK o, a, b, W, x, n : o = 0 /\ a = h.bn /\ b = r.bn /\ W = Incoming(Meet) /\ x = BK(Meet) /\ n = 1
    OBVIOUS
  <2>2. n \in 1..Len(MeetBack) /\ MeetBack[n].k = x /\ MeetBack[n].o = o
    <3>1. (Len(MeetBack) = 1 \/ Len(MeetBack) = 2) /\ MeetBack[1].k = BK(Meet) /\ MeetBack[1].o = 0
      BY <1>2 DEF MeetBackIs
    <3>. QED
      BY <2>1, <3>1
  <2>3. OnTheWay(x, W, a, b, o) /\ a <= b /\ a \in Nat /\ b \in Nat
    BY <1>1, <1>2, <1>3, <1>6, <2>1, <2>2, MeetBackCounts
  <2>4. o \in Nat /\ a = a + o /\ b = b + o
    BY <2>1, <2>3
  <2>5. NoOther(x, W)
    BY <2>1, MeetBearers
  <2>6. InStep(x, b, a, W)
    BY ONLY <2>3, <2>4, <2>5, InStepIs
  <2>. QED
    BY <2>1, <2>6
<1>9. h.fk = r.fk /\ h.bk = r.bk /\ InStep(r.fk, h.fn, r.fn, Outgoing(Meet)) /\ InStep(r.bk, r.bn, h.bn, Incoming(Meet))
  BY <1>5, <1>6, <1>7, <1>8
<1>. QED
  BY <1>3, <1>9 DEF HopOK

\* A relay made, and not yet answered for.
LEMMA NewHopOK ==
  ASSUME NEW l \in Leg, Fresh(l), \A c \in Everywhere : \A t : ~Bears(c, FK(l), t) /\ ~Bears(c, BK(l), t)
  PROVE  HopOK(l, relays[l].hop, HopState(relays[l].hop.fk, relays[l].hop.bk))
<1>1. relays[l].hop = HopState(FK(l), BK(l))
  BY DEF Fresh
<1>2. PICK r : r = relays[l].hop
  OBVIOUS
<1>3. r.fk = FK(l) /\ r.bk = BK(l) /\ r.fn = 0 /\ r.bn = 0
  BY <1>1, <1>2 DEF HopState
<1>4. PICK m : m = HopState(r.fk, r.bk)
  OBVIOUS
<1>5. m.fk = r.fk /\ m.bk = r.bk /\ m.fn = 0 /\ m.bn = 0
  BY <1>4 DEF HopState
<1>6. PICK z, x, y, W, V : z = 0 /\ x = FK(l) /\ y = BK(l) /\ W = Outgoing(l) /\ V = Incoming(l)
  OBVIOUS
<1>7. W \subseteq Everywhere /\ V \subseteq Everywhere
  BY <1>6, WaysWithin
<1>8. InStep(x, z, z, W)
  <2>1. \A c \in Everywhere : \A t : ~Bears(c, x, t)
    BY <1>6
  <2>. QED
    BY ONLY <1>6, <1>7, <2>1, InStepNone
<1>9. InStep(y, z, z, V)
  <2>1. \A c \in Everywhere : \A t : ~Bears(c, y, t)
    BY <1>6
  <2>. QED
    BY ONLY <1>6, <1>7, <2>1, InStepNone
<1>10. InStep(r.fk, m.fn, r.fn, Outgoing(l)) /\ InStep(r.bk, r.bn, m.bn, Incoming(l))
  BY <1>3, <1>5, <1>6, <1>8, <1>9
<1>. QED
  BY <1>2, <1>4, <1>5, <1>10 DEF HopOK

LEMMA FreshBeyond ==
  ASSUME Good
  PROVE  /\ \A n \in 1..PathLen : LegTo(n) \in DOMAIN relays /\ n > Known => Fresh(LegTo(n))
         /\ Meet \in DOMAIN relays /\ Len(ServiceEnd.hops) = 0 => Fresh(Meet)
<1>1. Shape /\ Building
  BY DEF Good
<1>2. PICK k : k = Known
  OBVIOUS
<1>3. k \in Nat /\ PathLen \in Nat /\ k <= PathLen
  BY <1>1, <1>2, KnownIs
<1>4. ASSUME NEW e \in OriginEnd, Len(origin[e].hops) = 0, <<e, 1>> \in DOMAIN relays PROVE Fresh(<<e, 1>>)
  <2>1. Begun(e)
    BY <1>1 DEF Building
  <2>. QED
    BY <1>4, <2>1 DEF Begun, Quiet, Absent, Answered
<1>5. ASSUME NEW n \in 1..PathLen, LegTo(n) \in DOMAIN relays, n > Known PROVE Fresh(LegTo(n))
  <2>1. n = k + 1
    <3>1. n > Known + 1 => Quiet(LegTo(n))
      BY <1>1 DEF Building
    <3>2. ~(n > k + 1)
      BY <1>2, <1>5, <3>1 DEF Quiet, Absent
    <3>. QED
      BY <1>2, <1>3, <1>5, <3>2
  <2>2. CASE k = 0
    <3>1. n = 1 /\ Len(origin["client"].hops) = 0 /\ "client" \in OriginEnd /\ LegTo(n) = <<"client", 1>>
      BY <1>2, <2>1, <2>2 DEF ClientEnd, Known, OriginEnd, LegTo
    <3>. QED
      BY <3>1, <1>4, <1>5
  <2>3. CASE k # 0
    <3>1. Known \in 1..(PathLen - 1) /\ LegTo(Known + 1) = LegTo(n)
      BY <1>2, <1>3, <2>1, <2>3
    <3>2. Extending
      BY <1>1 DEF Building
    <3>3. Quiet(LegTo(n)) \/ Asked(LegTo(n)) \/ Answered(LegTo(n)) \/ Returning(LegTo(n))
      BY <3>1, <3>2 DEF Extending
    <3>. QED
      BY <1>5, <3>3 DEF Quiet, Absent, Asked, Answered, Returning
  <2>. QED
    BY <2>2, <2>3
<1>6. ASSUME Meet \in DOMAIN relays, Len(ServiceEnd.hops) = 0 PROVE Fresh(Meet)
  <2>1. Len(origin["service"].hops) = 0 /\ "service" \in OriginEnd /\ Meet = <<"service", 1>>
    BY <1>6 DEF ServiceEnd, OriginEnd, Meet
  <2>. QED
    BY <2>1, <1>4, <1>6
<1>. QED
  BY <1>5, <1>6

\* The first half of LayersInStep.
LEMMA GoodHops == Good => HopsInStep
<1>. SUFFICES ASSUME Good PROVE HopsInStep
  OBVIOUS
<1>1. Shape
  BY DEF Good
<1>2. PICK k, m : k = Known /\ m = Len(ServiceEnd.hops)
  OBVIOUS
<1>3. k \in Nat /\ PathLen \in Nat /\ m \in 0..1
  BY <1>1, <1>2, KnownIs
<1>4. ASSUME NEW n \in 1..PathLen, LegTo(n) \in DOMAIN relays
      PROVE  HopOK(LegTo(n), RelayHop(n), MineOf(LegTo(n), RelayHop(n)))
  <2>1. MineOf(LegTo(n), RelayHop(n)) = IF n <= k THEN ClientEnd.hops[n] ELSE HopState(RelayHop(n).fk, RelayHop(n).bk)
    <3>1. LegTo(n)[1] = "client" /\ LegTo(n)[2] = n
      BY DEF LegTo
    <3>. QED
      BY <1>2, <3>1 DEF MineOf, ClientEnd, Known
  <2>2. CASE n <= k
    <3>1. n \in 1..Known
      BY <1>2, <1>3, <2>2
    <3>. QED
      BY <2>1, <2>2, <3>1, KnownHopOK
  <2>3. CASE ~(n <= k)
    <3>1. LegTo(n) \in Leg /\ Fresh(LegTo(n)) /\ n \in Int /\ n \notin 1..Known
      BY <1>2, <1>3, <1>4, <2>3, FreshBeyond, LegIs
    <3>2. \A c \in Everywhere : \A t : ~Bears(c, FK(LegTo(n)), t) /\ ~Bears(c, BK(LegTo(n)), t)
      BY <3>1, Bearers, KeyLives
    <3>. QED
      BY <2>1, <2>3, <3>1, <3>2, NewHopOK DEF RelayHop
  <2>. QED
    BY <2>2, <2>3
<1>5. ASSUME Meet \in DOMAIN relays PROVE HopOK(Meet, MeetHop, MineOf(Meet, MeetHop))
  <2>1. MineOf(Meet, MeetHop) = IF 1 <= m THEN ServiceEnd.hops[1] ELSE HopState(MeetHop.fk, MeetHop.bk)
    <3>1. Meet[1] = "service" /\ Meet[2] = 1
      BY DEF Meet
    <3>. QED
      BY <1>2, <3>1 DEF MineOf, ServiceEnd
  <2>2. CASE m = 1
    BY <1>2, <2>1, <2>2, MetHopOK
  <2>3. CASE m = 0
    <3>1. Meet \in Leg /\ Fresh(Meet) /\ Len(ServiceEnd.hops) # 1
      BY <1>2, <1>5, <2>3, FreshBeyond, LegIs
    <3>2. \A c \in Everywhere : \A t : ~Bears(c, FK(Meet), t) /\ ~Bears(c, BK(Meet), t)
      BY <3>1, Bearers, KeyLives DEF MeetOutSite, MeetBackSite
    <3>. QED
      BY <2>1, <2>3, <3>1, <3>2, NewHopOK DEF MeetHop
  <2>. QED
    BY <1>3, <2>2, <2>3
<1>6. ASSUME NEW leg \in DOMAIN relays PROVE HopOK(leg, relays[leg].hop, MineOf(leg, relays[leg].hop))
  <2>1. leg \in Leg
    BY <1>1, RelayIs
  <2>2. CASE leg = Meet
    BY <1>5, <1>6, <2>2 DEF MeetHop
  <2>3. ASSUME NEW n \in 1..PathLen, leg = LegTo(n) PROVE HopOK(leg, relays[leg].hop, MineOf(leg, relays[leg].hop))
    BY <1>4, <1>6, <2>3 DEF RelayHop
  <2>. QED
    BY <2>1, <2>2, <2>3, LegIs
<1>. QED
  BY <1>6, HopsAre

LEMMA EverywhereCounts ==
  ASSUME NEW k, NEW W, NEW V, W \subseteq Everywhere, V \subseteq Everywhere,
         \A c \in Everywhere : \A t : Bears(c, k, t) => c \in W \/ c \in V, NEW t
  PROVE  t \in Counters(k, Everywhere) <=> t \in Counters(k, W) \/ t \in Counters(k, V)
<1>1. t \in Counters(k, Everywhere) <=> \E c \in Everywhere : Bears(c, k, t)
  BY CountersAre
<1>2. t \in Counters(k, W) <=> \E c \in W : Bears(c, k, t)
  BY CountersAre
<1>3. t \in Counters(k, V) <=> \E c \in V : Bears(c, k, t)
  BY CountersAre
<1>. QED
  BY <1>1, <1>2, <1>3

\* One layer on two ways that follow each other.
LEMMA InStepTwo ==
  ASSUME NEW k, NEW W, NEW V, W \subseteq Everywhere, V \subseteq Everywhere,
         \A c \in Everywhere : \A t : Bears(c, k, t) => c \in W \/ c \in V,
         NEW sent \in Nat, NEW seen \in Nat, sent >= seen,
         \A t : t \in Counters(k, W) \/ t \in Counters(k, V) <=> t \in seen..(sent - 1)
  PROVE  InStep(k, sent, seen, Everywhere)
<1>1. \A t : t \in Counters(k, Everywhere) <=> t \in seen..(sent - 1)
  BY EverywhereCounts
<1>2. Counters(k, Everywhere) = seen..(sent - 1)
  BY ONLY <1>1
<1>3. Everywhere \ Everywhere = {}
  OBVIOUS
<1>4. \A t : t \notin Counters(k, Everywhere \ Everywhere)
  BY <1>3, CountersAre
<1>5. Counters(k, Everywhere \ Everywhere) = {}
  BY ONLY <1>4
<1>. QED
  BY <1>2, <1>5 DEF InStep

\* The client has its end of the end-to-end layer: how far the others are.
LEMMA EndsMeet ==
  ASSUME Good, ClientEnd.e2e # <<>>
  PROVE  /\ cookie = "used" /\ Known = PathLen /\ PathLen \in Nat /\ PathLen >= 1 /\ Known > 0
         /\ Len(ServiceEnd.hops) = 1 /\ Meet \in DOMAIN relays /\ intro = Meeting
         /\ ClientEnd.e2e[1].fk = C2H /\ ClientEnd.e2e[1].bk = H2C /\ ClientEnd.e2e[1].fn \in Nat /\ ClientEnd.e2e[1].bn \in Nat
         /\ PathLen \in 1..Known /\ PathLen + 1 \in 1..Len(ChainOut) /\ ChainOut[PathLen + 1].k = C2H
         /\ ChainOut[PathLen + 1].o = Sent - ClientEnd.e2e[1].fn /\ ChainOut[PathLen + 1].o \in Nat /\ Sent \in Nat
         /\ ClientEnd.e2e[1].bn + (PathLen + 1) = Read
<1>1. Shape /\ Control /\ ClientHears
  BY DEF Good
<1>2. ClientIs /\ ClientChain
  BY GoodFacts DEF Facts
<1>3. cookie = "used" /\ Known = PathLen
  BY E2EUsed
<1>4. PathLen \in Nat /\ PathLen >= 1 /\ Known > 0 /\ PathLen \in 1..Known
  BY <1>1, <1>3, KnownIs
<1>5. Len(ServiceEnd.hops) = 1 /\ fetching = "introduced"
  BY <1>3, ServiceSent
<1>6. Meet \in DOMAIN relays
  BY <1>1, <1>5, KnownIs
<1>7. intro = Meeting
  BY <1>1, <1>5 DEF Control
<1>8. PICK c, p, e : c = ClientEnd.e2e[1] /\ p = PathLen /\ e = Len(ClientEnd.e2e)
  OBVIOUS
<1>9. c.fk = C2H /\ c.bk = H2C /\ e = 1 /\ ClientLayers[p + 1] = c /\ Len(ClientLayers) = p + 1
  BY <1>2, <1>3, <1>8 DEF ClientIs, EndLayers, ClientLayers
<1>10. ChainOK(ChainOut) /\ Len(ChainOut) = p + 1 /\ Sent \in Nat /\ ChainOut[p + 1].k = C2H
  BY <1>2, <1>3, <1>4, <1>8, <1>9, ClientOutIs
<1>11. p + 1 \in 1..Len(ChainOut) /\ p \in Nat
  BY <1>4, <1>8, <1>10
<1>12. ChainOut[p + 1].o = Sent - c.fn /\ c.fn \in Nat /\ c.bn \in Nat
  BY <1>2, <1>4, <1>9, <1>11, ClientOutIs
<1>13. ChainOut[p + 1].o \in Nat
  BY <1>10, <1>11 DEF ChainOK
<1>14. c.bn + (p + 1) = Read
  <2>1. p + 1 \in 1..Len(ClientLayers) /\ ~(p + 1 <= PathLen)
    BY <1>8, <1>9, <1>11
  <2>2. c.bn + Starts(p + 1) = Read
    BY <1>1, <1>9, <2>1 DEF ClientHears, ClientHeard, Read
  <2>. QED
    BY <1>8, <2>1, <2>2 DEF Starts
<1>. QED
  BY <1>3, <1>4, <1>5, <1>6, <1>7, <1>8, <1>9, <1>10, <1>11, <1>12, <1>13, <1>14

\* What the client says end to end.
LEMMA ClientEndInStep ==
  ASSUME Good, ClientEnd.e2e # <<>>, NEW s, s = ServiceLayers[1].bn
  PROVE  InStep(C2H, ClientEnd.e2e[1].fn, s, Everywhere)
<1>1. Shape /\ ClientOut /\ ServiceBack /\ Bridged
  BY DEF Good
<1>2. ClientIs /\ ClientChain /\ MeetBackIs
  BY GoodFacts DEF Facts
<1>3. PICK p, P, o, N, c, b, W, V, k : /\ p = PathLen /\ P = Passed(PathLen) /\ o = ChainOut[PathLen + 1].o /\ N = Sent
                                       /\ c = ClientEnd.e2e[1].fn /\ b = MeetHop.bn
                                       /\ W = Outgoing(LegTo(PathLen)) /\ V = Incoming(Meet) /\ k = C2H
  OBVIOUS
<1>4. /\ p \in Nat /\ p \in 1..Known /\ p + 1 \in 1..Len(ChainOut) /\ ChainOut[p + 1].k = k /\ o = N - c /\ o \in Nat /\ N \in Nat
      /\ c \in Nat /\ Len(ServiceEnd.hops) = 1 /\ Meet \in DOMAIN relays
  BY <1>3, EndsMeet
<1>5. OnTheWay(k, W, P, N, o) /\ P <= N /\ RelayHop(p).fn \in Nat
  <2>1. p <= p + 1
    BY <1>4
  <2>. QED
    BY <1>1, <1>2, <1>3, <1>4, <2>1, ClientOutCounts
<1>6. P \in Nat
  <2>1. p \in 1..Len(ChainOut)
    BY <1>4
  <2>2. ChainOut[p].o \in Nat
    <3>1. Known > 0
      BY EndsMeet
    <3>2. ChainOK(ChainOut)
      BY <1>2, <3>1, ClientOutIs
    <3>. QED
      BY <2>1, <3>2 DEF ChainOK
  <2>3. P = RelayHop(p).fn + ChainOut[p].o
    BY <1>3 DEF Passed
  <2>. QED
    BY <1>5, <2>2, <2>3
<1>7. OnTheWay(k, V, s, b, 0) /\ s <= b /\ b \in Nat /\ s \in Nat
  <2>1. PICK n : n = 2
    OBVIOUS
  <2>2. n \in 1..Len(MeetBack) /\ MeetBack[n].k = k /\ MeetBack[n].o = 0
    <3>1. Len(MeetBack) = 2 /\ MeetBack[2].k = C2H /\ MeetBack[2].o = 0
      BY <1>2 DEF MeetBackIs
    <3>. QED
      BY <1>3, <2>1, <3>1
  <2>. QED
    BY <1>1, <1>2, <1>3, <1>4, <2>2, MeetBackCounts
<1>8. b = IF P > o THEN P - o ELSE 0
  BY <1>1, <1>3, <1>4 DEF Bridged
<1>9. W \subseteq Everywhere /\ V \subseteq Everywhere
  <2>1. LegTo(PathLen) \in Leg /\ Meet \in Leg
    BY LegIs
  <2>. QED
    BY <1>3, <2>1, WaysWithin
<1>10. ASSUME NEW d \in Everywhere, NEW t, Bears(d, k, t) PROVE d \in W \/ d \in V
  <2>1. OutSite(d) \/ MeetBackSite(d)
    BY <1>3, <1>10, Bearers, KeyLives
  <2>2. MeetBackSite(d) => d \in V
    BY <1>3 DEF MeetBackSite
  <2>3. OutSite(d) => d \in W
    <3>1. SUFFICES ASSUME NEW i \in 1..Known, d \in Outgoing(LegTo(i)) PROVE d \in W
      BY DEF OutSite
    <3>2. i \in Int /\ p \in Int /\ \A j \in 1..i : j \in 1..p
      <4>1. Known = p
        BY <1>3, EndsMeet
      <4>. QED
        BY <1>4, <4>1
    <3>. QED
      BY <1>3, <3>1, <3>2, OutgoingIs
  <2>. QED
    BY <2>1, <2>2, <2>3
<1>11. s <= c /\ \A t : t \in Counters(k, W) \/ t \in Counters(k, V) <=> t \in s..(c - 1)
  <2>1. \A t : t \in Counters(k, W) <=> (t \in Nat /\ P <= t + o /\ t + o < N)
    BY <1>5 DEF OnTheWay
  <2>2. \A t : t \in Counters(k, V) <=> (t \in Nat /\ s <= t + 0 /\ t + 0 < b)
    BY <1>7 DEF OnTheWay
  <2>3. ASSUME NEW t PROVE (t \in Nat /\ P <= t + o /\ t + o < N) \/ (t \in Nat /\ s <= t + 0 /\ t + 0 < b) <=> t \in s..(c - 1)
    <3>1. CASE P > o
      BY ONLY <3>1, <1>4, <1>5, <1>6, <1>7, <1>8
    <3>2. CASE ~(P > o)
      BY ONLY <3>2, <1>4, <1>5, <1>6, <1>7, <1>8
    <3>. QED
      BY <3>1, <3>2
  <2>4. s <= c
    BY ONLY <1>4, <1>5, <1>6, <1>7, <1>8
  <2>. QED
    BY <2>1, <2>2, <2>3, <2>4
<1>12. InStep(k, c, s, Everywhere)
  <2>1. c >= s
    BY <1>4, <1>7, <1>11
  <2>. QED
    BY ONLY <1>4, <1>7, <1>9, <1>10, <1>11, <2>1, InStepTwo
<1>. QED
  BY <1>3, <1>12

\* How many the service has sealed, the point has passed on and the client has read.
LEMMA ServiceTurns ==
  ASSUME Good, ClientEnd.e2e # <<>>, NEW f, f = MeetHop.fn, NEW s, s = ServiceLayers[1].fn, NEW c, c = ClientEnd.e2e[1].bn
  PROVE  /\ f \in Nat /\ f > 0 /\ s \in Nat /\ f <= s /\ c \in Nat /\ c + 1 <= f
         /\ Read = c + (PathLen + 1) /\ RelayHop(PathLen).bn = f + 1
         /\ IF ServiceEnd.e2e = <<>> THEN s = 1
            ELSE s = ServiceEnd.e2e[1].fn + 1 /\ ServiceEnd.e2e[1].fn \in Nat /\ ServiceLayers[2] = ServiceEnd.e2e[1]
<1>1. Shape /\ RelaysSaid /\ ServiceWayOut /\ Control
  BY DEF Good
<1>2. ServiceIs /\ ServiceChain
  BY GoodFacts DEF Facts
<1>3. /\ cookie = "used" /\ Known = PathLen /\ PathLen \in Nat /\ Known > 0 /\ Len(ServiceEnd.hops) = 1
      /\ c \in Nat /\ c + (PathLen + 1) = Read
  BY EndsMeet
<1>4. ServiceEnd.hops[1].fd = <<FK(Meet), Rendezvous1>>
  BY <1>3, ServiceSent
<1>5. f > 0 /\ f \in Nat /\ s \in Nat /\ f <= s
  BY <1>1, <1>3, MeetPassed DEF Control
<1>6. PICK p, b, bn, w : p = PathLen /\ b = BackTurn(ChainBack, Read, Relayed, Known) /\ bn = RelayHop(p).bn /\ w = Read
  OBVIOUS
<1>7. b = bn + (p - 1) /\ bn \in Nat /\ w \in Nat /\ w <= b
  BY <1>3, <1>6, BackAtLast
<1>8. bn + 1 = f + 2
  BY <1>1, <1>3, <1>6 DEF RelaysSaid
<1>9. c + 1 <= f /\ bn = f + 1
  <2>1. c + (p + 1) = w /\ p \in Nat
    BY <1>3, <1>6
  <2>. QED
    BY ONLY <1>3, <1>5, <1>7, <1>8, <2>1
<1>10. PICK ls : ls = ServiceLayers
  OBVIOUS
<1>11. ls[1].fd = <<FK(Meet), Rendezvous1>> /\ Len(ls) = 1 + Len(ServiceEnd.e2e) /\ (ServiceEnd.e2e = <<>> => Len(ServiceEnd.e2e) = 0)
       /\ (ServiceEnd.e2e # <<>> => Len(ServiceEnd.e2e) = 1 /\ ls[2] = ServiceEnd.e2e[1])
  <2>1. EndLayers(ServiceEnd, "service", 1, H2C, C2H) /\ Layers(ServiceEnd) = ls
    BY <1>2, <1>3, <1>10 DEF ServiceIs, ServiceLayers
  <2>2. 1 \in 1..1 /\ 1 + 1 = 2
    OBVIOUS
  <2>. QED
    BY <1>4, <2>1, <2>2 DEF EndLayers
<1>12. LayersOK(ls) /\ s = ls[1].fn
  BY <1>1, <1>10 DEF ServiceWayOut
<1>13. Len(ls[1].fd) = 2
  BY <1>11, TwoIs
<1>14. CASE ServiceEnd.e2e = <<>>
  <2>1. Len(ls) = 1 /\ 1 \in 1..Len(ls) /\ ~(1 < Len(ls))
    BY <1>11, <1>14
  <2>2. Len(ls[1].fd) = ls[1].fn + 1
    BY <1>12, <2>1 DEF LayersOK
  <2>3. s = 1
    <3>1. PICK y : y = Len(ls[1].fd)
      OBVIOUS
    <3>2. y = 2 /\ y = s + 1
      BY <1>12, <1>13, <2>2, <3>1
    <3>. QED
      BY ONLY <1>5, <3>2
  <2>. QED
    BY <1>3, <1>5, <1>6, <1>9, <1>14, <2>3
<1>15. CASE ServiceEnd.e2e # <<>>
  <2>1. Len(ls) = 2 /\ 1 \in 1..Len(ls) /\ 2 \in 1..Len(ls) /\ 1 < Len(ls) /\ 1 + 1 = 2 /\ ls[2] = ServiceEnd.e2e[1]
    <3>1. PICK n, e : n = Len(ls) /\ e = Len(ServiceEnd.e2e)
      OBVIOUS
    <3>2. n = 1 + e /\ e = 1 /\ ls[2] = ServiceEnd.e2e[1]
      BY <1>11, <1>15, <3>1
    <3>3. n = 2 /\ 1 \in 1..n /\ 2 \in 1..n /\ 1 < n /\ 1 + 1 = 2
      BY ONLY <3>2
    <3>. QED
      BY <3>1, <3>2, <3>3
  <2>2. Len(ls[1].fd) = ls[1].fn - ls[2].fn + 1
    BY <1>12, <2>1 DEF LayersOK
  <2>3. PICK t : t = ls[2].fn
    OBVIOUS
  <2>4. t \in Nat
    <3>1. IsHop(ls[2])
      BY <1>12, <2>1 DEF LayersOK
    <3>. QED
      BY <2>3, <3>1 DEF IsHop
  <2>5. 2 = s - t + 1
    BY <1>12, <1>13, <2>2, <2>3
  <2>6. s = t + 1
    BY ONLY <1>5, <2>4, <2>5
  <2>. QED
    BY <1>3, <1>5, <1>6, <1>9, <1>10, <1>15, <2>1, <2>3, <2>4, <2>6
<1>. QED
  BY <1>14, <1>15

\* What the service says end to end, before it has the layer.
LEMMA ServiceNotYet ==
  ASSUME Good, ClientEnd.e2e # <<>>, ServiceEnd.e2e = <<>>, NEW z, z = 0
  PROVE  ClientEnd.e2e[1].bn = z /\ InStep(H2C, z, z, Everywhere)
<1>1. PICK f, s, c : f = MeetHop.fn /\ s = ServiceLayers[1].fn /\ c = ClientEnd.e2e[1].bn
  OBVIOUS
<1>2. f <= s /\ f \in Nat /\ c \in Nat /\ c + 1 <= f /\ s = 1
  BY <1>1, ServiceTurns
<1>3. c = z
  BY ONLY <1>2, z = 0
<1>4. ~OutKey(H2C) /\ ~MeetBackKey(H2C)
  BY KeyLives
<1>5. ~BackKey(H2C) /\ ~MeetOutKey(H2C)
  BY KeysAre DEF BackKey, MeetOutKey
<1>6. \A d \in Everywhere : \A t : ~Bears(d, H2C, t)
  BY <1>4, <1>5, Bearers
<1>7. PICK k, W : k = H2C /\ W = Everywhere
  OBVIOUS
<1>8. W \subseteq Everywhere /\ \A d \in Everywhere : \A t : ~Bears(d, k, t)
  BY <1>6, <1>7
<1>9. InStep(k, z, z, W)
  BY ONLY <1>8, z = 0, InStepNone
<1>. QED
  BY <1>1, <1>3, <1>7, <1>9

\* And after.
LEMMA ServiceEndInStep ==
  ASSUME Good, ClientEnd.e2e # <<>>, ServiceEnd.e2e # <<>>
  PROVE  InStep(H2C, ServiceEnd.e2e[1].fn, ClientEnd.e2e[1].bn, Everywhere)
<1>1. Shape /\ ServiceWayOut /\ ClientBack
  BY DEF Good
<1>2. ClientIs /\ ServiceIs /\ ServiceChain /\ BackIs
  BY GoodFacts DEF Facts
<1>3. PICK p, f, s, c, v, W, V, k : /\ p = PathLen /\ f = MeetHop.fn /\ s = ServiceEnd.e2e[1].fn /\ c = ClientEnd.e2e[1].bn
                                    /\ v = ServiceLayers[1].fn
                                    /\ W = Incoming(LegTo(PathLen)) /\ V = Outgoing(Meet) /\ k = H2C
  OBVIOUS
<1>4. /\ f \in Nat /\ f > 0 /\ v \in Nat /\ f <= v /\ c \in Nat /\ c + 1 <= f /\ Read = c + (p + 1) /\ RelayHop(p).bn = f + 1
      /\ v = s + 1 /\ s \in Nat /\ ServiceLayers[2] = ServiceEnd.e2e[1]
  BY <1>3, ServiceTurns
<1>5. p \in Nat /\ p >= 1 /\ p \in 1..Known /\ Known = p /\ Len(ServiceEnd.hops) = 1
  BY <1>3, EndsMeet
<1>6. OnTheWay(k, V, f, v, 1)
  <2>1. PICK n : n = 2
    OBVIOUS
  <2>2. ServiceOut[2].k = H2C /\ ServiceOut[2].o = ServiceLayers[1].fn - ServiceLayers[2].fn /\ Len(ServiceOut) = 2
    <3>1. Len(ServiceEnd.e2e) = 1
      BY <1>2 DEF ServiceIs, EndLayers
    <3>2. Len(ServiceOut) = 1 + Len(ServiceEnd.e2e) /\ ServiceOut[2].k = H2C
          /\ \A i \in 1..Len(ServiceOut) : ServiceOut[i].o = ServiceLayers[1].fn - ServiceLayers[i].fn
      BY <1>2, <1>5, ServiceOutIs
    <3>3. Len(ServiceOut) = 2 /\ 2 \in 1..Len(ServiceOut)
      BY <3>1, <3>2
    <3>. QED
      BY <3>2, <3>3
  <2>3. ServiceOut[2].o = v - s
    BY <1>3, <1>4, <2>2
  <2>4. v - s = 1
    BY ONLY <1>4
  <2>5. n \in 1..Len(ServiceOut) /\ ServiceOut[n].k = k /\ ServiceOut[n].o = 1
    BY <1>3, <2>1, <2>2, <2>3, <2>4
  <2>. QED
    BY <1>1, <1>2, <1>3, <1>5, <2>5, ServiceOutCounts
<1>7. PICK a, b : a = Read /\ b = (f + 1) + (p - 1)
  OBVIOUS
<1>8. OnTheWay(k, W, a, b, p + 1)
  <2>1. PICK n : n = p + 1
    OBVIOUS
  <2>2. ChainBack[p + 1].k = H2C /\ ChainBack[p + 1].o = p + 1 /\ ChainBack[p].o = p - 1 /\ Len(ChainBack) = p + 1
    BY <1>2, <1>3, <1>5 DEF BackIs
  <2>3. n \in 1..Len(ChainBack) /\ p <= n /\ ChainBack[n].k = k /\ ChainBack[n].o = p + 1
    BY <1>3, <1>5, <2>1, <2>2
  <2>4. OnTheWay(ChainBack[n].k, Incoming(LegTo(p)), Read, RelayHop(p).bn + ChainBack[p].o, ChainBack[n].o)
    BY <1>1, <1>2, <1>5, <2>3, ClientBackCounts
  <2>. QED
    BY <1>3, <1>4, <1>7, <2>2, <2>3, <2>4
<1>9. W \subseteq Everywhere /\ V \subseteq Everywhere
  <2>1. LegTo(PathLen) \in Leg /\ Meet \in Leg
    BY LegIs
  <2>. QED
    BY <1>3, <2>1, WaysWithin
<1>10. ASSUME NEW d \in Everywhere, NEW t, Bears(d, k, t) PROVE d \in W \/ d \in V
  <2>1. BackSite(d) \/ MeetOutSite(d)
    BY <1>3, <1>10, Bearers, KeyLives
  <2>2. MeetOutSite(d) => d \in V
    BY <1>3 DEF MeetOutSite
  <2>3. BackSite(d) => d \in W
    <3>1. SUFFICES ASSUME NEW i \in 1..Known, d \in Incoming(LegTo(i)) PROVE d \in W
      BY DEF BackSite
    <3>2. i \in 1..PathLen /\ p \in 1..PathLen /\ (\A j \in 1..i : j \in 1..p) /\ (i = PathLen => p = PathLen)
      BY <1>3, <1>5
    <3>. QED
      BY <1>3, <3>1, <3>2, IncomingIs
  <2>. QED
    BY <2>1, <2>2, <2>3
<1>11. c <= s /\ \A t : t \in Counters(k, W) \/ t \in Counters(k, V) <=> t \in c..(s - 1)
  <2>1. \A t : t \in Counters(k, W) <=> (t \in Nat /\ a <= t + (p + 1) /\ t + (p + 1) < b)
    BY <1>8 DEF OnTheWay
  <2>2. \A t : t \in Counters(k, V) <=> (t \in Nat /\ f <= t + 1 /\ t + 1 < v)
    BY <1>6 DEF OnTheWay
  <2>3. a = c + (p + 1) /\ b = (f + 1) + (p - 1)
    BY <1>4, <1>7
  <2>4. ASSUME NEW t
        PROVE  (t \in Nat /\ a <= t + (p + 1) /\ t + (p + 1) < b) \/ (t \in Nat /\ f <= t + 1 /\ t + 1 < v) <=> t \in c..(s - 1)
    BY ONLY <1>4, <1>5, <2>3
  <2>5. c <= s
    BY ONLY <1>4
  <2>. QED
    BY <2>1, <2>2, <2>4, <2>5
<1>12. InStep(k, s, c, Everywhere)
  <2>1. s >= c
    BY <1>4, <1>11
  <2>. QED
    BY ONLY <1>4, <1>9, <1>10, <1>11, <2>1, InStepTwo
<1>. QED
  BY <1>3, <1>12

\* The two copies of the end-to-end layer.
EndKeys(c, s) == c.fk = s.bk /\ c.bk = s.fk
EndPair(c, s) == EndKeys(c, s) /\ InStep(c.fk, c.fn, s.bn, Everywhere) /\ InStep(s.fk, s.fn, c.bn, Everywhere)
ServiceHas == IF ServiceEnd.e2e # <<>> THEN ServiceEnd.e2e[1] ELSE from_e2e_keys(E2EKeys(intro, ServiceKey), FALSE)
LEMMA EndsPair == (ClientEnd.e2e # <<>> => EndPair(ClientEnd.e2e[1], ServiceHas)) => EndsInStep
BY DEF EndsInStep, EndPair, EndKeys, ServiceHas, ClientEnd, ServiceEnd

LEMMA GoodEnds == Good /\ "keys late" \notin excuses => EndsInStep /\ ~lost
<1>. SUFFICES ASSUME Good, "keys late" \notin excuses PROVE EndsInStep /\ ~lost
  OBVIOUS
<1>1. Shape /\ Timely
  BY DEF Good
<1>2. ~lost
  BY <1>1 DEF Timely
<1>3. ASSUME ClientEnd.e2e # <<>> PROVE EndPair(ClientEnd.e2e[1], ServiceHas)
  <2>1. PICK c, s : c = ClientEnd.e2e[1] /\ s = ServiceHas
    OBVIOUS
  <2>2. c.fk = C2H /\ c.bk = H2C /\ intro = Meeting /\ Len(ServiceEnd.hops) = 1
    BY <1>3, <2>1, EndsMeet
  <2>3. PICK r : r = ServiceLayers[1].bn
    OBVIOUS
  <2>4. InStep(C2H, c.fn, r, Everywhere)
    BY <1>3, <2>1, <2>3, ClientEndInStep
  <2>5. CASE ServiceEnd.e2e # <<>>
    <3>1. s = ServiceEnd.e2e[1]
      BY <2>1, <2>5 DEF ServiceHas
    <3>2. s.fk = H2C /\ s.bk = C2H
      <4>1. ServiceIs
        BY GoodFacts DEF Facts
      <4>. QED
        BY <2>5, <3>1, <4>1 DEF ServiceIs, EndLayers
    <3>3. s.bn = r
      BY <1>1, <2>2, <2>3, <2>5, <3>1 DEF Timely
    <3>4. InStep(H2C, s.fn, c.bn, Everywhere)
      BY <1>3, <2>1, <2>5, <3>1, ServiceEndInStep
    <3>. QED
      BY <2>1, <2>2, <2>4, <3>2, <3>3, <3>4 DEF EndPair, EndKeys
  <2>6. CASE ServiceEnd.e2e = <<>>
    <3>1. s = HopState(H2C, C2H)
      BY <2>1, <2>2, <2>6 DEF ServiceHas, from_e2e_keys, E2EKeys, H2C, C2H
    <3>2. s.fk = H2C /\ s.bk = C2H /\ s.fn = 0 /\ s.bn = 0
      BY <3>1 DEF HopState
    <3>3. r = 0
      BY <1>1, <2>2, <2>3, <2>6 DEF Timely
    <3>4. PICK z : z = 0
      OBVIOUS
    <3>5. c.bn = z /\ InStep(H2C, z, z, Everywhere)
      BY <1>3, <2>1, <2>6, <3>4, ServiceNotYet
    <3>. QED
      BY <2>1, <2>2, <2>4, <3>2, <3>3, <3>4, <3>5 DEF EndPair, EndKeys
  <2>. QED
    BY <2>5, <2>6
<1>4. EndsInStep
  BY <1>3, EndsPair
<1>. QED
  BY <1>2, <1>4

LEMMA GoodInStep == OnionInv => LayersInStep
<1>. SUFFICES ASSUME OnionInv PROVE LayersInStep
  OBVIOUS
<1>1. "overtaken" \notin excuses => HopsInStep
  BY GoodHops DEF OnionInv
<1>2. excuses = {} => "keys late" \notin excuses /\ "overtaken" \notin excuses
  OBVIOUS
<1>3. excuses = {} => EndsInStep /\ ~lost
  BY <1>2, GoodEnds DEF OnionInv
<1>. QED
  BY <1>1, <1>3 DEF LayersInStep

\* However cells, extends, padding and the bridge interleave, unless two tasks queue in
\* an order they did not encrypt in, the two copies of every layer are apart by exactly
\* the cells on their way; and every cell is recognised where it ends unless, also, the
\* service had not yet installed the keys it had announced.
THEOREM LayersStayInStep == OnionSpec => []LayersInStep
<1>1. OnionInv => LayersInStep
  BY GoodInStep
<1>. QED
  BY <1>1, OnionInvHolds, PTL
=============================================================================

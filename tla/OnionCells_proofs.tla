------------------------- MODULE OnionCells_proofs --------------------------
(***************************************************************************)
(* The cells of an anonymous service and its client, and their layers: how *)
(* far each hop has come, the cells on the way between them, and that each *)
(* relay and each end keeps them so whatever it takes next, for any number *)
(* of relays.  The invariant is Good.                                      *)
(***************************************************************************)
EXTENDS OnionLayers, SeqLemmas, SequenceTheorems

-----------------------------------------------------------------------------
(* Sequences of whatever they hold, and what stands first in a log. *)

IsSeq(q) == q \in Seq({q[i] : i \in DOMAIN q})
Upto(s, n) == [i \in 1..n |-> s[i]]

LEMMA IsSeqShape ==
  ASSUME NEW q, IsSeq(q)
  PROVE  Len(q) \in Nat /\ DOMAIN q = 1..Len(q) /\ q = [i \in 1..Len(q) |-> q[i]]
BY DEF IsSeq

LEMMA SeqIs == ASSUME NEW T, NEW q \in Seq(T) PROVE IsSeq(q)
<1>1. Len(q) \in Nat /\ DOMAIN q = 1..Len(q) /\ q = [i \in 1..Len(q) |-> q[i]]
  OBVIOUS
<1>. DEFINE U == {q[i] : i \in DOMAIN q}
<1>2. q \in [1..Len(q) -> U]
  BY <1>1
<1>3. q \in Seq(U)
  BY <1>1, <1>2
<1>. QED
  BY <1>3 DEF IsSeq

LEMMA FunIs ==
  ASSUME NEW m \in Nat, NEW q, q = [i \in 1..m |-> q[i]]
  PROVE  IsSeq(q) /\ Len(q) = m
<1>. DEFINE U == {q[i] : i \in 1..m}
<1>1. q \in [1..m -> U]
  OBVIOUS
<1>2. q \in Seq(U)
  BY <1>1
<1>3. DOMAIN q = 1..m
  OBVIOUS
<1>4. Len(q) = m
  BY <1>2, <1>3
<1>. QED
  BY <1>2, <1>4, SeqIs

LEMMA EmptyIs == IsSeq(<<>>) /\ Len(<<>>) = 0
<1>1. <<>> \in Seq({})
  OBVIOUS
<1>. QED
  BY <1>1, SeqIs

LEMMA OneIs == ASSUME NEW c PROVE IsSeq(<<c>>) /\ Len(<<c>>) = 1 /\ <<c>>[1] = c /\ <<c>> # <<>>
<1>1. <<c>> \in Seq({c})
  OBVIOUS
<1>. QED
  BY <1>1, SeqIs

LEMMA TwoIs ==
  ASSUME NEW c, NEW d
  PROVE  IsSeq(<<c, d>>) /\ Len(<<c, d>>) = 2 /\ <<c, d>>[1] = c /\ <<c, d>>[2] = d
<1>1. <<c, d>> \in Seq({c, d})
  OBVIOUS
<1>. QED
  BY <1>1, SeqIs

LEMMA EmptyLen == ASSUME NEW q, IsSeq(q) PROVE q = <<>> <=> Len(q) = 0
<1>1. q = [i \in 1..Len(q) |-> q[i]] /\ Len(q) \in Nat
  BY IsSeqShape
<1>2. CASE Len(q) = 0
  <2>1. q \in Seq({q[i] : i \in DOMAIN q})
    BY DEF IsSeq
  <2>. QED
    BY <2>1, <1>2
<1>3. CASE Len(q) # 0
  BY <1>3
<1>. QED
  BY <1>2, <1>3

LEMMA SeqEq ==
  ASSUME NEW a, NEW b, IsSeq(a), IsSeq(b), Len(a) = Len(b), \A i \in 1..Len(a) : a[i] = b[i]
  PROVE  a = b
<1>1. a = [i \in 1..Len(a) |-> a[i]] /\ b = [i \in 1..Len(b) |-> b[i]]
  BY IsSeqShape
<1>. QED
  BY <1>1

LEMMA AppendIs ==
  ASSUME NEW q, IsSeq(q), NEW c
  PROVE  /\ IsSeq(Append(q, c)) /\ Len(Append(q, c)) = Len(q) + 1
         /\ Append(q, c)[Len(q) + 1] = c
         /\ \A i \in 1..Len(q) : Append(q, c)[i] = q[i]
<1>. DEFINE U == {q[i] : i \in DOMAIN q} \union {c}
<1>1. q \in Seq(U)
  <2>1. Len(q) \in Nat /\ q \in [1..Len(q) -> U]
    BY IsSeqShape
  <2>. QED
    BY <2>1
<1>2. c \in U
  OBVIOUS
<1>. HIDE DEF U
<1>3. /\ Append(q, c) \in Seq(U) /\ Len(Append(q, c)) = Len(q) + 1
      /\ \A i \in 1..Len(q) : Append(q, c)[i] = q[i]
      /\ Append(q, c)[Len(q) + 1] = c
  BY <1>1, <1>2, AppendProperties
<1>. QED
  BY <1>3, SeqIs

LEMMA TailIs ==
  ASSUME NEW q, IsSeq(q), q # <<>>
  PROVE  /\ Len(q) \in Nat /\ Len(q) >= 1 /\ Head(q) = q[1]
         /\ IsSeq(Tail(q)) /\ Len(Tail(q)) = Len(q) - 1
         /\ \A i \in 1..(Len(q) - 1) : Tail(q)[i] = q[i + 1]
<1>. DEFINE U == {q[i] : i \in DOMAIN q}
<1>1. q \in Seq(U)
  BY DEF IsSeq
<1>. HIDE DEF U
<1>2. /\ Tail(q) \in Seq(U) /\ Len(Tail(q)) = Len(q) - 1
      /\ \A i \in 1..Len(Tail(q)) : Tail(q)[i] = q[i + 1]
  BY <1>1, HeadTailProperties
<1>3. Len(q) \in Nat /\ Len(q) >= 1 /\ Head(q) = q[1]
  BY <1>1
<1>4. IsSeq(Tail(q))
  BY <1>2, SeqIs
<1>. QED
  BY <1>2, <1>3, <1>4

LEMMA ConcatIs ==
  ASSUME NEW p, NEW q, IsSeq(p), IsSeq(q)
  PROVE  /\ IsSeq(p \o q) /\ Len(p \o q) = Len(p) + Len(q)
         /\ \A i \in 1..Len(p) : (p \o q)[i] = p[i]
         /\ \A i \in 1..Len(q) : (p \o q)[Len(p) + i] = q[i]
<1>. DEFINE U == {p[i] : i \in DOMAIN p} \union {q[i] : i \in DOMAIN q}
<1>1. p \in Seq(U) /\ q \in Seq(U)
  <2>1. Len(p) \in Nat /\ p \in [1..Len(p) -> U]
    BY IsSeqShape
  <2>2. Len(q) \in Nat /\ q \in [1..Len(q) -> U]
    BY IsSeqShape
  <2>. QED
    BY <2>1, <2>2
<1>. HIDE DEF U
<1>2. p \o q \in Seq(U) /\ Len(p \o q) = Len(p) + Len(q)
  BY <1>1, ConcatProperties
<1>3. \A i \in 1..(Len(p) + Len(q)) : (p \o q)[i] = IF i <= Len(p) THEN p[i] ELSE q[i - Len(p)]
  BY <1>1, ConcatProperties
<1>4. Len(p) \in Nat /\ Len(q) \in Nat
  BY <1>1
<1>5. IsSeq(p \o q)
  BY <1>2, SeqIs
<1>6. \A i \in 1..Len(p) : (p \o q)[i] = p[i]
  BY <1>3, <1>4
<1>7. ASSUME NEW i \in 1..Len(q) PROVE (p \o q)[Len(p) + i] = q[i]
  <2>1. Len(p) + i \in 1..(Len(p) + Len(q)) /\ ~(Len(p) + i <= Len(p)) /\ Len(p) + i - Len(p) = i
    BY <1>4
  <2>. QED
    BY <2>1, <1>3
<1>. QED
  BY <1>2, <1>5, <1>6, <1>7

LEMMA UptoIs ==
  ASSUME NEW s, NEW m \in Nat
  PROVE  IsSeq(Upto(s, m)) /\ Len(Upto(s, m)) = m /\ \A i \in 1..m : Upto(s, m)[i] = s[i]
<1>1. Upto(s, m) = [i \in 1..m |-> Upto(s, m)[i]] /\ \A i \in 1..m : Upto(s, m)[i] = s[i]
  BY DEF Upto
<1>. QED
  BY <1>1, FunIs

LEMMA UptoAll == ASSUME NEW s, IsSeq(s) PROVE Upto(s, Len(s)) = s
<1>1. s = [i \in 1..Len(s) |-> s[i]]
  BY IsSeqShape
<1>. QED
  BY <1>1, Zenon DEF Upto

LEMMA UptoNext ==
  ASSUME NEW s, NEW m \in Nat
  PROVE  Append(Upto(s, m), s[m + 1]) = Upto(s, m + 1)
<1>1. /\ IsSeq(Upto(s, m)) /\ Len(Upto(s, m)) = m
      /\ IsSeq(Upto(s, m + 1)) /\ Len(Upto(s, m + 1)) = m + 1
      /\ \A i \in 1..m : Upto(s, m)[i] = s[i]
      /\ \A i \in 1..(m + 1) : Upto(s, m + 1)[i] = s[i]
  BY UptoIs
<1>. DEFINE a == Append(Upto(s, m), s[m + 1])
<1>2. /\ IsSeq(a) /\ Len(a) = m + 1 /\ a[m + 1] = s[m + 1]
      /\ \A i \in 1..m : a[i] = Upto(s, m)[i]
  BY <1>1, AppendIs
<1>. HIDE DEF a
<1>3. \A i \in 1..(m + 1) : a[i] = Upto(s, m + 1)[i]
  BY <1>1, <1>2
<1>. QED
  BY <1>1, <1>2, <1>3, SeqEq DEF a

LEMMA UptoSame ==
  ASSUME NEW s, NEW t, NEW m \in Nat, \A i \in 1..m : s[i] = t[i]
  PROVE  Upto(s, m) = Upto(t, m)
BY DEF Upto

-----------------------------------------------------------------------------
(* Lines of cells. *)

\* A chain says who can open the cells of one way, from the nearest inwards: the key
\* of each, the turn of the way its counter starts from, and the log of what was said
\* to it.  A cell is then known by its turn, the one it is for, and the first of the
\* chain whose layer it still wears.
Coats(G, j, h, T) == {<<G[i].k, T - G[i].o>> : i \in j..h}
CellOf(G, j, h, T) ==
  [kind |-> "relay", cell |-> G[h].d[T - G[h].o + 2],
   digest |-> Upto(G[h].d, T - G[h].o + 2), layers |-> Coats(G, j, h, T)]
EndsAt(G, h, T) ==
  /\ G[h].o <= T /\ T - G[h].o + 2 <= Len(G[h].d)
  /\ h < Len(G) => T < G[h + 1].o
CellOK(G, c, j, T) == \E h \in 1..Len(G) : j <= h /\ EndsAt(G, h, T) /\ c = CellOf(G, j, h, T)

ChainOK(G) ==
  /\ IsSeq(G)
  /\ \A i \in 1..Len(G) : G[i].o \in Nat /\ IsSeq(G[i].d) /\ Len(G[i].d) >= 1
  /\ \A a, b \in 1..Len(G) : a <= b => G[a].o <= G[b].o
  /\ \A a, b \in 1..Len(G) : a # b => G[a].k # G[b].k

\* A queue that holds the cells of the turns a to b - 1, in their order.
Run(G, q, j, a, b) ==
  /\ IsSeq(q) /\ Len(q) = IF a < b THEN b - a ELSE 0
  /\ \A p \in 1..Len(q) : CellOK(G, q[p], j, a + p - 1)

\* A chain that has grown since turn b.
Grows(G, H, b) ==
  /\ Len(G) <= Len(H)
  /\ \A i \in 1..Len(G) :
       /\ H[i].k = G[i].k /\ H[i].o = G[i].o /\ Len(G[i].d) <= Len(H[i].d)
       /\ \A q \in 1..Len(G[i].d) : H[i].d[q] = G[i].d[q]
  /\ Len(G) < Len(H) => b <= H[Len(G) + 1].o

LEMMA CellKeeps ==
  ASSUME NEW G, NEW H, NEW b \in Int, NEW c, NEW j \in Nat \ {0}, NEW T \in Int,
         ChainOK(G), ChainOK(H), Grows(G, H, b), CellOK(G, c, j, T), T < b
  PROVE  CellOK(H, c, j, T)
<1>1. PICK h \in 1..Len(G) : j <= h /\ EndsAt(G, h, T) /\ c = CellOf(G, j, h, T)
  BY DEF CellOK
<1>2. Len(G) \in Nat /\ Len(H) \in Nat /\ Len(G) <= Len(H) /\ h \in 1..Len(H)
  BY <1>1, IsSeqShape DEF ChainOK, Grows
<1>3. /\ H[h].k = G[h].k /\ H[h].o = G[h].o /\ Len(G[h].d) <= Len(H[h].d)
      /\ \A q \in 1..Len(G[h].d) : H[h].d[q] = G[h].d[q]
  BY DEF Grows
<1>4. G[h].o \in Nat /\ Len(G[h].d) \in Nat /\ Len(H[h].d) \in Nat
  BY <1>2, IsSeqShape DEF ChainOK
<1>5. G[h].o <= T /\ T - G[h].o + 2 <= Len(G[h].d) /\ (h < Len(G) => T < G[h + 1].o)
  BY <1>1 DEF EndsAt
<1>. DEFINE m == T - G[h].o + 2
<1>6. m \in Nat /\ m \in 1..Len(G[h].d)
  BY <1>4, <1>5
<1>7. EndsAt(H, h, T)
  <2>1. h < Len(G) => h + 1 \in 1..Len(G) /\ H[h + 1].o = G[h + 1].o
    BY <1>2 DEF Grows
  <2>2. ~(h < Len(G)) /\ h < Len(H) => T < H[h + 1].o
    <3>1. SUFFICES ASSUME ~(h < Len(G)), h < Len(H) PROVE T < H[h + 1].o
      OBVIOUS
    <3>2. h = Len(G) /\ Len(G) < Len(H) /\ Len(G) + 1 \in 1..Len(H)
      BY <1>2, <3>1
    <3>3. b <= H[Len(G) + 1].o /\ H[Len(G) + 1].o \in Nat
      BY <3>2 DEF Grows, ChainOK
    <3>. QED
      BY <3>2, <3>3
  <2>3. h < Len(H) => T < H[h + 1].o
    BY <1>5, <2>1, <2>2
  <2>4. H[h].o <= T
    BY <1>3, <1>5
  <2>5. T - H[h].o + 2 <= Len(H[h].d)
    <3>1. m <= Len(G[h].d)
      BY <1>5
    <3>2. Len(G[h].d) <= Len(H[h].d) /\ m \in Nat
      BY <1>3, <1>6
    <3>3. m <= Len(H[h].d)
      <4>. HIDE DEF m
      <4>. QED
        BY <3>1, <3>2, <1>4
    <3>. QED
      BY <3>3, <1>3
  <2>. QED
    BY <2>3, <2>4, <2>5 DEF EndsAt
<1>8. CellOf(H, j, h, T) = CellOf(G, j, h, T)
  <2>1. H[h].d[m] = G[h].d[m]
    BY <1>3, <1>6
  <2>2. Upto(H[h].d, m) = Upto(G[h].d, m)
    <3>1. \A i \in 1..m : H[h].d[i] = G[h].d[i]
      BY <1>3, <1>4, <1>6
    <3>. HIDE DEF m
    <3>. QED
      BY <3>1, <1>6, UptoSame
  <2>3. Coats(H, j, h, T) = Coats(G, j, h, T)
    <3>1. ASSUME NEW i \in j..h PROVE H[i].k = G[i].k /\ H[i].o = G[i].o
      <4>1. i \in 1..Len(G)
        BY <1>2
      <4>. QED
        BY <4>1 DEF Grows
    <3>. QED
      BY <3>1 DEF Coats
  <2>. QED
    BY <1>3, <2>1, <2>2, <2>3 DEF CellOf
<1>. QED
  BY <1>1, <1>2, <1>7, <1>8 DEF CellOK

LEMMA RunKeeps ==
  ASSUME NEW G, NEW H, NEW b \in Int, NEW a \in Int, NEW q, NEW j \in Nat \ {0},
         ChainOK(G), ChainOK(H), Grows(G, H, b), Run(G, q, j, a, b)
  PROVE  Run(H, q, j, a, b)
<1>1. IsSeq(q) /\ Len(q) = IF a < b THEN b - a ELSE 0
  BY DEF Run
<1>2. ASSUME NEW p \in 1..Len(q) PROVE CellOK(H, q[p], j, a + p - 1)
  <2>1. CellOK(G, q[p], j, a + p - 1)
    BY DEF Run
  <2>2. a + p - 1 \in Int /\ a + p - 1 < b
    BY <1>1
  <2>. QED
    BY <2>1, <2>2, CellKeeps
<1>. QED
  BY <1>1, <1>2 DEF Run

LEMMA RunPush ==
  ASSUME NEW G, NEW a \in Int, NEW b \in Int, NEW q, NEW j, NEW c,
         Run(G, q, j, a, b), a <= b, CellOK(G, c, j, b)
  PROVE  Run(G, Append(q, c), j, a, b + 1)
<1>1. IsSeq(q) /\ Len(q) = b - a
  BY DEF Run
<1>. DEFINE s == Append(q, c)
<1>2. IsSeq(s) /\ Len(s) = Len(q) + 1 /\ s[Len(q) + 1] = c /\ \A i \in 1..Len(q) : s[i] = q[i]
  BY <1>1, AppendIs
<1>. HIDE DEF s
<1>3. ASSUME NEW p \in 1..Len(s) PROVE CellOK(G, s[p], j, a + p - 1)
  <2>1. CASE p \in 1..Len(q)
    BY <2>1, <1>2 DEF Run
  <2>2. CASE p \notin 1..Len(q)
    <3>1. p = Len(q) + 1 /\ a + p - 1 = b
      BY <2>2, <1>1, <1>2
    <3>. QED
      BY <3>1, <1>2
  <2>. QED
    BY <2>1, <2>2
<1>4. Len(s) = IF a < b + 1 THEN (b + 1) - a ELSE 0
  BY <1>1, <1>2
<1>5. Run(G, s, j, a, b + 1)
  BY <1>2, <1>3, <1>4 DEF Run
<1>. QED
  BY <1>5 DEF s

LEMMA RunPop ==
  ASSUME NEW G, NEW a \in Int, NEW b \in Int, NEW q, NEW j, Run(G, q, j, a, b), q # <<>>
  PROVE  a < b /\ CellOK(G, Head(q), j, a) /\ Run(G, Tail(q), j, a + 1, b)
<1>1. /\ IsSeq(q) /\ Len(q) = IF a < b THEN b - a ELSE 0
      /\ \A p \in 1..Len(q) : CellOK(G, q[p], j, a + p - 1)
  BY DEF Run
<1>. DEFINE s == Tail(q)
<1>2. /\ Len(q) \in Nat /\ Len(q) >= 1 /\ Head(q) = q[1] /\ IsSeq(s) /\ Len(s) = Len(q) - 1
      /\ \A i \in 1..(Len(q) - 1) : s[i] = q[i + 1]
  BY <1>1, TailIs
<1>. HIDE DEF s
<1>3. a < b /\ Len(q) = b - a /\ Len(s) = IF a + 1 < b THEN b - (a + 1) ELSE 0
  BY <1>1, <1>2
<1>4. CellOK(G, Head(q), j, a)
  <2>1. 1 \in 1..Len(q) /\ a + 1 - 1 = a
    BY <1>2
  <2>. QED
    BY <2>1, <1>1, <1>2
<1>5. ASSUME NEW p \in 1..Len(s) PROVE CellOK(G, s[p], j, (a + 1) + p - 1)
  <2>1. p + 1 \in 1..Len(q) /\ p \in 1..(Len(q) - 1) /\ a + (p + 1) - 1 = (a + 1) + p - 1
    BY <1>2
  <2>. QED
    BY <2>1, <1>1, <1>2
<1>6. Run(G, s, j, a + 1, b)
  BY <1>2, <1>3, <1>5 DEF Run
<1>. QED
  BY <1>3, <1>4, <1>6 DEF s

LEMMA RunNone ==
  ASSUME NEW G, NEW a \in Int, NEW b \in Int, NEW j, b <= a
  PROVE  Run(G, <<>>, j, a, b)
BY EmptyIs DEF Run

LEMMA RunEmpty ==
  ASSUME NEW G, NEW a \in Int, NEW b \in Int, NEW j, NEW q, Run(G, q, j, a, b), b <= a
  PROVE  q = <<>>
BY EmptyLen DEF Run

\* What a queue holds: a cell of each turn, and no other.
LEMMA RunHolds ==
  ASSUME NEW G, NEW a \in Int, NEW b \in Int, NEW j, NEW q, Run(G, q, j, a, b)
  PROVE  /\ \A c \in ToSet(q) : \E T \in a..(b - 1) : CellOK(G, c, j, T)
         /\ \A T \in a..(b - 1) : \E c \in ToSet(q) : CellOK(G, c, j, T)
<1>1. /\ DOMAIN q = 1..Len(q) /\ Len(q) = IF a < b THEN b - a ELSE 0
      /\ \A p \in 1..Len(q) : CellOK(G, q[p], j, a + p - 1)
  BY IsSeqShape DEF Run
<1>2. ToSet(q) = {q[p] : p \in 1..Len(q)}
  BY <1>1 DEF ToSet
<1>3. ASSUME NEW c \in ToSet(q) PROVE \E T \in a..(b - 1) : CellOK(G, c, j, T)
  <2>1. PICK p \in 1..Len(q) : c = q[p]
    BY <1>2
  <2>2. a + p - 1 \in a..(b - 1)
    BY <1>1
  <2>. QED
    BY <2>1, <2>2, <1>1
<1>4. ASSUME NEW T \in a..(b - 1) PROVE \E c \in ToSet(q) : CellOK(G, c, j, T)
  <2>1. T - a + 1 \in 1..Len(q) /\ a + (T - a + 1) - 1 = T
    BY <1>1
  <2>2. q[T - a + 1] \in ToSet(q)
    BY <2>1, <1>2
  <2>. QED
    BY <2>1, <2>2, <1>1
<1>. QED
  BY <1>3, <1>4

-----------------------------------------------------------------------------
(* Putting a layer on and taking it off. *)

Coat(G, i, T) == {<<G[i].k, T - G[i].o>>}

LEMMA CoatsApart ==
  ASSUME NEW G, NEW T, NEW j \in 1..Len(G), NEW h \in 1..Len(G), j <= h, ChainOK(G)
  PROVE  /\ Coats(G, j, h, T) \ Coat(G, j, T) = Coats(G, j + 1, h, T)
         /\ Coat(G, j, T) \ Coats(G, j, h, T) = {}
         /\ Coats(G, j + 1, h, T) \ Coat(G, j, T) = Coats(G, j + 1, h, T)
         /\ Coat(G, j, T) \ Coats(G, j + 1, h, T) = Coat(G, j, T)
         /\ Coats(G, j + 1, h, T) \union Coat(G, j, T) = Coats(G, j, h, T)
<1>. DEFINE x(i) == <<G[i].k, T - G[i].o>>
<1>0. Len(G) \in Nat
  BY IsSeqShape DEF ChainOK
<1>1. ASSUME NEW i \in (j + 1)..h PROVE x(i) # x(j)
  <2>1. i \in 1..Len(G) /\ i # j
    BY <1>0
  <2>2. G[i].k # G[j].k
    BY <2>1 DEF ChainOK
  <2>. QED
    BY <2>2
<1>2. j \in j..h /\ (\A i \in j..h : i = j \/ i \in (j + 1)..h) /\ (\A i \in (j + 1)..h : i \in j..h)
  BY <1>0
<1>3. Coats(G, j, h, T) = {x(i) : i \in j..h} /\ Coats(G, j + 1, h, T) = {x(i) : i \in (j + 1)..h}
  BY DEF Coats
<1>4. Coat(G, j, T) = {x(j)}
  BY DEF Coat
<1>. HIDE DEF x
<1>5. x(j) \in Coats(G, j, h, T) /\ x(j) \notin Coats(G, j + 1, h, T)
  BY <1>1, <1>2, <1>3
<1>6. Coats(G, j + 1, h, T) \union {x(j)} = Coats(G, j, h, T)
  BY <1>2, <1>3
<1>. QED
  BY <1>4, <1>5, <1>6

LEMMA CoatsNone == ASSUME NEW G, NEW T, NEW h \in Nat PROVE Coats(G, h + 1, h, T) = {}
BY DEF Coats
LEMMA CoatsSome ==
  ASSUME NEW G, NEW T, NEW j \in Nat, NEW h \in Nat, j <= h
  PROVE  Coats(G, j, h, T) # {}
<1>1. h \in j..h
  OBVIOUS
<1>2. <<G[h].k, T - G[h].o>> \in Coats(G, j, h, T)
  BY <1>1 DEF Coats
<1>. QED
  BY <1>2

\* A cell and what Crypt makes of it.
LEMMA CryptCell ==
  ASSUME NEW m, NEW g, NEW s, NEW x
  PROVE  Crypt([kind |-> "relay", cell |-> m, digest |-> g, layers |-> s], x)
           = [kind |-> "relay", cell |-> m, digest |-> g, layers |-> (s \ x) \union (x \ s)]
BY DEF Crypt

LEMMA PeelCell ==
  ASSUME NEW G, NEW T, NEW j \in 1..Len(G), NEW h \in 1..Len(G), j <= h, ChainOK(G)
  PROVE  Crypt(CellOf(G, j, h, T), Coat(G, j, T)) = CellOf(G, j + 1, h, T)
<1>1. (Coats(G, j, h, T) \ Coat(G, j, T)) \union (Coat(G, j, T) \ Coats(G, j, h, T)) = Coats(G, j + 1, h, T)
  BY CoatsApart
<1>. QED
  BY <1>1, CryptCell DEF CellOf

LEMMA WrapCell ==
  ASSUME NEW G, NEW T, NEW j \in 1..Len(G), NEW h \in 1..Len(G), j <= h, ChainOK(G)
  PROVE  Crypt(CellOf(G, j + 1, h, T), Coat(G, j, T)) = CellOf(G, j, h, T)
<1>1. (Coats(G, j + 1, h, T) \ Coat(G, j, T)) \union (Coat(G, j, T) \ Coats(G, j + 1, h, T)) = Coats(G, j, h, T)
  BY CoatsApart
<1>. QED
  BY <1>1, CryptCell DEF CellOf

LEMMA WrapOK ==
  ASSUME NEW G, NEW T, NEW c, NEW j \in 1..Len(G), ChainOK(G), CellOK(G, c, j + 1, T)
  PROVE  CellOK(G, Crypt(c, Coat(G, j, T)), j, T)
<1>1. PICK h \in 1..Len(G) : j + 1 <= h /\ EndsAt(G, h, T) /\ c = CellOf(G, j + 1, h, T)
  BY DEF CellOK
<1>2. Len(G) \in Nat
  BY IsSeqShape DEF ChainOK
<1>3. j <= h
  BY <1>1, <1>2
<1>4. Crypt(c, Coat(G, j, T)) = CellOf(G, j, h, T)
  BY <1>1, <1>3, WrapCell
<1>. QED
  BY <1>1, <1>3, <1>4 DEF CellOK

-----------------------------------------------------------------------------
(* At a relay: what it has heard of its log, and the cell that comes. *)

\* The log of a hop that has met r of the cells that wore its layer.
Heard(G, i, r, fd) ==
  fd = IF i < Len(G) /\ r > G[i + 1].o - G[i].o THEN G[i].d ELSE Upto(G[i].d, r + 1)

\* The cells for a hop are all in its log.
LogsFull(G) == \A i \in 1..Len(G) : i < Len(G) => Len(G[i].d) = G[i + 1].o - G[i].o + 1

\* What becomes of a cell whose next layer is hop i's.
MineNow(G, P, i, T, fd) ==
  /\ IsRecognizedAt(P, fd)
  /\ EndsAt(G, i, T) /\ T - G[i].o + 2 \in 2..Len(G[i].d) /\ P.cell = G[i].d[T - G[i].o + 2]
  /\ fd = Upto(G[i].d, T - G[i].o + 1)
  /\ Heard(G, i, T - G[i].o + 1, Append(fd, P.cell))
NotMine(G, P, i, T, fd) ==
  /\ ~IsRecognizedAt(P, fd)
  /\ i < Len(G) /\ G[i + 1].o <= T
  /\ CellOK(G, P, i + 1, T)
  /\ Heard(G, i, T - G[i].o + 1, fd)

LEMMA RelayStep ==
  ASSUME NEW G, NEW T \in Int, NEW c, NEW i \in 1..Len(G), NEW fd, NEW P,
         ChainOK(G), LogsFull(G), CellOK(G, c, i, T), Heard(G, i, T - G[i].o, fd),
         P = Crypt(c, Coat(G, i, T))
  PROVE  MineNow(G, P, i, T, fd) \/ NotMine(G, P, i, T, fd)
<1>1. PICK h \in 1..Len(G) : i <= h /\ EndsAt(G, h, T) /\ c = CellOf(G, i, h, T)
  BY DEF CellOK
<1>2. Len(G) \in Nat
  BY IsSeqShape DEF ChainOK
<1>3. P = CellOf(G, i + 1, h, T)
  BY <1>1, PeelCell
<1>4. P.layers = Coats(G, i + 1, h, T) /\ P.digest = Upto(G[h].d, T - G[h].o + 2)
      /\ P.cell = G[h].d[T - G[h].o + 2]
  BY <1>3 DEF CellOf
<1>o. G[i].o \in Nat /\ G[h].o \in Nat /\ Len(G[i].d) \in Nat /\ Len(G[h].d) \in Nat
  BY IsSeqShape DEF ChainOK
<1>5. CASE h = i
  <2>. DEFINE r == T - G[i].o
  <2>1. G[i].o <= T /\ r + 2 <= Len(G[i].d) /\ (i < Len(G) => T < G[i + 1].o)
    BY <1>1, <1>5 DEF EndsAt
  <2>2. r \in Nat /\ r + 2 \in 2..Len(G[i].d)
    BY <2>1, <1>o
  <2>n. i < Len(G) => G[i + 1].o \in Nat
    <3>1. i < Len(G) => i + 1 \in 1..Len(G)
      BY <1>2
    <3>. QED
      BY <3>1 DEF ChainOK
  <2>3. ~(i < Len(G) /\ r > G[i + 1].o - G[i].o) /\ ~(i < Len(G) /\ r + 1 > G[i + 1].o - G[i].o)
    <3>1. \A t \in Int, o \in Nat, p \in Nat : t < p => ~(t - o > p - o) /\ ~(t - o + 1 > p - o)
      OBVIOUS
    <3>2. i < Len(G) => ~(r > G[i + 1].o - G[i].o) /\ ~(r + 1 > G[i + 1].o - G[i].o)
      BY <3>1, <2>1, <2>n, <1>o
    <3>. QED
      BY <3>2
  <2>4. fd = Upto(G[i].d, r + 1)
    BY <2>3 DEF Heard
  <2>5. P.layers = {}
    <3>1. i \in Nat
      OBVIOUS
    <3>. QED
      BY <3>1, <1>4, <1>5, CoatsNone
  <2>6. P.cell = G[i].d[(r + 1) + 1] /\ P.digest = Upto(G[i].d, (r + 1) + 1)
    <3>1. (r + 1) + 1 = T - G[i].o + 2
      BY <1>o
    <3>. QED
      BY <3>1, <1>4, <1>5
  <2>7. Append(fd, P.cell) = Upto(G[i].d, (r + 1) + 1)
    <3>1. r + 1 \in Nat
      BY <2>2
    <3>. HIDE DEF r
    <3>. QED
      BY <3>1, <2>4, <2>6, UptoNext
  <2>8. IsRecognizedAt(P, fd)
    BY <2>5, <2>6, <2>7 DEF IsRecognizedAt
  <2>9. Heard(G, i, r + 1, Append(fd, P.cell))
    BY <2>3, <2>7 DEF Heard
  <2>10. P.cell = G[i].d[T - G[i].o + 2]
    BY <1>4, <1>5
  <2>. QED
    BY <1>1, <1>5, <2>2, <2>4, <2>8, <2>9, <2>10 DEF MineNow
<1>6. CASE h # i
  <2>. DEFINE r == T - G[i].o
  <2>1. i + 1 <= h /\ i < Len(G) /\ i + 1 \in 1..Len(G)
    BY <1>1, <1>2, <1>6
  <2>2. P.layers # {}
    <3>1. i + 1 \in Nat /\ h \in Nat
      OBVIOUS
    <3>. QED
      BY <3>1, <2>1, <1>4, CoatsSome
  <2>3. ~IsRecognizedAt(P, fd)
    BY <2>2 DEF IsRecognizedAt
  <2>4. G[i + 1].o <= G[h].o /\ G[h].o <= T /\ G[i + 1].o \in Nat
    <3>1. G[i + 1].o <= G[h].o /\ G[i + 1].o \in Nat
      BY <2>1 DEF ChainOK
    <3>2. G[h].o <= T
      BY <1>1 DEF EndsAt
    <3>. QED
      BY <3>1, <3>2
  <2>5. G[i + 1].o <= T
    BY <2>4, <1>o
  <2>6. CellOK(G, P, i + 1, T)
    BY <1>1, <1>3, <2>1 DEF CellOK
  <2>7. fd = G[i].d
    <3>1. CASE r > G[i + 1].o - G[i].o
      BY <3>1, <2>1 DEF Heard
    <3>2. CASE ~(r > G[i + 1].o - G[i].o)
      <4>1. r = G[i + 1].o - G[i].o
        <5>1. PICK a, o, p : a = r /\ o = G[i].o /\ p = G[i + 1].o
          OBVIOUS
        <5>2. a = T - o /\ p <= T /\ ~(a > p - o) /\ p \in Nat /\ o \in Int /\ T \in Int
          BY <5>1, <3>2, <2>4, <2>5, <1>o
        <5>3. a = p - o
          BY ONLY <5>2
        <5>. QED
          BY ONLY <5>1, <5>3
      <4>2. fd = Upto(G[i].d, r + 1)
        BY <3>2 DEF Heard
      <4>3. Len(G[i].d) = r + 1
        BY <4>1, <2>1 DEF LogsFull
      <4>4. IsSeq(G[i].d)
        BY DEF ChainOK
      <4>. QED
        BY <4>2, <4>3, <4>4, UptoAll
    <3>. QED
      BY <3>1, <3>2
  <2>8. r + 1 > G[i + 1].o - G[i].o
    <3>1. G[i + 1].o \in Nat /\ G[i].o \in Nat /\ T \in Int /\ G[i + 1].o <= T
      BY <2>4, <2>5, <1>o
    <3>2. \A a, b \in Nat : \A t \in Int : a <= t => t - b + 1 > a - b
      OBVIOUS
    <3>. QED
      BY ONLY <3>1, <3>2
  <2>9. Heard(G, i, r + 1, fd)
    BY <2>1, <2>7, <2>8 DEF Heard
  <2>. QED
    BY <2>1, <2>3, <2>5, <2>6, <2>9 DEF NotMine
<1>. QED
  BY <1>5, <1>6

-----------------------------------------------------------------------------
(* The layers of an end, and the chain they make of what it sends. *)

IsHop(h) ==
  /\ h = [fk |-> h.fk, bk |-> h.bk, fn |-> h.fn, bn |-> h.bn, fd |-> h.fd, bd |-> h.bd]
  /\ h.fn \in Nat /\ h.bn \in Nat /\ IsSeq(h.fd) /\ IsSeq(h.bd)
\* Every hop after the first was met later; and all that was said to it is in its log.
LayersOK(ls) ==
  /\ IsSeq(ls)
  /\ \A i \in 1..Len(ls) :
       /\ IsHop(ls[i])
       /\ Len(ls[i].fd) = (IF i < Len(ls) THEN ls[i].fn - ls[i + 1].fn ELSE ls[i].fn) + 1
  /\ \A a, b \in 1..Len(ls) : a <= b => ls[b].fn <= ls[a].fn
KeysApart(ls) == \A a, b \in 1..Len(ls) : a # b => ls[a].fk # ls[b].fk
Chain(ls) == [i \in 1..Len(ls) |-> [k |-> ls[i].fk, o |-> ls[1].fn - ls[i].fn, d |-> ls[i].fd]]

LEMMA ChainIs ==
  ASSUME NEW ls, LayersOK(ls)
  PROVE  /\ Len(ls) \in Nat /\ IsSeq(Chain(ls)) /\ Len(Chain(ls)) = Len(ls)
         /\ \A i \in 1..Len(ls) : /\ Chain(ls)[i].k = ls[i].fk /\ Chain(ls)[i].d = ls[i].fd
                                  /\ Chain(ls)[i].o = ls[1].fn - ls[i].fn
<1>1. Len(ls) \in Nat
  BY IsSeqShape DEF LayersOK
<1>. DEFINE G == Chain(ls)
<1>2. \A i \in 1..Len(ls) : G[i] = [k |-> ls[i].fk, o |-> ls[1].fn - ls[i].fn, d |-> ls[i].fd]
  BY DEF Chain
<1>3. G = [i \in 1..Len(ls) |-> G[i]]
  BY DEF Chain
<1>4. IsSeq(G) /\ Len(G) = Len(ls)
  <2>. HIDE DEF G
  <2>. QED
    BY <1>1, <1>3, FunIs
<1>. HIDE DEF G
<1>5. ASSUME NEW i \in 1..Len(ls)
      PROVE  G[i].k = ls[i].fk /\ G[i].d = ls[i].fd /\ G[i].o = ls[1].fn - ls[i].fn
  <2>1. G[i] = [k |-> ls[i].fk, o |-> ls[1].fn - ls[i].fn, d |-> ls[i].fd]
    BY <1>2
  <2>. QED
    BY <2>1
<1>. QED
  BY <1>1, <1>4, <1>5 DEF G

LEMMA LayersNat ==
  ASSUME NEW ls, LayersOK(ls), NEW i \in 1..Len(ls)
  PROVE  /\ IsHop(ls[i]) /\ ls[i].fn \in Nat /\ ls[i].bn \in Nat /\ ls[1].fn \in Nat /\ ls[i].fn <= ls[1].fn
         /\ IsSeq(ls[i].fd) /\ Len(ls[i].fd) \in Nat /\ Len(ls[i].fd) >= 1
<1>1. Len(ls) \in Nat /\ 1 \in 1..Len(ls) /\ 1 <= i
  BY IsSeqShape DEF LayersOK
<1>2. IsHop(ls[i]) /\ IsHop(ls[1]) /\ ls[i].fn <= ls[1].fn
  BY <1>1 DEF LayersOK
<1>3. ls[i].fn \in Nat /\ ls[1].fn \in Nat /\ IsSeq(ls[i].fd) /\ ls[i].bn \in Nat
  BY <1>2 DEF IsHop
<1>4. Len(ls[i].fd) = (IF i < Len(ls) THEN ls[i].fn - ls[i + 1].fn ELSE ls[i].fn) + 1
  BY DEF LayersOK
<1>5. Len(ls[i].fd) \in Nat /\ Len(ls[i].fd) >= 1
  <2>1. CASE i < Len(ls)
    <3>1. i + 1 \in 1..Len(ls) /\ i <= i + 1
      BY <1>1, <2>1
    <3>2. ls[i + 1].fn <= ls[i].fn /\ IsHop(ls[i + 1])
      BY <3>1 DEF LayersOK
    <3>3. ls[i + 1].fn \in Nat
      BY <3>2 DEF IsHop
    <3>. QED
      BY <1>3, <1>4, <2>1, <3>2, <3>3
  <2>2. CASE ~(i < Len(ls))
    BY <1>3, <1>4, <2>2
  <2>. QED
    BY <2>1, <2>2
<1>. QED
  BY <1>2, <1>3, <1>5

LEMMA ChainGood ==
  ASSUME NEW ls, LayersOK(ls), KeysApart(ls)
  PROVE  ChainOK(Chain(ls)) /\ LogsFull(Chain(ls))
<1>1. /\ Len(ls) \in Nat /\ IsSeq(Chain(ls)) /\ Len(Chain(ls)) = Len(ls)
      /\ \A i \in 1..Len(ls) : /\ Chain(ls)[i].k = ls[i].fk /\ Chain(ls)[i].d = ls[i].fd
                               /\ Chain(ls)[i].o = ls[1].fn - ls[i].fn
  BY ChainIs
<1>. DEFINE G == Chain(ls)
<1>2. /\ Len(G) = Len(ls) /\ IsSeq(G)
      /\ \A i \in 1..Len(ls) : G[i].k = ls[i].fk /\ G[i].d = ls[i].fd /\ G[i].o = ls[1].fn - ls[i].fn
  BY <1>1
<1>. HIDE DEF G
<1>3. ASSUME NEW i \in 1..Len(G) PROVE G[i].o \in Nat /\ IsSeq(G[i].d) /\ Len(G[i].d) >= 1
  <2>1. /\ ls[i].fn \in Nat /\ ls[1].fn \in Nat /\ ls[i].fn <= ls[1].fn
        /\ IsSeq(ls[i].fd) /\ Len(ls[i].fd) >= 1
    BY <1>2, LayersNat
  <2>. QED
    BY <2>1, <1>2
<1>4. ASSUME NEW a \in 1..Len(G), NEW b \in 1..Len(G), a <= b PROVE G[a].o <= G[b].o
  <2>1. ls[b].fn <= ls[a].fn
    BY <1>2, <1>4 DEF LayersOK
  <2>2. ls[a].fn \in Nat /\ ls[b].fn \in Nat /\ ls[1].fn \in Nat
    BY <1>2, LayersNat
  <2>. QED
    BY <2>1, <2>2, <1>2
<1>5. \A a, b \in 1..Len(G) : a # b => G[a].k # G[b].k
  BY <1>2 DEF KeysApart
<1>6. ASSUME NEW i \in 1..Len(G), i < Len(G) PROVE Len(G[i].d) = G[i + 1].o - G[i].o + 1
  <2>1. i + 1 \in 1..Len(ls)
    BY <1>1, <1>2, <1>6
  <2>2. ls[i].fn \in Nat /\ ls[i + 1].fn \in Nat /\ ls[1].fn \in Nat
    BY <2>1, <1>2, LayersNat
  <2>3. Len(ls[i].fd) = ls[i].fn - ls[i + 1].fn + 1
    BY <1>2, <1>6 DEF LayersOK
  <2>. QED
    BY <2>1, <2>2, <2>3, <1>2
<1>7. ChainOK(G)
  BY <1>2, <1>3, <1>4, <1>5 DEF ChainOK
<1>8. LogsFull(G)
  BY <1>6 DEF LogsFull
<1>. QED
  BY <1>7, <1>8 DEF G

\* A cell sealed with all the layers there are.
SealedFrom(ls, ms, cell) ==
  /\ IsSeq(ms) /\ Len(ms) = Len(ls)
  /\ \A i \in 1..Len(ls) :
       ms[i] = [fk |-> ls[i].fk, bk |-> ls[i].bk, fn |-> ls[i].fn + 1, bn |-> ls[i].bn,
                fd |-> IF i = Len(ls) THEN Append(ls[i].fd, cell) ELSE ls[i].fd, bd |-> ls[i].bd]
SealedFields(ls, ms, cell) ==
  \A i \in 1..Len(ls) :
     /\ ms[i].fk = ls[i].fk /\ ms[i].bk = ls[i].bk /\ ms[i].fn = ls[i].fn + 1 /\ ms[i].bn = ls[i].bn
     /\ ms[i].fd = (IF i = Len(ls) THEN Append(ls[i].fd, cell) ELSE ls[i].fd) /\ ms[i].bd = ls[i].bd
     /\ ms[i] = [fk |-> ms[i].fk, bk |-> ms[i].bk, fn |-> ms[i].fn, bn |-> ms[i].bn,
             fd |-> ms[i].fd, bd |-> ms[i].bd]

LEMMA SealFields ==
  ASSUME NEW ls, NEW ms, NEW cell, SealedFrom(ls, ms, cell)
  PROVE  SealedFields(ls, ms, cell)
<1>. SUFFICES ASSUME NEW i \in 1..Len(ls) PROVE
         /\ ms[i].fk = ls[i].fk /\ ms[i].bk = ls[i].bk /\ ms[i].fn = ls[i].fn + 1 /\ ms[i].bn = ls[i].bn
         /\ ms[i].fd = (IF i = Len(ls) THEN Append(ls[i].fd, cell) ELSE ls[i].fd) /\ ms[i].bd = ls[i].bd
         /\ ms[i] = [fk |-> ms[i].fk, bk |-> ms[i].bk, fn |-> ms[i].fn, bn |-> ms[i].bn,
                     fd |-> ms[i].fd, bd |-> ms[i].bd]
  BY DEF SealedFields
<1>. DEFINE r == [fk |-> ls[i].fk, bk |-> ls[i].bk, fn |-> ls[i].fn + 1, bn |-> ls[i].bn,
                  fd |-> IF i = Len(ls) THEN Append(ls[i].fd, cell) ELSE ls[i].fd, bd |-> ls[i].bd]
<1>1. ms[i] = r
  BY DEF SealedFrom
<1>2. /\ r.fk = ls[i].fk /\ r.bk = ls[i].bk /\ r.fn = ls[i].fn + 1 /\ r.bn = ls[i].bn
      /\ r.fd = (IF i = Len(ls) THEN Append(ls[i].fd, cell) ELSE ls[i].fd) /\ r.bd = ls[i].bd
      /\ r = [fk |-> r.fk, bk |-> r.bk, fn |-> r.fn, bn |-> r.bn, fd |-> r.fd, bd |-> r.bd]
  OBVIOUS
<1>. HIDE DEF r
<1>. QED
  BY <1>1, <1>2

LEMMA SealLayers ==
  ASSUME NEW ls, NEW ms, NEW cell, LayersOK(ls), SealedFrom(ls, ms, cell)
  PROVE  LayersOK(ms) /\ (KeysApart(ls) => KeysApart(ms)) /\ \A b : Grows(Chain(ls), Chain(ms), b)
<1>1. Len(ms) = Len(ls) /\ IsSeq(ms) /\ Len(ls) \in Nat
  BY ChainIs DEF SealedFrom
<1>n. \A i \in 1..Len(ls) : ls[i].fn \in Nat
  BY LayersNat
<1>s. ASSUME NEW i \in 1..Len(ls) PROVE ms[i].fn = ls[i].fn + 1 /\ ms[i].fk = ls[i].fk
  <2>1. SealedFields(ls, ms, cell)
    BY SealFields
  <2>. QED
    BY <2>1 DEF SealedFields
<1>2. ASSUME NEW i \in 1..Len(ls)
      PROVE  /\ IsHop(ms[i])
             /\ Len(ms[i].fd) = (IF i < Len(ls) THEN ms[i].fn - ms[i + 1].fn ELSE ms[i].fn) + 1
             /\ Len(ls[i].fd) <= Len(ms[i].fd) /\ \A q \in 1..Len(ls[i].fd) : ms[i].fd[q] = ls[i].fd[q]
  <2>1. ls[i].fn \in Nat /\ ls[i].bn \in Nat /\ IsSeq(ls[i].fd) /\ IsHop(ls[i]) /\ Len(ls[i].fd) \in Nat
    BY LayersNat
  <2>2. IsSeq(ls[i].bd)
    BY <2>1 DEF IsHop
  <2>3. /\ ms[i].fn = ls[i].fn + 1 /\ ms[i].bn = ls[i].bn
        /\ ms[i].fd = (IF i = Len(ls) THEN Append(ls[i].fd, cell) ELSE ls[i].fd) /\ ms[i].bd = ls[i].bd
        /\ ms[i] = [fk |-> ms[i].fk, bk |-> ms[i].bk, fn |-> ms[i].fn, bn |-> ms[i].bn,
                    fd |-> ms[i].fd, bd |-> ms[i].bd]
    BY SealFields DEF SealedFields
  <2>4. Len(ls[i].fd) = (IF i < Len(ls) THEN ls[i].fn - ls[i + 1].fn ELSE ls[i].fn) + 1
    BY DEF LayersOK
  <2>5. CASE i = Len(ls)
    <3>1. ms[i].fd = Append(ls[i].fd, cell) /\ ~(i < Len(ls))
      BY <2>3, <2>5
    <3>2. /\ IsSeq(ms[i].fd) /\ Len(ms[i].fd) = Len(ls[i].fd) + 1
          /\ \A q \in 1..Len(ls[i].fd) : ms[i].fd[q] = ls[i].fd[q]
      BY <3>1, <2>1, AppendIs
    <3>3. IsHop(ms[i])
      BY <3>2, <2>1, <2>2, <2>3 DEF IsHop
    <3>4. Len(ms[i].fd) = ms[i].fn + 1
      BY <3>1, <3>2, <2>1, <2>3, <2>4
    <3>5. Len(ls[i].fd) <= Len(ms[i].fd)
      BY <3>2, <2>1
    <3>. QED
      BY <3>1, <3>2, <3>3, <3>4, <3>5
  <2>6. CASE i # Len(ls)
    <3>1. ms[i].fd = ls[i].fd /\ i < Len(ls) /\ i + 1 \in 1..Len(ls)
      BY <2>3, <2>6, <1>1
    <3>2. IsHop(ms[i])
      BY <3>1, <2>1, <2>2, <2>3 DEF IsHop
    <3>3. ms[i + 1].fn = ls[i + 1].fn + 1 /\ ls[i + 1].fn \in Nat
      BY <3>1, <1>n, <1>s
    <3>4. Len(ms[i].fd) = ms[i].fn - ms[i + 1].fn + 1
      <4>1. Len(ls[i].fd) = ls[i].fn - ls[i + 1].fn + 1
        BY <3>1, <2>4
      <4>2. \A x, y \in Nat : (x + 1) - (y + 1) = x - y
        OBVIOUS
      <4>n. ls[i].fn \in Nat /\ ls[i + 1].fn \in Nat /\ ms[i].fn = ls[i].fn + 1 /\ ms[i + 1].fn = ls[i + 1].fn + 1
        BY <3>3, <2>1, <2>3
      <4>3. ms[i].fn - ms[i + 1].fn = ls[i].fn - ls[i + 1].fn
        <5>1. (ls[i].fn + 1) - (ls[i + 1].fn + 1) = ls[i].fn - ls[i + 1].fn
          BY ONLY <4>2, <4>n
        <5>. QED
          BY ONLY <5>1, <4>n
      <4>. QED
        BY <4>1, <4>3, <3>1
    <3>5. Len(ls[i].fd) <= Len(ms[i].fd)
      BY <3>1, <2>1
    <3>. QED
      BY <3>1, <3>2, <3>4, <3>5
  <2>. QED
    BY <2>5, <2>6
<1>3. ASSUME NEW a \in 1..Len(ls), NEW b \in 1..Len(ls), a <= b PROVE ms[b].fn <= ms[a].fn
  <2>1. ls[b].fn <= ls[a].fn /\ ls[a].fn \in Nat /\ ls[b].fn \in Nat
    BY <1>3, LayersNat DEF LayersOK
  <2>2. ms[b].fn = ls[b].fn + 1 /\ ms[a].fn = ls[a].fn + 1
    BY <1>s
  <2>. QED
    BY <2>1, <2>2
<1>4. LayersOK(ms)
  BY <1>1, <1>2, <1>3 DEF LayersOK
<1>5. KeysApart(ls) => KeysApart(ms)
  BY <1>1, <1>s DEF KeysApart
<1>6. ASSUME NEW b PROVE Grows(Chain(ls), Chain(ms), b)
  <2>1. /\ Len(Chain(ls)) = Len(ls)
        /\ \A i \in 1..Len(ls) : /\ Chain(ls)[i].k = ls[i].fk /\ Chain(ls)[i].d = ls[i].fd
                                 /\ Chain(ls)[i].o = ls[1].fn - ls[i].fn
    BY ChainIs
  <2>2. /\ Len(Chain(ms)) = Len(ls)
        /\ \A i \in 1..Len(ls) : /\ Chain(ms)[i].k = ms[i].fk /\ Chain(ms)[i].d = ms[i].fd
                                 /\ Chain(ms)[i].o = ms[1].fn - ms[i].fn
    BY <1>1, <1>4, ChainIs
  <2>3. ASSUME NEW i \in 1..Len(ls)
        PROVE  Chain(ms)[i].k = Chain(ls)[i].k /\ Chain(ms)[i].o = Chain(ls)[i].o
    <3>1. 1 \in 1..Len(ls) /\ ls[i].fn \in Nat /\ ls[1].fn \in Nat
      BY <1>1, LayersNat
    <3>2. ms[i].fk = ls[i].fk /\ ms[i].fn = ls[i].fn + 1 /\ ms[1].fn = ls[1].fn + 1
      BY <3>1, <1>s
    <3>3. ms[1].fn - ms[i].fn = ls[1].fn - ls[i].fn
      BY <3>1, <3>2
    <3>. QED
      BY <2>1, <2>2, <3>2, <3>3
  <2>4. ASSUME NEW i \in 1..Len(ls)
        PROVE  /\ Len(Chain(ls)[i].d) <= Len(Chain(ms)[i].d)
               /\ \A q \in 1..Len(Chain(ls)[i].d) : Chain(ms)[i].d[q] = Chain(ls)[i].d[q]
    BY <2>1, <2>2, <1>2
  <2>5. Len(ls) <= Len(ls) /\ ~(Len(ls) < Len(ls))
    BY <1>1
  <2>. QED
    BY <2>1, <2>2, <2>3, <2>4, <2>5 DEF Grows
<1>. QED
  BY <1>4, <1>5, <1>6

\* What Outbound makes of it, with the streams of all the layers.
Streams(ls) == {<<l.fk, l.fn>> : l \in ToSet(ls)}

LEMMA SealedCellOK ==
  ASSUME NEW ls, NEW ms, NEW cell, LayersOK(ls), SealedFrom(ls, ms, cell), Len(ls) >= 1
  PROVE  CellOK(Chain(ms), Crypt(StampDigest(cell, ls[Len(ls)].fd), Streams(ls)), 1, ls[1].fn)
<1>. DEFINE h == Len(ls)
            N == ls[1].fn
            G == Chain(ms)
<1>1. h \in Nat /\ h \in 1..Len(ls) /\ 1 \in 1..Len(ls) /\ DOMAIN ls = 1..Len(ls)
  BY IsSeqShape DEF LayersOK
<1>2. LayersOK(ms) /\ Len(ms) = Len(ls)
  BY SealLayers DEF SealedFrom
<1>3. /\ Len(G) = Len(ls)
      /\ \A i \in 1..Len(ls) : G[i].k = ms[i].fk /\ G[i].d = ms[i].fd /\ G[i].o = ms[1].fn - ms[i].fn
  BY <1>2, ChainIs
<1>4. SealedFields(ls, ms, cell)
  BY SealFields
<1>5. ASSUME NEW i \in 1..Len(ls) PROVE G[i].k = ls[i].fk /\ N - G[i].o = ls[i].fn /\ G[i].o <= N /\ G[i].o \in Nat
  <2>1. ms[i].fk = ls[i].fk /\ ms[i].fn = ls[i].fn + 1 /\ ms[1].fn = ls[1].fn + 1
    BY <1>1, <1>4 DEF SealedFields
  <2>2. ls[i].fn \in Nat /\ ls[1].fn \in Nat /\ ls[i].fn <= ls[1].fn
    BY LayersNat
  <2>3. G[i].o = (ls[1].fn + 1) - (ls[i].fn + 1)
    BY <1>3, <2>1
  <2>4. \A x, y \in Nat : y <= x => x - ((x + 1) - (y + 1)) = y /\ (x + 1) - (y + 1) <= x /\ (x + 1) - (y + 1) \in Nat
    OBVIOUS
  <2>5. /\ ls[1].fn - ((ls[1].fn + 1) - (ls[i].fn + 1)) = ls[i].fn
        /\ (ls[1].fn + 1) - (ls[i].fn + 1) <= ls[1].fn /\ (ls[1].fn + 1) - (ls[i].fn + 1) \in Nat
    BY ONLY <2>2, <2>4
  <2>6. G[i].k = ls[i].fk
    BY <1>3, <2>1
  <2>. QED
    BY ONLY <2>3, <2>5, <2>6
<1>6. /\ G[h].d = Append(ls[h].fd, cell) /\ IsSeq(G[h].d) /\ Len(G[h].d) = ls[h].fn + 2
      /\ G[h].d[ls[h].fn + 2] = cell /\ ls[h].fn \in Nat
  <2>1. IsSeq(ls[h].fd) /\ ls[h].fn \in Nat
    BY <1>1, LayersNat
  <2>2. Len(ls[h].fd) = ls[h].fn + 1
    BY <1>1 DEF LayersOK
  <2>3. ms[h].fd = Append(ls[h].fd, cell)
    BY <1>1, <1>4 DEF SealedFields
  <2>4. G[h].d = Append(ls[h].fd, cell)
    BY <1>1, <1>3, <2>3
  <2>5. LET s == Append(ls[h].fd, cell) IN IsSeq(s) /\ Len(s) = Len(ls[h].fd) + 1 /\ s[Len(ls[h].fd) + 1] = cell
    BY <2>1, AppendIs
  <2>6. (ls[h].fn + 1) + 1 = ls[h].fn + 2
    BY <2>1
  <2>. QED
    BY <2>1, <2>2, <2>4, <2>5, <2>6
<1>7. N - G[h].o + 2 = ls[h].fn + 2
  BY <1>1, <1>5
<1>8. EndsAt(G, h, N)
  <2>1. G[h].o <= N
    BY <1>1, <1>5
  <2>2. ls[h].fn + 2 <= Len(G[h].d)
    BY <1>6
  <2>3. ~(h < Len(G))
    BY <1>1, <1>3
  <2>. QED
    BY <1>7, <2>1, <2>2, <2>3 DEF EndsAt
<1>9. Coats(G, 1, h, N) = Streams(ls)
  <2>1. ToSet(ls) = {ls[i] : i \in 1..Len(ls)}
    BY <1>1 DEF ToSet
  <2>2. Streams(ls) = {<<ls[i].fk, ls[i].fn>> : i \in 1..Len(ls)}
    BY <2>1 DEF Streams
  <2>3. \A i \in 1..h : <<G[i].k, N - G[i].o>> = <<ls[i].fk, ls[i].fn>>
    BY <1>5
  <2>4. Coats(G, 1, h, N) = {<<G[i].k, N - G[i].o>> : i \in 1..h}
    BY DEF Coats
  <2>. HIDE DEF G, N
  <2>. QED
    BY <2>2, <2>3, <2>4
<1>10. Upto(G[h].d, ls[h].fn + 2) = Append(ls[h].fd, cell)
  BY <1>6, UptoAll
<1>11. CellOf(G, 1, h, N) = [kind |-> "relay", cell |-> cell, digest |-> Append(ls[h].fd, cell), layers |-> Streams(ls)]
  BY <1>6, <1>7, <1>9, <1>10 DEF CellOf
<1>12. Crypt(StampDigest(cell, ls[h].fd), Streams(ls))
         = [kind |-> "relay", cell |-> cell, digest |-> Append(ls[h].fd, cell), layers |-> Streams(ls)]
  <2>1. StampDigest(cell, ls[h].fd)
          = [kind |-> "relay", cell |-> cell, digest |-> Append(ls[h].fd, cell), layers |-> {}]
    BY DEF StampDigest
  <2>2. ({} \ Streams(ls)) \union (Streams(ls) \ {}) = Streams(ls)
    OBVIOUS
  <2>. QED
    BY <2>1, <2>2, CryptCell
<1>. HIDE DEF G, N
<1>13. 1 <= h /\ h \in 1..Len(G)
  BY <1>1, <1>3
<1>14. Crypt(StampDigest(cell, ls[h].fd), Streams(ls)) = CellOf(G, 1, h, N)
  BY <1>11, <1>12
<1>15. CellOK(G, Crypt(StampDigest(cell, ls[h].fd), Streams(ls)), 1, N)
  BY <1>8, <1>13, <1>14, Zenon DEF CellOK
<1>. QED
  BY <1>15 DEF G, N

\* A new hop: both of its counters at nothing.
LEMMA HopStateIs ==
  ASSUME NEW fk, NEW bk
  PROVE  LET h == HopState(fk, bk) IN
         IsHop(h) /\ h.fk = fk /\ h.bk = bk /\ h.fn = 0 /\ h.bn = 0 /\ h.fd = <<fk>> /\ h.bd = <<bk>> /\ Len(h.fd) = 1
<1>1. IsSeq(<<fk>>) /\ IsSeq(<<bk>>) /\ Len(<<fk>>) = 1
  BY OneIs
<1>. QED
  BY <1>1 DEF HopState, IsHop

Grown(ls, ms, fk, bk) ==
  /\ LayersOK(ms) /\ Len(ms) = Len(ls) + 1 /\ ms[Len(ls) + 1] = HopState(fk, bk)
  /\ \A i \in 1..Len(ls) : ms[i] = ls[i]
  /\ KeysApart(ls) /\ (\A i \in 1..Len(ls) : ls[i].fk # fk) => KeysApart(ms)
  /\ Len(ls) >= 1 => Grows(Chain(ls), Chain(ms), ls[1].fn)

LEMMA GrownLayers ==
  ASSUME NEW ls, NEW fk, NEW bk, NEW ms, LayersOK(ls), ms = Append(ls, HopState(fk, bk))
  PROVE  Grown(ls, ms, fk, bk)
<1>. DEFINE h == HopState(fk, bk)
            m == Len(ls) + 1
<1>1. IsSeq(ls) /\ Len(ls) \in Nat
  BY ChainIs DEF LayersOK
<1>2. IsSeq(ms) /\ Len(ms) = m /\ ms[m] = h /\ \A i \in 1..Len(ls) : ms[i] = ls[i]
  BY <1>1, AppendIs
<1>3. IsHop(h) /\ h.fk = fk /\ h.bk = bk /\ h.fn = 0 /\ h.bn = 0 /\ h.fd = <<fk>> /\ Len(h.fd) = 1
  BY HopStateIs
<1>. HIDE DEF h
<1>m. m \in Nat /\ m \in 1..m /\ (\A i \in 1..m : i = m \/ i \in 1..Len(ls))
  BY <1>1
<1>4. ASSUME NEW i \in 1..m
      PROVE  IsHop(ms[i]) /\ Len(ms[i].fd) = (IF i < Len(ms) THEN ms[i].fn - ms[i + 1].fn ELSE ms[i].fn) + 1
  <2>1. CASE i = m
    BY <2>1, <1>1, <1>2, <1>3
  <2>2. CASE i \in 1..(Len(ls) - 1)
    <3>1. i \in 1..Len(ls) /\ i + 1 \in 1..Len(ls) /\ i < Len(ls) /\ i < Len(ms)
      BY <2>2, <1>1, <1>2
    <3>2. ms[i] = ls[i] /\ ms[i + 1] = ls[i + 1]
      BY <3>1, <1>2
    <3>3. IsHop(ls[i]) /\ Len(ls[i].fd) = ls[i].fn - ls[i + 1].fn + 1
      BY <3>1 DEF LayersOK
    <3>. QED
      BY <3>1, <3>2, <3>3
  <2>3. CASE i = Len(ls)
    <3>1. i \in 1..Len(ls) /\ ~(i < Len(ls)) /\ i < Len(ms) /\ i + 1 = m
      BY <2>3, <1>1, <1>2
    <3>2. ms[i] = ls[i] /\ ms[i + 1].fn = 0
      BY <3>1, <1>2, <1>3
    <3>3. IsHop(ls[i]) /\ Len(ls[i].fd) = ls[i].fn + 1 /\ ls[i].fn \in Nat
      BY <3>1, LayersNat DEF LayersOK
    <3>. QED
      BY <3>1, <3>2, <3>3
  <2>. QED
    BY <2>1, <2>2, <2>3, <1>1
<1>5. ASSUME NEW a \in 1..m, NEW b \in 1..m, a <= b PROVE ms[b].fn <= ms[a].fn
  <2>0. ASSUME NEW i \in 1..m PROVE ms[i].fn \in Nat
    BY <1>4 DEF IsHop
  <2>1. CASE b = m
    <3>1. ms[b].fn = 0 /\ ms[a].fn \in Nat
      BY <2>0, <2>1, <1>2, <1>3
    <3>. QED
      BY <3>1
  <2>2. CASE b # m
    <3>1. a \in 1..Len(ls) /\ b \in 1..Len(ls)
      BY <2>2, <1>5, <1>1
    <3>2. ls[b].fn <= ls[a].fn
      BY <3>1, <1>5 DEF LayersOK
    <3>. QED
      BY <3>1, <3>2, <1>2
  <2>. QED
    BY <2>1, <2>2
<1>6. LayersOK(ms)
  BY <1>2, <1>4, <1>5 DEF LayersOK
<1>7. ASSUME KeysApart(ls), \A i \in 1..Len(ls) : ls[i].fk # fk PROVE KeysApart(ms)
  <2>1. SUFFICES ASSUME NEW a \in 1..m, NEW b \in 1..m, a # b PROVE ms[a].fk # ms[b].fk
    BY <1>2 DEF KeysApart
  <2>2. CASE a = m
    BY <1>2, <1>3, <1>7, <1>m, <2>1, <2>2
  <2>3. CASE b = m
    BY <1>2, <1>3, <1>7, <1>m, <2>1, <2>3
  <2>4. CASE a # m /\ b # m
    BY <1>2, <1>7, <1>m, <2>1, <2>4 DEF KeysApart
  <2>. QED
    BY <2>2, <2>3, <2>4
<1>8. ASSUME Len(ls) >= 1 PROVE Grows(Chain(ls), Chain(ms), ls[1].fn)
  <2>. DEFINE G == Chain(ls)
              H == Chain(ms)
  <2>1. /\ Len(G) = Len(ls)
        /\ \A i \in 1..Len(ls) : G[i].k = ls[i].fk /\ G[i].d = ls[i].fd /\ G[i].o = ls[1].fn - ls[i].fn
    BY ChainIs
  <2>2. /\ Len(H) = m
        /\ \A i \in 1..m : H[i].k = ms[i].fk /\ H[i].d = ms[i].fd /\ H[i].o = ms[1].fn - ms[i].fn
    <3>1. Len(ms) = m
      BY <1>2
    <3>2. LayersOK(ms) /\ H = Chain(ms)
      BY <1>6
    <3>. HIDE DEF H
    <3>3. /\ Len(H) = Len(ms)
          /\ \A i \in 1..Len(ms) : H[i].k = ms[i].fk /\ H[i].d = ms[i].fd /\ H[i].o = ms[1].fn - ms[i].fn
      BY ONLY <3>2, ChainIs
    <3>. QED
      BY ONLY <3>1, <3>3
  <2>. HIDE DEF G, H
  <2>3. 1 \in 1..Len(ls) /\ ls[1].fn \in Nat /\ ms[1] = ls[1]
    BY <1>1, <1>2, <1>8, LayersNat
  <2>4. ASSUME NEW i \in 1..Len(ls)
        PROVE  /\ H[i].k = G[i].k /\ H[i].o = G[i].o /\ Len(G[i].d) <= Len(H[i].d)
               /\ \A q \in 1..Len(G[i].d) : H[i].d[q] = G[i].d[q]
    <3>1. i \in 1..m /\ ms[i] = ls[i] /\ Len(ls[i].fd) \in Nat
      BY <1>1, <1>2, LayersNat
    <3>2. G[i].k = ls[i].fk /\ G[i].d = ls[i].fd /\ G[i].o = ls[1].fn - ls[i].fn
      BY <2>1
    <3>3. H[i].k = ls[i].fk /\ H[i].d = ls[i].fd /\ H[i].o = ls[1].fn - ls[i].fn
      BY <3>1, <2>2, <2>3
    <3>4. H[i].k = G[i].k /\ H[i].o = G[i].o /\ H[i].d = G[i].d
      BY ONLY <3>2, <3>3
    <3>5. Len(G[i].d) <= Len(G[i].d)
      BY ONLY <3>1, <3>2
    <3>. QED
      BY ONLY <3>4, <3>5
  <2>5. H[Len(G) + 1].o = ls[1].fn
    <3>1. H[m].o = ms[1].fn - ms[m].fn
      BY <1>m, <2>2
    <3>. QED
      BY <3>1, <2>1, <2>3, <1>2, <1>3
  <2>6. Len(G) <= Len(H)
    BY <2>1, <2>2, <1>1
  <2>7. Grows(G, H, ls[1].fn)
    BY <2>1, <2>3, <2>4, <2>5, <2>6 DEF Grows
  <2>. QED
    BY <2>7 DEF G, H
<1>. QED
  BY <1>2, <1>6, <1>7, <1>8 DEF h, Grown

LEMMA SubSeqIs ==
  ASSUME NEW q, IsSeq(q), NEW a \in Nat \ {0}, NEW b \in Nat, b <= Len(q), a <= b + 1
  PROVE  /\ IsSeq(SubSeq(q, a, b)) /\ Len(SubSeq(q, a, b)) = b - a + 1
         /\ \A i \in 1..(b - a + 1) : SubSeq(q, a, b)[i] = q[a + i - 1]
<1>1. q \in Seq({q[i] : i \in DOMAIN q}) /\ Len(q) \in Nat
  BY IsSeqShape DEF IsSeq
<1>2. SubSeq(q, a, b) = [i \in 1..(b - a + 1) |-> q[i + a - 1]]
  BY <1>1
<1>. DEFINE s == SubSeq(q, a, b)
<1>3. b - a + 1 \in Nat
  OBVIOUS
<1>4. s = [i \in 1..(b - a + 1) |-> s[i]]
  BY <1>2
<1>5. IsSeq(s) /\ Len(s) = b - a + 1
  <2>. HIDE DEF s
  <2>. QED
    BY <1>3, <1>4, FunIs
<1>6. ASSUME NEW i \in 1..(b - a + 1) PROVE s[i] = q[a + i - 1]
  <2>1. s[i] = q[i + a - 1]
    BY <1>2
  <2>2. i + a - 1 = a + i - 1
    OBVIOUS
  <2>. QED
    BY <2>1, <2>2
<1>. QED
  BY <1>5, <1>6

-----------------------------------------------------------------------------
(* A circuit at its origin, and its layers. *)

OriginOK(oc) ==
  /\ oc = [hops |-> oc.hops, e2e |-> oc.e2e, pending |-> oc.pending]
  /\ IsSeq(oc.hops) /\ IsSeq(oc.e2e)

LEMMA LayersOf ==
  ASSUME NEW oc, OriginOK(oc)
  PROVE  /\ Len(oc.hops) \in Nat /\ Len(oc.e2e) \in Nat
         /\ IsSeq(Layers(oc)) /\ Len(Layers(oc)) = Len(oc.hops) + Len(oc.e2e)
         /\ \A i \in 1..Len(oc.hops) : Layers(oc)[i] = oc.hops[i]
         /\ \A i \in 1..Len(oc.e2e) : Layers(oc)[Len(oc.hops) + i] = oc.e2e[i]
BY IsSeqShape, ConcatIs DEF OriginOK, Layers

LEMMA WithLayersIs ==
  ASSUME NEW oc, OriginOK(oc), NEW ms, IsSeq(ms), Len(ms) = Len(Layers(oc)), NEW w, w = WithLayers(oc, ms)
  PROVE  /\ OriginOK(w) /\ Layers(w) = ms /\ Len(w.hops) = Len(oc.hops) /\ Len(w.e2e) = Len(oc.e2e)
         /\ w.pending = oc.pending
         /\ \A i \in 1..Len(oc.hops) : w.hops[i] = ms[i]
         /\ \A i \in 1..Len(oc.e2e) : w.e2e[i] = ms[Len(oc.hops) + i]
<1>. DEFINE x == Len(oc.hops)
            y == Len(oc.e2e)
            hs == SubSeq(ms, 1, x)
            es == SubSeq(ms, x + 1, Len(ms))
<1>1. x \in Nat /\ y \in Nat /\ Len(ms) = x + y
  BY LayersOf
<1>2. w = [hops |-> hs, e2e |-> es, pending |-> oc.pending]
  <2>1. oc = [hops |-> oc.hops, e2e |-> oc.e2e, pending |-> oc.pending]
    BY DEF OriginOK
  <2>2. w = [oc EXCEPT !.hops = hs, !.e2e = es]
    BY DEF WithLayers
  <2>. HIDE DEF hs, es
  <2>. QED
    BY <2>1, <2>2
<1>3. IsSeq(hs) /\ Len(hs) = x /\ \A i \in 1..x : hs[i] = ms[i]
  <2>. HIDE DEF x
  <2>1. x <= Len(ms) /\ 1 <= x + 1 /\ x - 1 + 1 = x /\ 1 \in Nat \ {0}
    BY <1>1
  <2>2. IsSeq(hs) /\ Len(hs) = x - 1 + 1 /\ \A i \in 1..(x - 1 + 1) : hs[i] = ms[1 + i - 1]
    BY <1>1, <2>1, SubSeqIs
  <2>3. \A i \in 1..x : 1 + i - 1 = i
    OBVIOUS
  <2>. QED
    BY <2>1, <2>2, <2>3
<1>4. IsSeq(es) /\ Len(es) = y /\ \A i \in 1..y : es[i] = ms[x + i]
  <2>. HIDE DEF x, y
  <2>1. /\ x + 1 \in Nat \ {0} /\ Len(ms) \in Nat /\ Len(ms) <= Len(ms) /\ x + 1 <= Len(ms) + 1
        /\ Len(ms) - (x + 1) + 1 = y
    BY <1>1
  <2>2. /\ IsSeq(es) /\ Len(es) = Len(ms) - (x + 1) + 1
        /\ \A i \in 1..(Len(ms) - (x + 1) + 1) : es[i] = ms[(x + 1) + i - 1]
    BY <2>1, SubSeqIs
  <2>3. \A i \in 1..y : (x + 1) + i - 1 = x + i
    BY <1>1
  <2>4. \A i \in 1..y : es[i] = ms[x + i]
    BY <2>1, <2>2, <2>3
  <2>. QED
    BY <2>1, <2>2, <2>4
<1>. HIDE DEF hs, es, x, y
<1>5. w.hops = hs /\ w.e2e = es /\ w.pending = oc.pending
  BY <1>2
<1>6. OriginOK(w)
  BY <1>2, <1>3, <1>4, <1>5 DEF OriginOK
<1>7. Layers(w) = ms
  <2>0. /\ IsSeq(hs \o es) /\ Len(hs \o es) = Len(hs) + Len(es)
        /\ \A i \in 1..Len(hs) : (hs \o es)[i] = hs[i]
        /\ \A i \in 1..Len(es) : (hs \o es)[Len(hs) + i] = es[i]
    <3>1. IsSeq(hs) /\ IsSeq(es)
      BY <1>3, <1>4
    <3>. QED
      BY ONLY <3>1, ConcatIs
  <2>1. /\ IsSeq(hs \o es) /\ Len(hs \o es) = x + y
        /\ \A i \in 1..x : (hs \o es)[i] = hs[i]
    BY ONLY <2>0, <1>3, <1>4
  <2>2. \A i \in 1..y : (hs \o es)[x + i] = es[i]
    BY ONLY <2>0, <1>3, <1>4
  <2>3. ASSUME NEW i \in 1..Len(ms) PROVE (hs \o es)[i] = ms[i]
    <3>1. CASE i \in 1..x
      BY <3>1, <2>1, <1>3
    <3>2. CASE i \notin 1..x
      <4>1. i - x \in 1..y /\ x + (i - x) = i
        BY <3>2, <1>1
      <4>2. (hs \o es)[x + (i - x)] = es[i - x] /\ es[i - x] = ms[x + (i - x)]
        BY <4>1, <2>2, <1>4
      <4>. QED
        BY <4>1, <4>2
    <3>. QED
      BY <3>1, <3>2
  <2>4. hs \o es = ms
    <3>1. Len(hs \o es) = Len(ms) /\ IsSeq(hs \o es)
      BY <2>1, <1>1
    <3>2. \A i \in 1..Len(hs \o es) : (hs \o es)[i] = ms[i]
      BY <2>3, <3>1
    <3>. QED
      BY <3>1, <3>2, SeqEq
  <2>. QED
    BY <2>4, <1>5 DEF Layers
<1>. QED
  BY <1>3, <1>4, <1>5, <1>6, <1>7 DEF x, y

-----------------------------------------------------------------------------
(* A way of legs. *)

\* The turn of the next cell hop i of a way takes up; the first leg is fed until top.
OutTurn(G, top, R, i) == IF i = 0 THEN top ELSE R[i].fn + G[i].o

\* Away from an origin that has sealed N cells, m of its hops being relays: each relay
\* has heard what it was sent, and each leg holds what one relay has passed and the
\* next has not.
OutWay(G, m, N, top, R, Q) ==
  /\ top \in Nat /\ top <= N
  /\ \A i \in 1..m :
       /\ R[i].fn \in Nat /\ OutTurn(G, top, R, i) <= N
       /\ R[i].fn > 0 => OutTurn(G, top, R, i) <= OutTurn(G, top, R, i - 1)
       /\ Heard(G, i, R[i].fn, R[i].fd)
       /\ Run(G, Q[i], i, OutTurn(G, top, R, i), OutTurn(G, top, R, i - 1))

\* Back to an origin that has met w cells: what a relay has sent and the one before it
\* has not passed; the last leg is fed until top.
BackTurn(G, w, R, i) == IF i = 0 THEN w ELSE R[i].bn + G[i].o
BackFed(G, m, top, R, i) == IF i = m THEN top ELSE R[i].bn + G[i].o
BackWay(G, m, w, top, R, Q) ==
  /\ w \in Nat /\ top \in Nat /\ top <= BackTurn(G, w, R, m)
  /\ \A i \in 1..m :
       /\ R[i].bn \in Nat
       /\ BackTurn(G, w, R, i - 1) <= BackFed(G, m, top, R, i)
       /\ Run(G, Q[i], i, BackTurn(G, w, R, i - 1), BackFed(G, m, top, R, i))

\* What two tasks hold of the cells of the turns a to b - 1.
HeldOne(G, j, s, x, a, b) ==
  x # <<>> =>
    /\ x = <<[cell |-> x[1].cell, turn |-> x[1].turn]>>
    /\ x[1].turn \in Nat /\ a <= x[1].turn + s /\ x[1].turn + s < b
    /\ CellOK(G, x[1].cell, j, x[1].turn + s)
HeldOK(G, j, s, x, y, a, b) ==
  /\ HeldOne(G, j, s, x, a, b) /\ HeldOne(G, j, s, y, a, b)
  /\ x # <<>> /\ y # <<>> => x[1].turn # y[1].turn

\* The cells that the last hop of a chain has been sent are all in its log.
Full(G, N) ==
  /\ LogsFull(G)
  /\ Len(G) > 0 => G[1].o = 0 /\ Len(G[Len(G)].d) = N - G[Len(G)].o + 1

\* What a hop has heard does not change when more is said.
LEMMA HeardKeeps ==
  ASSUME NEW G, NEW H, NEW N \in Nat, NEW i \in 1..Len(G), NEW r \in Nat, NEW fd,
         ChainOK(G), ChainOK(H), Full(G, N), LogsFull(H), Grows(G, H, N),
         r + G[i].o <= N, Heard(G, i, r, fd)
  PROVE  Heard(H, i, r, fd)
<1>1. /\ Len(G) \in Nat /\ Len(H) \in Nat /\ Len(G) <= Len(H) /\ i \in 1..Len(H)
      /\ G[i].o \in Nat /\ IsSeq(G[i].d) /\ IsSeq(H[i].d) /\ Len(G[i].d) \in Nat /\ Len(H[i].d) \in Nat
  <2>1. Len(G) \in Nat /\ Len(H) \in Nat /\ Len(G) <= Len(H)
    BY IsSeqShape DEF ChainOK, Grows
  <2>2. i \in 1..Len(H)
    BY <2>1
  <2>3. G[i].o \in Nat /\ IsSeq(G[i].d) /\ IsSeq(H[i].d)
    BY <2>2 DEF ChainOK
  <2>. QED
    BY <2>1, <2>2, <2>3, IsSeqShape
<1>2. /\ H[i].o = G[i].o /\ Len(G[i].d) <= Len(H[i].d) /\ \A q \in 1..Len(G[i].d) : H[i].d[q] = G[i].d[q]
  BY DEF Grows
<1>3. CASE i < Len(G)
  <2>1. i + 1 \in 1..Len(G) /\ i + 1 \in 1..Len(H) /\ i < Len(H)
    BY <1>1, <1>3
  <2>2. H[i + 1].o = G[i + 1].o
    BY <2>1 DEF Grows
  <2>3. Len(G[i].d) = G[i + 1].o - G[i].o + 1
    BY <1>3 DEF Full, LogsFull
  <2>4. Len(H[i].d) = H[i + 1].o - H[i].o + 1
    BY <2>1, <1>1 DEF LogsFull
  <2>5. Len(H[i].d) = Len(G[i].d)
    BY <2>2, <2>3, <2>4, <1>2
  <2>6. H[i].d = G[i].d
    BY <2>5, <1>1, <1>2, SeqEq
  <2>. QED
    BY <1>3, <2>1, <2>2, <2>6, <1>2 DEF Heard
<1>4. CASE ~(i < Len(G))
  <2>1. i = Len(G)
    BY <1>1, <1>4
  <2>2. fd = Upto(G[i].d, r + 1)
    BY <1>4 DEF Heard
  <2>3. Len(G[i].d) = N - G[i].o + 1
    BY <2>1, <1>1 DEF Full
  <2>4. r + 1 \in Nat /\ r + 1 <= Len(G[i].d)
    <3>1. \A a, b, c \in Nat : a + b <= c => a + 1 <= c - b + 1 /\ a + 1 \in Nat
      OBVIOUS
    <3>2. r \in Nat /\ G[i].o \in Nat /\ N \in Nat /\ r + G[i].o <= N
      BY <1>1
    <3>3. r + 1 <= N - G[i].o + 1 /\ r + 1 \in Nat
      BY ONLY <3>1, <3>2
    <3>. QED
      BY ONLY <2>3, <3>3
  <2>5. Upto(H[i].d, r + 1) = Upto(G[i].d, r + 1)
    <3>1. \A q \in 1..(r + 1) : q \in 1..Len(G[i].d)
      BY <2>4, <1>1
    <3>2. \A q \in 1..(r + 1) : H[i].d[q] = G[i].d[q]
      BY <3>1, <1>2
    <3>. QED
      BY <2>4, <3>2, UptoSame
  <2>6. ~(i < Len(H) /\ r > H[i + 1].o - H[i].o)
    <3>1. SUFFICES ASSUME i < Len(H) PROVE ~(r > H[i + 1].o - H[i].o)
      OBVIOUS
    <3>2. N <= H[i + 1].o /\ H[i + 1].o \in Nat
      <4>1. i + 1 \in 1..Len(H)
        BY <3>1, <1>1
      <4>. QED
        BY <4>1, <2>1, <3>1 DEF Grows, ChainOK
    <3>3. \A x, y, z \in Nat : x + z <= N /\ N <= y => ~(x > y - z)
      OBVIOUS
    <3>. QED
      BY <3>2, <3>3, <1>1, <1>2
  <2>. QED
    BY <2>2, <2>5, <2>6 DEF Heard
<1>. QED
  BY <1>3, <1>4

\* More is sealed, or a hop is added.
LEMMA OutGrows ==
  ASSUME NEW G, NEW H, NEW m \in Nat, NEW N \in Nat, NEW P \in Nat, NEW top, NEW R, NEW Q,
         ChainOK(G), ChainOK(H), Full(G, N), LogsFull(H), Grows(G, H, N), N <= P, m <= Len(G),
         OutWay(G, m, N, top, R, Q)
  PROVE  OutWay(H, m, P, top, R, Q)
<1>0. top \in Nat /\ Len(G) \in Nat
  BY IsSeqShape DEF OutWay, ChainOK
<1>1. ASSUME NEW i \in 0..m PROVE OutTurn(H, top, R, i) = OutTurn(G, top, R, i)
  <2>1. i # 0 => i \in 1..Len(G)
    BY <1>0
  <2>2. i # 0 => H[i].o = G[i].o
    BY <2>1 DEF Grows
  <2>. QED
    BY <2>2 DEF OutTurn
<1>2. ASSUME NEW i \in 1..m
      PROVE  /\ R[i].fn \in Nat /\ OutTurn(H, top, R, i) <= P
             /\ R[i].fn > 0 => OutTurn(H, top, R, i) <= OutTurn(H, top, R, i - 1)
             /\ Heard(H, i, R[i].fn, R[i].fd)
             /\ Run(H, Q[i], i, OutTurn(H, top, R, i), OutTurn(H, top, R, i - 1))
  <2>i. i \in 0..m /\ i - 1 \in 0..m /\ i \in 1..Len(G) /\ i \in Nat \ {0}
    BY <1>0
  <2>0. OutTurn(H, top, R, i) = OutTurn(G, top, R, i) /\ OutTurn(H, top, R, i - 1) = OutTurn(G, top, R, i - 1)
    BY <2>i, <1>1
  <2>1. /\ R[i].fn \in Nat /\ OutTurn(G, top, R, i) <= N
        /\ R[i].fn > 0 => OutTurn(G, top, R, i) <= OutTurn(G, top, R, i - 1)
        /\ Heard(G, i, R[i].fn, R[i].fd)
        /\ Run(G, Q[i], i, OutTurn(G, top, R, i), OutTurn(G, top, R, i - 1))
    BY DEF OutWay
  <2>2. OutTurn(G, top, R, i) = R[i].fn + G[i].o /\ G[i].o \in Nat
    BY <2>i DEF OutTurn, ChainOK
  <2>3. OutTurn(G, top, R, i - 1) \in Int /\ OutTurn(G, top, R, i - 1) <= N
    <3>1. CASE i = 1
      BY <3>1, <1>0 DEF OutTurn, OutWay
    <3>2. CASE i # 1
      <4>1. i - 1 \in 1..m /\ i - 1 \in 1..Len(G)
        BY <3>2, <1>0
      <4>2. R[i - 1].fn \in Nat /\ OutTurn(G, top, R, i - 1) <= N /\ G[i - 1].o \in Nat
        BY <4>1 DEF OutWay, ChainOK
      <4>3. OutTurn(G, top, R, i - 1) = R[i - 1].fn + G[i - 1].o
        BY <4>1 DEF OutTurn
      <4>. QED
        BY <4>2, <4>3
    <3>. QED
      BY <3>1, <3>2
  <2>4. Heard(H, i, R[i].fn, R[i].fd)
    BY <2>i, <2>1, <2>2, HeardKeeps
  <2>5. OutTurn(G, top, R, i) \in Int
    BY <2>1, <2>2
  <2>6. Grows(G, H, OutTurn(G, top, R, i - 1))
    <3>1. Len(G) < Len(H) => N <= H[Len(G) + 1].o /\ H[Len(G) + 1].o \in Nat
      <4>1. Len(H) \in Nat
        BY IsSeqShape DEF ChainOK
      <4>2. Len(G) < Len(H) => Len(G) + 1 \in 1..Len(H)
        BY <4>1, <1>0
      <4>. QED
        BY <4>2 DEF Grows, ChainOK
    <3>2. Len(G) < Len(H) => OutTurn(G, top, R, i - 1) <= H[Len(G) + 1].o
      BY <3>1, <2>3
    <3>. QED
      BY <3>2 DEF Grows
  <2>7. Run(H, Q[i], i, OutTurn(G, top, R, i), OutTurn(G, top, R, i - 1))
    BY <2>i, <2>1, <2>3, <2>5, <2>6, RunKeeps
  <2>8. OutTurn(G, top, R, i) <= P
    BY <2>1, <2>5
  <2>. QED
    BY <2>0, <2>1, <2>4, <2>7, <2>8
<1>3. top <= P
  BY <1>0 DEF OutWay
<1>. QED
  BY <1>0, <1>2, <1>3 DEF OutWay

\* What a way says of one of its hops.
OutHop(G, N, top, R, Q, i) ==
  /\ R[i].fn \in Nat /\ OutTurn(G, top, R, i) <= N
  /\ R[i].fn > 0 => OutTurn(G, top, R, i) <= OutTurn(G, top, R, i - 1)
  /\ Heard(G, i, R[i].fn, R[i].fd)
  /\ Run(G, Q[i], i, OutTurn(G, top, R, i), OutTurn(G, top, R, i - 1))

LEMMA OutTurns ==
  ASSUME NEW G, NEW m \in Nat, NEW N \in Nat, NEW top, NEW R, NEW Q, ChainOK(G), m <= Len(G),
         OutWay(G, m, N, top, R, Q)
  PROVE  /\ \A i \in 0..m : OutTurn(G, top, R, i) \in Nat /\ OutTurn(G, top, R, i) <= N
         /\ \A i \in 1..m : /\ OutHop(G, N, top, R, Q, i) /\ G[i].o \in Nat
                            /\ OutTurn(G, top, R, i) = R[i].fn + G[i].o
         /\ OutTurn(G, top, R, 0) = top
<1>1. Len(G) \in Nat /\ top \in Nat /\ top <= N
  BY IsSeqShape DEF ChainOK, OutWay
<1>2. OutTurn(G, top, R, 0) = top
  BY DEF OutTurn
<1>3. ASSUME NEW i \in 1..m
      PROVE  OutHop(G, N, top, R, Q, i) /\ G[i].o \in Nat /\ OutTurn(G, top, R, i) = R[i].fn + G[i].o
  <2>1. i \in 1..Len(G) /\ i # 0
    BY <1>1
  <2>2. G[i].o \in Nat
    BY <2>1 DEF ChainOK
  <2>3. OutTurn(G, top, R, i) = R[i].fn + G[i].o
    BY <2>1 DEF OutTurn
  <2>. QED
    BY <2>2, <2>3 DEF OutWay, OutHop
<1>4. ASSUME NEW i \in 0..m PROVE OutTurn(G, top, R, i) \in Nat /\ OutTurn(G, top, R, i) <= N
  <2>1. CASE i = 0
    BY <1>1, <1>2, <2>1
  <2>2. CASE i # 0
    <3>1. i \in 1..m
      BY <2>2
    <3>2. OutHop(G, N, top, R, Q, i) /\ G[i].o \in Nat /\ OutTurn(G, top, R, i) = R[i].fn + G[i].o
      BY <3>1, <1>3
    <3>3. R[i].fn \in Nat /\ OutTurn(G, top, R, i) <= N
      BY <3>2 DEF OutHop
    <3>. QED
      BY <3>2, <3>3
  <2>. QED
    BY <2>1, <2>2
<1>. QED
  BY <1>2, <1>3, <1>4

LEMMA OutPush ==
  ASSUME NEW G, NEW m \in Nat, m >= 1, NEW N \in Nat, NEW top, NEW R, NEW Q, NEW Q2, NEW c,
         ChainOK(G), m <= Len(G), G[1].o = 0, top + 1 <= N, OutWay(G, m, N, top, R, Q),
         CellOK(G, c, 1, top), Q2[1] = Append(Q[1], c), \A i \in 2..m : Q2[i] = Q[i]
  PROVE  OutWay(G, m, N, top + 1, R, Q2)
<1>1. /\ \A i \in 0..m : OutTurn(G, top, R, i) \in Nat /\ OutTurn(G, top, R, i) <= N
      /\ \A i \in 1..m : OutHop(G, N, top, R, Q, i) /\ G[i].o \in Nat /\ OutTurn(G, top, R, i) = R[i].fn + G[i].o
      /\ OutTurn(G, top, R, 0) = top
  BY OutTurns
<1>2. top \in Nat /\ OutTurn(G, top + 1, R, 0) = top + 1
  BY DEF OutWay, OutTurn
<1>3. ASSUME NEW i \in 1..m PROVE OutTurn(G, top + 1, R, i) = OutTurn(G, top, R, i)
  BY DEF OutTurn
<1>4. ASSUME NEW i \in 1..m PROVE OutHop(G, N, top + 1, R, Q2, i)
  <2>1. OutHop(G, N, top, R, Q, i) /\ OutTurn(G, top + 1, R, i) = OutTurn(G, top, R, i)
    BY <1>1, <1>3
  <2>2. CASE i = 1
    <3>1. OutHop(G, N, top, R, Q, 1) /\ OutTurn(G, top + 1, R, 1) = OutTurn(G, top, R, 1) /\ 1 - 1 = 0 /\ 1 \in 0..m
      BY <2>1, <2>2
    <3>2. OutTurn(G, top, R, 1) \in Nat /\ OutTurn(G, top, R, 1) = R[1].fn /\ R[1].fn \in Nat
      <4>1. R[1].fn \in Nat
        BY <3>1 DEF OutHop
      <4>2. OutTurn(G, top, R, 1) = R[1].fn + G[1].o /\ G[1].o = 0
        BY <1>1, <2>2
      <4>. QED
        BY ONLY <4>1, <4>2
    <3>3. OutTurn(G, top, R, 1) <= top
      BY <3>1, <3>2, <1>1, <1>2 DEF OutHop
    <3>4. Run(G, Q[1], 1, OutTurn(G, top, R, 1), top)
      BY <3>1, <1>1 DEF OutHop
    <3>5. Run(G, Q2[1], 1, OutTurn(G, top, R, 1), top + 1)
      BY <3>2, <3>3, <3>4, <1>2, RunPush
    <3>6. OutTurn(G, top + 1, R, 1) <= top + 1
      BY <3>1, <3>2, <3>3, <1>2
    <3>7. Run(G, Q2[1], 1, OutTurn(G, top + 1, R, 1), OutTurn(G, top + 1, R, 1 - 1))
      BY <3>1, <3>5, <1>2
    <3>8. R[1].fn > 0 => OutTurn(G, top + 1, R, 1) <= OutTurn(G, top + 1, R, 1 - 1)
      BY <3>1, <3>6, <1>2
    <3>9. R[1].fn \in Nat /\ OutTurn(G, top + 1, R, 1) <= N /\ Heard(G, 1, R[1].fn, R[1].fd)
      BY <3>1 DEF OutHop
    <3>. QED
      BY <2>2, <3>7, <3>8, <3>9 DEF OutHop
  <2>3. CASE i # 1
    <3>1. i - 1 \in 1..m /\ i \in 2..m
      BY <2>3
    <3>2. OutTurn(G, top + 1, R, i - 1) = OutTurn(G, top, R, i - 1) /\ Q2[i] = Q[i]
      BY <3>1, <1>3
    <3>. QED
      BY <2>1, <3>2 DEF OutHop
  <2>. QED
    BY <2>2, <2>3
<1>5. top + 1 \in Nat
  BY <1>2
<1>. QED
  BY <1>4, <1>5 DEF OutWay, OutHop

\* Where a way reads of its hops, and what it reads.
LEMMA OutFrame ==
  ASSUME NEW G, NEW m \in Nat, NEW N, NEW top, NEW R, NEW Q, NEW R2, NEW Q2,
         OutWay(G, m, N, top, R, Q),
         \A i \in 1..m : R2[i].fn = R[i].fn /\ R2[i].fd = R[i].fd /\ Q2[i] = Q[i]
  PROVE  OutWay(G, m, N, top, R2, Q2)
<1>1. ASSUME NEW i \in 0..m PROVE OutTurn(G, top, R2, i) = OutTurn(G, top, R, i)
  BY DEF OutTurn
<1>2. ASSUME NEW i \in 1..m PROVE OutHop(G, N, top, R2, Q2, i)
  <2>1. OutHop(G, N, top, R, Q, i)
    BY DEF OutWay, OutHop
  <2>2. i \in 0..m /\ i - 1 \in 0..m
    OBVIOUS
  <2>3. OutTurn(G, top, R2, i) = OutTurn(G, top, R, i) /\ OutTurn(G, top, R2, i - 1) = OutTurn(G, top, R, i - 1)
    BY <2>2, <1>1
  <2>. QED
    BY <2>1, <2>3 DEF OutHop
<1>. QED
  BY <1>2 DEF OutWay, OutHop

\* A relay takes the next cell up: it is for the relay, or it goes on to the next.
OutTaken(G, m, R, Q, R2, Q2, i, T) ==
  /\ R2[i].fn = R[i].fn + 1 /\ Heard(G, i, R[i].fn + 1, R2[i].fd)
  /\ Q2[i] = Tail(Q[i])
  /\ \A j \in 1..m : j # i => R2[j].fn = R[j].fn /\ R2[j].fd = R[j].fd
  /\ \A j \in 1..m : j # i /\ j # i + 1 => Q2[j] = Q[j]
  /\ i < m => \/ T < G[i + 1].o /\ Q2[i + 1] = Q[i + 1]
              \/ G[i + 1].o <= T /\ \E P : CellOK(G, P, i + 1, T) /\ Q2[i + 1] = Append(Q[i + 1], P)

LEMMA OutTake ==
  ASSUME NEW G, NEW m \in Nat, NEW N \in Nat, NEW top, NEW R, NEW Q, NEW R2, NEW Q2, NEW i \in 1..m, NEW T,
         ChainOK(G), m <= Len(G), OutWay(G, m, N, top, R, Q), Q[i] # <<>>,
         T = OutTurn(G, top, R, i), OutTaken(G, m, R, Q, R2, Q2, i, T)
  PROVE  OutWay(G, m, N, top, R2, Q2) /\ CellOK(G, Head(Q[i]), i, T) /\ T \in Nat /\ T < N
<1>1. /\ \A j \in 0..m : OutTurn(G, top, R, j) \in Nat /\ OutTurn(G, top, R, j) <= N
      /\ \A j \in 1..m : OutHop(G, N, top, R, Q, j) /\ G[j].o \in Nat /\ OutTurn(G, top, R, j) = R[j].fn + G[j].o
      /\ OutTurn(G, top, R, 0) = top
  BY OutTurns
<1>i. i \in 0..m /\ i - 1 \in 0..m /\ i \in Nat
  OBVIOUS
<1>. DEFINE u == OutTurn(G, top, R, i - 1)
<1>2. T \in Nat /\ u \in Nat /\ u <= N /\ Run(G, Q[i], i, T, u)
  BY <1>1, <1>i DEF OutHop
<1>. HIDE DEF u
<1>3. T < u /\ CellOK(G, Head(Q[i]), i, T) /\ Run(G, Tail(Q[i]), i, T + 1, u)
  <2>1. T \in Int /\ u \in Int /\ Q[i] # <<>>
    BY <1>2
  <2>. QED
    BY <2>1, <1>2, RunPop
<1>4. /\ R[i].fn \in Nat /\ R2[i].fn = R[i].fn + 1 /\ Heard(G, i, R[i].fn + 1, R2[i].fd) /\ Q2[i] = Tail(Q[i])
  BY <1>1 DEF OutTaken, OutHop
<1>5. OutTurn(G, top, R2, i) = T + 1
  <2>1. OutTurn(G, top, R2, i) = R2[i].fn + G[i].o /\ T = R[i].fn + G[i].o /\ G[i].o \in Nat
    BY <1>1 DEF OutTurn
  <2>2. \A x, y \in Nat : (x + 1) + y = (x + y) + 1
    OBVIOUS
  <2>3. R[i].fn \in Nat /\ R2[i].fn = R[i].fn + 1
    BY <1>4
  <2>. QED
    BY ONLY <2>1, <2>2, <2>3
<1>6. ASSUME NEW j \in 0..m, j # i PROVE OutTurn(G, top, R2, j) = OutTurn(G, top, R, j)
  <2>1. j # 0 => j \in 1..m
    OBVIOUS
  <2>2. j # 0 => R2[j].fn = R[j].fn
    BY <2>1, <1>6 DEF OutTaken
  <2>. QED
    BY <2>2 DEF OutTurn
<1>7. OutHop(G, N, top, R2, Q2, i)
  <2>1. OutTurn(G, top, R2, i - 1) = u
    <3>1. i - 1 # i
      OBVIOUS
    <3>. QED
      BY <3>1, <1>i, <1>6 DEF u
  <2>2. R2[i].fn \in Nat /\ T + 1 <= u /\ T + 1 <= N
    BY <1>2, <1>3, <1>4
  <2>. QED
    BY <1>3, <1>4, <1>5, <2>1, <2>2 DEF OutHop
<1>8. ASSUME i < m PROVE OutHop(G, N, top, R2, Q2, i + 1)
  <2>0. i + 1 \in 1..m /\ i + 1 \in 0..m /\ i + 1 # i /\ (i + 1) - 1 = i
    BY <1>8
  <2>1. /\ OutHop(G, N, top, R, Q, i + 1) /\ OutTurn(G, top, R2, i + 1) = OutTurn(G, top, R, i + 1)
        /\ OutTurn(G, top, R, i + 1) \in Nat /\ G[i + 1].o \in Nat
        /\ OutTurn(G, top, R, i + 1) = R[i + 1].fn + G[i + 1].o
    BY <2>0, <1>1, <1>6
  <2>. DEFINE v == OutTurn(G, top, R, i + 1)
              o == G[i + 1].o
  <2>2. /\ R[i + 1].fn \in Nat /\ v <= N /\ (R[i + 1].fn > 0 => v <= T)
        /\ Heard(G, i + 1, R[i + 1].fn, R[i + 1].fd) /\ Run(G, Q[i + 1], i + 1, v, T)
    BY <2>0, <2>1 DEF OutHop
  <2>3. R2[i + 1].fn = R[i + 1].fn /\ R2[i + 1].fd = R[i + 1].fd
    BY <2>0 DEF OutTaken
  <2>4. v \in Nat /\ o \in Nat /\ v = R[i + 1].fn + o
    BY <2>1
  <2>. HIDE DEF v, o
  <2>5. R[i + 1].fn > 0 => v <= T + 1
    BY <2>2, <2>4, <1>2
  <2>6. Run(G, Q2[i + 1], i + 1, v, T + 1)
    <3>1. CASE T < o /\ Q2[i + 1] = Q[i + 1]
      <4>1. T + 1 <= v /\ T <= v
        BY <3>1, <2>4, <2>2, <1>2
      <4>2. Q[i + 1] = <<>>
        BY <4>1, <2>2, <2>4, <1>2, RunEmpty
      <4>. QED
        BY <4>1, <4>2, <3>1, <2>4, <1>2, RunNone
    <3>2. CASE o <= T /\ \E P : CellOK(G, P, i + 1, T) /\ Q2[i + 1] = Append(Q[i + 1], P)
      <4>1. PICK P : CellOK(G, P, i + 1, T) /\ Q2[i + 1] = Append(Q[i + 1], P)
        BY <3>2
      <4>2. v <= T
        BY <3>2, <2>4, <2>2, <1>2
      <4>. QED
        BY <4>1, <4>2, <2>2, <2>4, <1>2, RunPush
    <3>3. \/ T < o /\ Q2[i + 1] = Q[i + 1]
          \/ o <= T /\ \E P : CellOK(G, P, i + 1, T) /\ Q2[i + 1] = Append(Q[i + 1], P)
      BY <1>8 DEF OutTaken, o
    <3>. QED
      BY <3>1, <3>2, <3>3
  <2>7. OutTurn(G, top, R2, i + 1) = v /\ OutTurn(G, top, R2, (i + 1) - 1) = T + 1
    BY <2>0, <2>1, <1>5 DEF v
  <2>. QED
    BY <2>2, <2>3, <2>5, <2>6, <2>7 DEF OutHop
<1>9. ASSUME NEW j \in 1..m, j # i, j # i + 1 PROVE OutHop(G, N, top, R2, Q2, j)
  <2>0. j \in 0..m /\ j - 1 \in 0..m /\ j - 1 # i
    BY <1>9
  <2>1. OutHop(G, N, top, R, Q, j) /\ OutTurn(G, top, R2, j) = OutTurn(G, top, R, j)
        /\ OutTurn(G, top, R2, j - 1) = OutTurn(G, top, R, j - 1)
    BY <2>0, <1>1, <1>6, <1>9
  <2>2. R2[j].fn = R[j].fn /\ R2[j].fd = R[j].fd /\ Q2[j] = Q[j]
    BY <1>9 DEF OutTaken
  <2>. QED
    BY <2>1, <2>2 DEF OutHop
<1>10. ASSUME NEW j \in 1..m PROVE OutHop(G, N, top, R2, Q2, j)
  <2>1. j = i + 1 => i < m
    OBVIOUS
  <2>. QED
    BY <2>1, <1>7, <1>8, <1>9
<1>11. OutWay(G, m, N, top, R2, Q2)
  BY <1>10 DEF OutWay, OutHop
<1>. QED
  BY <1>2, <1>3, <1>11

\* A new hop, which has been sent nothing.
LEMMA OutExtend ==
  ASSUME NEW G, NEW m \in Nat, NEW N \in Nat, NEW top, NEW R, NEW Q, NEW R2, NEW Q2,
         ChainOK(G), m + 1 <= Len(G), G[m + 1].o = N, OutWay(G, m, N, top, R, Q),
         \A i \in 1..m : R2[i].fn = R[i].fn /\ R2[i].fd = R[i].fd /\ Q2[i] = Q[i],
         R2[m + 1].fn = 0, Heard(G, m + 1, 0, R2[m + 1].fd), Q2[m + 1] = <<>>
  PROVE  OutWay(G, m + 1, N, top, R2, Q2)
<1>1. OutWay(G, m, N, top, R2, Q2)
  BY OutFrame
<1>2. Len(G) \in Nat
  BY IsSeqShape DEF ChainOK
<1>3. OutTurn(G, top, R2, m) \in Nat /\ OutTurn(G, top, R2, m) <= N
  <2>1. m <= Len(G) /\ m \in 0..m
    BY <1>2
  <2>. QED
    BY <2>1, <1>1, OutTurns
<1>4. OutTurn(G, top, R2, m + 1) = N
  BY DEF OutTurn
<1>5. OutHop(G, N, top, R2, Q2, m + 1)
  <2>1. (m + 1) - 1 = m /\ 0 \in Nat /\ ~(0 > 0) /\ N <= N
    OBVIOUS
  <2>2. Run(G, <<>>, m + 1, N, OutTurn(G, top, R2, m))
    BY <1>3, RunNone
  <2>. QED
    BY <1>4, <2>1, <2>2 DEF OutHop
<1>6. ASSUME NEW i \in 1..(m + 1) PROVE OutHop(G, N, top, R2, Q2, i)
  <2>1. i \in 1..m \/ i = m + 1
    OBVIOUS
  <2>. QED
    BY <2>1, <1>1, <1>5 DEF OutWay, OutHop
<1>. QED
  BY <1>1, <1>6 DEF OutWay, OutHop

\* What climbs from each to the next climbs from any to any later.
LEMMA Climbs ==
  ASSUME NEW f, NEW m \in Nat, \A i \in 0..m : f[i] \in Int, \A i \in 1..m : f[i - 1] <= f[i],
         NEW a \in 0..m, NEW b \in 0..m, a <= b
  PROVE  f[a] <= f[b]
<1>. DEFINE A == {d \in Nat : a + d <= m => f[a] <= f[a + d]}
<1>1. 0 \in A
  <2>1. a + 0 = a /\ f[a] <= f[a]
    OBVIOUS
  <2>. QED
    BY <2>1
<1>2. ASSUME NEW d \in A PROVE d + 1 \in A
  <2>1. SUFFICES ASSUME a + (d + 1) <= m PROVE f[a] <= f[a + (d + 1)]
    OBVIOUS
  <2>2. a + d <= m /\ a + (d + 1) \in 1..m /\ (a + (d + 1)) - 1 = a + d /\ a + d \in 0..m /\ a + (d + 1) \in 0..m
    BY <2>1
  <2>3. f[a] <= f[a + d]
    BY <2>2
  <2>4. f[a + d] <= f[a + (d + 1)]
    BY <2>2
  <2>5. f[a] \in Int /\ f[a + d] \in Int /\ f[a + (d + 1)] \in Int
    BY <2>2
  <2>. QED
    BY <2>3, <2>4, <2>5
<1>n. A \in SUBSET Nat
  OBVIOUS
<1>. HIDE DEF A
<1>3. A = Nat
  <2>1. \A d \in A : d + 1 \in A
    BY <1>2
  <2>. QED
    BY <2>1, <1>1, <1>n, SetInduction
<1>4. b - a \in A
  <2>1. b - a \in Nat
    OBVIOUS
  <2>. QED
    BY <2>1, <1>3
<1>5. a + (b - a) = b
  OBVIOUS
<1>. QED
  BY <1>4, <1>5 DEF A

\* What a way back says of one of its hops.
BackHop(G, m, w, top, R, Q, i) ==
  /\ R[i].bn \in Nat
  /\ BackTurn(G, w, R, i - 1) <= BackFed(G, m, top, R, i)
  /\ Run(G, Q[i], i, BackTurn(G, w, R, i - 1), BackFed(G, m, top, R, i))

LEMMA BackTurns ==
  ASSUME NEW G, NEW m \in Nat, NEW w, NEW top, NEW R, NEW Q, ChainOK(G), m <= Len(G),
         BackWay(G, m, w, top, R, Q)
  PROVE  /\ w \in Nat /\ top \in Nat /\ top <= BackTurn(G, w, R, m) /\ BackTurn(G, w, R, 0) = w
         /\ \A i \in 0..m : BackTurn(G, w, R, i) \in Nat
         /\ \A i \in 1..m : /\ BackHop(G, m, w, top, R, Q, i) /\ G[i].o \in Nat
                            /\ BackTurn(G, w, R, i) = R[i].bn + G[i].o
                            /\ BackFed(G, m, top, R, i) \in Nat
                            /\ BackFed(G, m, top, R, i) <= BackTurn(G, w, R, i)
         /\ \A i \in 1..m : i # m => BackFed(G, m, top, R, i) = BackTurn(G, w, R, i)
         /\ BackFed(G, m, top, R, m) = top
<1>1. Len(G) \in Nat /\ w \in Nat /\ top \in Nat /\ top <= BackTurn(G, w, R, m) /\ BackTurn(G, w, R, 0) = w
      /\ BackFed(G, m, top, R, m) = top
  BY IsSeqShape DEF ChainOK, BackWay, BackTurn, BackFed
<1>2. ASSUME NEW i \in 1..m
      PROVE  /\ BackHop(G, m, w, top, R, Q, i) /\ G[i].o \in Nat /\ BackTurn(G, w, R, i) = R[i].bn + G[i].o
             /\ BackTurn(G, w, R, i) \in Nat
             /\ i # m => BackFed(G, m, top, R, i) = BackTurn(G, w, R, i)
  <2>1. i \in 1..Len(G) /\ i # 0
    BY <1>1
  <2>2. G[i].o \in Nat
    BY <2>1 DEF ChainOK
  <2>3. R[i].bn \in Nat /\ BackHop(G, m, w, top, R, Q, i)
    BY DEF BackWay, BackHop
  <2>4. BackTurn(G, w, R, i) = R[i].bn + G[i].o
    BY <2>1 DEF BackTurn
  <2>5. i # m => BackFed(G, m, top, R, i) = BackTurn(G, w, R, i)
    BY <2>4 DEF BackFed
  <2>. QED
    BY <2>2, <2>3, <2>4, <2>5
<1>3. ASSUME NEW i \in 0..m PROVE BackTurn(G, w, R, i) \in Nat
  <2>1. i = 0 \/ i \in 1..m
    OBVIOUS
  <2>. QED
    BY <2>1, <1>1, <1>2
<1>4. ASSUME NEW i \in 1..m
      PROVE  BackFed(G, m, top, R, i) \in Nat /\ BackFed(G, m, top, R, i) <= BackTurn(G, w, R, i)
  <2>1. CASE i = m
    BY <2>1, <1>1
  <2>2. CASE i # m
    <3>1. BackFed(G, m, top, R, i) = BackTurn(G, w, R, i) /\ BackTurn(G, w, R, i) \in Nat
      BY <2>2, <1>2
    <3>. QED
      BY <3>1
  <2>. QED
    BY <2>1, <2>2
<1>. QED
  BY <1>1, <1>2, <1>3, <1>4

LEMMA BackClimbs ==
  ASSUME NEW G, NEW m \in Nat, NEW w, NEW top, NEW R, NEW Q, ChainOK(G), m <= Len(G),
         BackWay(G, m, w, top, R, Q), NEW a \in 0..m, NEW b \in 0..m, a <= b
  PROVE  BackTurn(G, w, R, a) <= BackTurn(G, w, R, b)
<1>. DEFINE f == [i \in 0..m |-> BackTurn(G, w, R, i)]
<1>1. \A i \in 0..m : f[i] = BackTurn(G, w, R, i)
  OBVIOUS
<1>. HIDE DEF f
<1>2. \A i \in 0..m : f[i] \in Int
  BY <1>1, BackTurns
<1>3. ASSUME NEW i \in 1..m PROVE f[i - 1] <= f[i]
  <2>1. i \in 0..m /\ i - 1 \in 0..m
    OBVIOUS
  <2>2. /\ BackTurn(G, w, R, i - 1) \in Nat /\ BackTurn(G, w, R, i) \in Nat
        /\ BackHop(G, m, w, top, R, Q, i) /\ BackFed(G, m, top, R, i) \in Nat
        /\ BackFed(G, m, top, R, i) <= BackTurn(G, w, R, i)
    BY <2>1, BackTurns
  <2>3. BackTurn(G, w, R, i - 1) <= BackFed(G, m, top, R, i)
    BY <2>2 DEF BackHop
  <2>4. BackTurn(G, w, R, i - 1) <= BackTurn(G, w, R, i)
    BY <2>2, <2>3
  <2>. QED
    BY <2>1, <2>4, <1>1
<1>4. f[a] <= f[b]
  BY <1>2, <1>3, Climbs
<1>. QED
  BY <1>1, <1>4

LEMMA BackHead ==
  ASSUME NEW G, NEW m \in Nat, NEW w, NEW top, NEW R, NEW Q, ChainOK(G), m <= Len(G),
         BackWay(G, m, w, top, R, Q), NEW i \in 1..m, Q[i] # <<>>
  PROVE  /\ BackTurn(G, w, R, i - 1) < BackFed(G, m, top, R, i)
         /\ CellOK(G, Head(Q[i]), i, BackTurn(G, w, R, i - 1))
         /\ Run(G, Tail(Q[i]), i, BackTurn(G, w, R, i - 1) + 1, BackFed(G, m, top, R, i))
<1>1. BackHop(G, m, w, top, R, Q, i) /\ BackFed(G, m, top, R, i) \in Nat
  BY BackTurns
<1>2. BackTurn(G, w, R, i - 1) \in Nat
  <2>1. i - 1 \in 0..m
    OBVIOUS
  <2>. QED
    BY <2>1, BackTurns
<1>. DEFINE a == BackTurn(G, w, R, i - 1)
            b == BackFed(G, m, top, R, i)
<1>3. a \in Int /\ b \in Int /\ Run(G, Q[i], i, a, b)
  BY <1>1, <1>2 DEF BackHop
<1>. HIDE DEF a, b
<1>4. a < b /\ CellOK(G, Head(Q[i]), i, a) /\ Run(G, Tail(Q[i]), i, a + 1, b)
  BY <1>3, RunPop
<1>. QED
  BY <1>4 DEF a, b

\* The same hops and legs, with more said through them.
LEMMA BackGrows ==
  ASSUME NEW G, NEW H, NEW m \in Nat, NEW w, NEW top, NEW R, NEW Q, NEW R2, NEW Q2,
         ChainOK(G), ChainOK(H), m <= Len(G), Grows(G, H, BackTurn(G, w, R, m)),
         BackWay(G, m, w, top, R, Q), \A i \in 1..m : R2[i].bn = R[i].bn /\ Q2[i] = Q[i]
  PROVE  BackWay(H, m, w, top, R2, Q2)
<1>1. /\ w \in Nat /\ top \in Nat /\ top <= BackTurn(G, w, R, m)
      /\ \A i \in 0..m : BackTurn(G, w, R, i) \in Nat
      /\ \A i \in 1..m : /\ BackHop(G, m, w, top, R, Q, i) /\ BackFed(G, m, top, R, i) \in Nat
                         /\ BackFed(G, m, top, R, i) <= BackTurn(G, w, R, i)
  BY BackTurns
<1>2. Len(G) \in Nat /\ Len(H) \in Nat /\ Len(G) <= Len(H)
  BY IsSeqShape DEF ChainOK, Grows
<1>3. ASSUME NEW i \in 1..m PROVE R2[i].bn + H[i].o = R[i].bn + G[i].o
  <2>1. i \in 1..Len(G)
    BY <1>2
  <2>2. H[i].o = G[i].o
    BY <2>1 DEF Grows
  <2>. QED
    BY <2>2
<1>4. ASSUME NEW i \in 0..m PROVE BackTurn(H, w, R2, i) = BackTurn(G, w, R, i)
  <2>1. i # 0 => i \in 1..m
    OBVIOUS
  <2>. QED
    BY <2>1, <1>3 DEF BackTurn
<1>5. ASSUME NEW i \in 1..m PROVE BackHop(H, m, w, top, R2, Q2, i)
  <2>. DEFINE a == BackTurn(G, w, R, i - 1)
              b == BackFed(G, m, top, R, i)
  <2>0. i \in 0..m /\ i - 1 \in 0..m /\ i \in Nat \ {0} /\ m \in 0..m /\ i <= m
    OBVIOUS
  <2>1. a \in Int /\ b \in Int /\ b <= BackTurn(G, w, R, i) /\ BackTurn(G, w, R, i) \in Nat
    BY <2>0, <1>1
  <2>2. BackTurn(G, w, R, i) <= BackTurn(G, w, R, m) /\ BackTurn(G, w, R, m) \in Nat
    BY <2>0, <1>1, BackClimbs
  <2>3. R[i].bn \in Nat /\ a <= b /\ Run(G, Q[i], i, a, b)
    BY <1>1 DEF BackHop
  <2>4. Grows(G, H, b)
    <3>1. Len(G) < Len(H) => BackTurn(G, w, R, m) <= H[Len(G) + 1].o /\ H[Len(G) + 1].o \in Nat
      <4>1. Len(G) < Len(H) => Len(G) + 1 \in 1..Len(H)
        BY <1>2
      <4>. QED
        BY <4>1 DEF Grows, ChainOK
    <3>2. Len(G) < Len(H) => b <= H[Len(G) + 1].o
      <4>. HIDE DEF b
      <4>. QED
        BY <3>1, <2>1, <2>2
    <3>. HIDE DEF b
    <3>. QED
      BY <3>2 DEF Grows
  <2>5. Run(H, Q[i], i, a, b)
    <3>. HIDE DEF a, b
    <3>. QED
      BY <2>0, <2>1, <2>3, <2>4, RunKeeps
  <2>6. BackTurn(H, w, R2, i - 1) = a /\ BackFed(H, m, top, R2, i) = b
    BY <2>0, <1>3, <1>4 DEF BackFed
  <2>. QED
    BY <2>3, <2>5, <2>6 DEF BackHop
<1>6. BackTurn(H, w, R2, m) = BackTurn(G, w, R, m)
  BY <1>4
<1>. QED
  BY <1>1, <1>5, <1>6 DEF BackWay, BackHop

LEMMA GrowsSame == ASSUME NEW G, ChainOK(G), NEW b PROVE Grows(G, G, b)
<1>1. Len(G) \in Nat /\ \A i \in 1..Len(G) : Len(G[i].d) \in Nat
  BY IsSeqShape DEF ChainOK
<1>2. Len(G) <= Len(G) /\ ~(Len(G) < Len(G)) /\ \A i \in 1..Len(G) : Len(G[i].d) <= Len(G[i].d)
  BY <1>1
<1>. QED
  BY <1>2 DEF Grows

LEMMA BackFrame ==
  ASSUME NEW G, NEW m \in Nat, NEW w, NEW top, NEW R, NEW Q, NEW R2, NEW Q2, ChainOK(G), m <= Len(G),
         BackWay(G, m, w, top, R, Q), \A i \in 1..m : R2[i].bn = R[i].bn /\ Q2[i] = Q[i]
  PROVE  BackWay(G, m, w, top, R2, Q2)
BY GrowsSame, BackGrows

\* A new relay, which has sent nothing.
LEMMA BackExtend ==
  ASSUME NEW G, NEW m \in Nat, NEW w, NEW top, NEW R, NEW Q, NEW R2, NEW Q2, ChainOK(G), m + 1 <= Len(G),
         BackWay(G, m, w, top, R, Q), top = BackTurn(G, w, R, m), G[m + 1].o = top,
         \A i \in 1..m : R2[i].bn = R[i].bn /\ Q2[i] = Q[i], R2[m + 1].bn = 0, Q2[m + 1] = <<>>
  PROVE  BackWay(G, m + 1, w, top, R2, Q2) /\ BackTurn(G, w, R2, m + 1) = top
<1>0. Len(G) \in Nat
  BY IsSeqShape DEF ChainOK
<1>1. m <= Len(G) /\ m \in 0..m /\ m + 1 \in Nat
  BY <1>0
<1>2. BackWay(G, m, w, top, R2, Q2)
  BY <1>1, BackFrame
<1>3. /\ w \in Nat /\ top \in Nat
      /\ \A i \in 0..m : BackTurn(G, w, R2, i) \in Nat
      /\ \A i \in 1..m : /\ BackHop(G, m, w, top, R2, Q2, i)
                         /\ BackFed(G, m, top, R2, i) \in Nat
      /\ \A i \in 1..m : i # m => BackFed(G, m, top, R2, i) = BackTurn(G, w, R2, i)
      /\ BackFed(G, m, top, R2, m) = top
  BY <1>1, <1>2, BackTurns
<1>4. BackTurn(G, w, R2, m) = top
  <2>1. m # 0 => R2[m].bn = R[m].bn
    OBVIOUS
  <2>. QED
    BY <2>1 DEF BackTurn
<1>5. BackTurn(G, w, R2, m + 1) = top
  <2>1. m + 1 # 0 /\ 0 + top = top
    BY <1>3
  <2>. QED
    BY <2>1 DEF BackTurn
<1>6. ASSUME NEW i \in 1..m PROVE BackHop(G, m + 1, w, top, R2, Q2, i)
  <2>1. i # m + 1
    OBVIOUS
  <2>2. BackFed(G, m + 1, top, R2, i) = BackTurn(G, w, R2, i)
    BY <2>1 DEF BackFed, BackTurn
  <2>3. BackFed(G, m + 1, top, R2, i) = BackFed(G, m, top, R2, i)
    BY <2>2, <1>3, <1>4
  <2>. QED
    BY <2>3, <1>3 DEF BackHop
<1>7. BackHop(G, m + 1, w, top, R2, Q2, m + 1)
  <2>1. (m + 1) - 1 = m /\ 0 \in Nat /\ BackFed(G, m + 1, top, R2, m + 1) = top /\ top <= top
    BY <1>3 DEF BackFed
  <2>2. Run(G, <<>>, m + 1, top, top)
    BY <1>3, RunNone
  <2>. QED
    BY <2>1, <2>2, <1>4 DEF BackHop
<1>8. ASSUME NEW i \in 1..(m + 1) PROVE BackHop(G, m + 1, w, top, R2, Q2, i)
  <2>1. i \in 1..m \/ i = m + 1
    OBVIOUS
  <2>. QED
    BY <2>1, <1>6, <1>7
<1>9. BackWay(G, m + 1, w, top, R2, Q2)
  <2>1. top <= BackTurn(G, w, R2, m + 1)
    BY <1>3, <1>5
  <2>. QED
    BY <2>1, <1>3, <1>8 DEF BackWay, BackHop
<1>. QED
  BY <1>5, <1>9

\* The last relay seals a cell, or wraps one; it is queued, then or later.
LEMMA BackSeal ==
  ASSUME NEW G, NEW m \in Nat, m >= 1, NEW w, NEW top, NEW R, NEW Q, NEW R2, ChainOK(G), m <= Len(G),
         BackWay(G, m, w, top, R, Q), \A i \in 1..m : R2[i].bn = IF i = m THEN R[i].bn + 1 ELSE R[i].bn
  PROVE  /\ BackWay(G, m, w, top, R2, Q) /\ BackTurn(G, w, R2, m) = BackTurn(G, w, R, m) + 1
<1>0. m \in 1..m /\ m # 0 /\ m \in 0..m
  OBVIOUS
<1>1. /\ w \in Nat /\ top \in Nat /\ top <= BackTurn(G, w, R, m)
      /\ \A i \in 0..m : BackTurn(G, w, R, i) \in Nat
      /\ \A i \in 1..m : BackHop(G, m, w, top, R, Q, i) /\ G[i].o \in Nat
  BY BackTurns
<1>2. BackTurn(G, w, R2, m) = BackTurn(G, w, R, m) + 1
  <2>1. R[m].bn \in Nat /\ G[m].o \in Nat
    BY <1>0, <1>1 DEF BackHop
  <2>2. BackTurn(G, w, R, m) = R[m].bn + G[m].o /\ BackTurn(G, w, R2, m) = R2[m].bn + G[m].o
    BY <1>0 DEF BackTurn
  <2>3. R2[m].bn = R[m].bn + 1
    BY <1>0
  <2>4. \A x, y \in Nat : (x + 1) + y = (x + y) + 1
    OBVIOUS
  <2>. QED
    BY ONLY <2>1, <2>2, <2>3, <2>4
<1>3. ASSUME NEW i \in 1..m PROVE BackHop(G, m, w, top, R2, Q, i)
  <2>1. BackHop(G, m, w, top, R, Q, i)
    BY <1>1
  <2>2. BackTurn(G, w, R2, i - 1) = BackTurn(G, w, R, i - 1)
    <3>1. i - 1 = 0 \/ (i - 1 \in 1..m /\ i - 1 # m)
      OBVIOUS
    <3>. QED
      BY <3>1 DEF BackTurn
  <2>3. BackFed(G, m, top, R2, i) = BackFed(G, m, top, R, i)
    BY DEF BackFed
  <2>4. R2[i].bn \in Nat
    BY <2>1 DEF BackHop
  <2>. QED
    BY <2>1, <2>2, <2>3, <2>4 DEF BackHop
<1>4. top <= BackTurn(G, w, R2, m)
  <2>1. BackTurn(G, w, R, m) \in Nat
    BY <1>0, <1>1
  <2>. QED
    BY <2>1, <1>1, <1>2
<1>5. BackWay(G, m, w, top, R2, Q)
  BY <1>1, <1>3, <1>4 DEF BackWay, BackHop
<1>. QED
  BY <1>2, <1>5

LEMMA BackPush ==
  ASSUME NEW G, NEW m \in Nat, m >= 1, NEW w, NEW top, NEW R, NEW Q, NEW Q2, NEW c, ChainOK(G), m <= Len(G),
         BackWay(G, m, w, top, R, Q), top + 1 <= BackTurn(G, w, R, m), CellOK(G, c, m, top),
         Q2[m] = Append(Q[m], c), \A i \in 1..m : i # m => Q2[i] = Q[i]
  PROVE  BackWay(G, m, w, top + 1, R, Q2)
<1>0. m \in 1..m /\ m # 0 /\ m \in 0..m /\ m - 1 \in 0..m
  OBVIOUS
<1>1. /\ w \in Nat /\ top \in Nat /\ top <= BackTurn(G, w, R, m)
      /\ \A i \in 0..m : BackTurn(G, w, R, i) \in Nat
      /\ \A i \in 1..m : BackHop(G, m, w, top, R, Q, i) /\ G[i].o \in Nat
      /\ BackFed(G, m, top, R, m) = top
  BY BackTurns
<1>2. ASSUME NEW i \in 1..m, i # m PROVE BackHop(G, m, w, top + 1, R, Q2, i)
  <2>1. BackFed(G, m, top + 1, R, i) = BackFed(G, m, top, R, i) /\ Q2[i] = Q[i]
    BY <1>2 DEF BackFed
  <2>. QED
    BY <2>1, <1>1 DEF BackHop
<1>3. BackHop(G, m, w, top + 1, R, Q2, m)
  <2>. DEFINE a == BackTurn(G, w, R, m - 1)
  <2>1. a \in Nat /\ BackHop(G, m, w, top, R, Q, m)
    BY <1>0, <1>1
  <2>2. a <= top /\ Run(G, Q[m], m, a, top) /\ R[m].bn \in Nat
    BY <2>1, <1>1 DEF BackHop
  <2>. HIDE DEF a
  <2>3. Run(G, Q2[m], m, a, top + 1)
    BY <2>1, <2>2, <1>1, RunPush
  <2>4. a <= top + 1
    BY <2>1, <2>2, <1>1
  <2>5. BackFed(G, m, top + 1, R, m) = top + 1
    BY DEF BackFed
  <2>. QED
    BY <2>2, <2>3, <2>4, <2>5 DEF BackHop, a
<1>4. top + 1 \in Nat
  BY <1>1
<1>5. ASSUME NEW i \in 1..m PROVE BackHop(G, m, w, top + 1, R, Q2, i)
  BY <1>2, <1>3
<1>. QED
  BY <1>1, <1>4, <1>5 DEF BackWay, BackHop

\* A relay passes on what the next has sent.
LEMMA BackPass ==
  ASSUME NEW G, NEW m \in Nat, NEW w, NEW top, NEW R, NEW Q, NEW R2, NEW Q2, NEW i \in 1..m, i < m, NEW P,
         ChainOK(G), m <= Len(G), BackWay(G, m, w, top, R, Q), Q[i + 1] # <<>>,
         CellOK(G, P, i, BackTurn(G, w, R, i)),
         \A j \in 1..m : R2[j].bn = IF j = i THEN R[j].bn + 1 ELSE R[j].bn,
         Q2[i] = Append(Q[i], P), Q2[i + 1] = Tail(Q[i + 1]), \A j \in 1..m : j # i /\ j # i + 1 => Q2[j] = Q[j]
  PROVE  BackWay(G, m, w, top, R2, Q2)
<1>0. i \in 0..m /\ i - 1 \in 0..m /\ i + 1 \in 1..m /\ (i + 1) - 1 = i /\ i # 0 /\ i # m /\ i + 1 # i /\ m # 0
  OBVIOUS
<1>1. /\ w \in Nat /\ top \in Nat /\ top <= BackTurn(G, w, R, m)
      /\ \A j \in 0..m : BackTurn(G, w, R, j) \in Nat
      /\ \A j \in 1..m : /\ BackHop(G, m, w, top, R, Q, j) /\ G[j].o \in Nat
                         /\ BackFed(G, m, top, R, j) \in Nat
      /\ \A j \in 1..m : j # m => BackFed(G, m, top, R, j) = BackTurn(G, w, R, j)
  BY BackTurns
<1>. DEFINE a == BackTurn(G, w, R, i - 1)
            b == BackTurn(G, w, R, i)
            d == BackFed(G, m, top, R, i + 1)
<1>2. /\ a \in Nat /\ b \in Nat /\ d \in Nat /\ BackFed(G, m, top, R, i) = b
      /\ R[i].bn \in Nat /\ R[i + 1].bn \in Nat
      /\ a <= b /\ Run(G, Q[i], i, a, b)
  <2>1. BackHop(G, m, w, top, R, Q, i) /\ BackHop(G, m, w, top, R, Q, i + 1)
    BY <1>0, <1>1
  <2>2. BackFed(G, m, top, R, i) = b
    BY <1>0, <1>1
  <2>. QED
    BY <2>1, <2>2, <1>0, <1>1 DEF BackHop
<1>3. b < d /\ Run(G, Tail(Q[i + 1]), i + 1, b + 1, d)
  <2>1. i + 1 \in 1..m /\ Q[i + 1] # <<>>
    BY <1>0
  <2>2. /\ BackTurn(G, w, R, (i + 1) - 1) < BackFed(G, m, top, R, i + 1)
        /\ Run(G, Tail(Q[i + 1]), i + 1, BackTurn(G, w, R, (i + 1) - 1) + 1, BackFed(G, m, top, R, i + 1))
    BY <2>1, BackHead
  <2>. QED
    BY <2>2, <1>0
<1>4. ASSUME NEW j \in 0..m, j # i PROVE BackTurn(G, w, R2, j) = BackTurn(G, w, R, j)
  <2>1. j = 0 \/ j \in 1..m
    OBVIOUS
  <2>. QED
    BY <2>1, <1>4 DEF BackTurn
<1>5. BackTurn(G, w, R2, i) = b + 1
  <2>1. b = R[i].bn + G[i].o /\ BackTurn(G, w, R2, i) = R2[i].bn + G[i].o
    BY <1>0 DEF BackTurn
  <2>2. R2[i].bn = R[i].bn + 1
    OBVIOUS
  <2>3. R[i].bn \in Nat /\ G[i].o \in Nat
    BY <1>1, <1>2
  <2>4. \A x, y \in Nat : (x + 1) + y = (x + y) + 1
    OBVIOUS
  <2>. HIDE DEF b
  <2>. QED
    BY ONLY <2>1, <2>2, <2>3, <2>4
<1>6. ASSUME NEW j \in 1..m, j # i PROVE BackFed(G, m, top, R2, j) = BackFed(G, m, top, R, j)
  BY <1>6 DEF BackFed
<1>7. BackHop(G, m, w, top, R2, Q2, i)
  <2>1. BackFed(G, m, top, R2, i) = b + 1
    BY <1>5, <1>0 DEF BackFed, BackTurn
  <2>2. BackTurn(G, w, R2, i - 1) = a
    <3>1. i - 1 # i
      OBVIOUS
    <3>. QED
      BY <3>1, <1>0, <1>4
  <2>3. Run(G, Q2[i], i, a, b + 1)
    <3>1. a \in Int /\ b \in Int /\ CellOK(G, P, i, b) /\ Q2[i] = Append(Q[i], P)
      BY <1>2
    <3>. HIDE DEF a, b
    <3>. QED
      BY <3>1, <1>2, RunPush
  <2>. HIDE DEF a, b
  <2>4. a <= b + 1
    BY <1>2
  <2>5. R2[i].bn = R[i].bn + 1 /\ R[i].bn \in Nat
    BY <1>2
  <2>6. R2[i].bn \in Nat
    BY <2>5
  <2>. QED
    BY <2>1, <2>2, <2>3, <2>4, <2>6 DEF BackHop
<1>8. BackHop(G, m, w, top, R2, Q2, i + 1)
  <2>1. BackFed(G, m, top, R2, i + 1) = d /\ BackTurn(G, w, R2, (i + 1) - 1) = b + 1
    BY <1>0, <1>5, <1>6
  <2>2. R2[i + 1].bn \in Nat
    BY <1>0, <1>2
  <2>3. b + 1 <= d
    <3>. HIDE DEF b, d
    <3>. QED
      BY <1>2, <1>3
  <2>. HIDE DEF b, d
  <2>. QED
    BY <2>1, <2>2, <2>3, <1>3 DEF BackHop
<1>9. ASSUME NEW j \in 1..m, j # i, j # i + 1 PROVE BackHop(G, m, w, top, R2, Q2, j)
  <2>1. j - 1 \in 0..m /\ j - 1 # i
    BY <1>9
  <2>2. /\ BackTurn(G, w, R2, j - 1) = BackTurn(G, w, R, j - 1) /\ Q2[j] = Q[j] /\ R2[j].bn = R[j].bn
        /\ BackFed(G, m, top, R2, j) = BackFed(G, m, top, R, j)
    BY <2>1, <1>4, <1>6, <1>9
  <2>. QED
    BY <2>2, <1>1 DEF BackHop
<1>10. ASSUME NEW j \in 1..m PROVE BackHop(G, m, w, top, R2, Q2, j)
  BY <1>7, <1>8, <1>9
<1>11. top <= BackTurn(G, w, R2, m)
  <2>1. m \in 0..m /\ m # i
    BY <1>0
  <2>. QED
    BY <2>1, <1>1, <1>4
<1>. QED
  BY <1>1, <1>10, <1>11 DEF BackWay, BackHop

\* The origin reads the next cell.
LEMMA BackRead ==
  ASSUME NEW G, NEW m \in Nat, m >= 1, NEW w, NEW top, NEW R, NEW Q, NEW Q2, ChainOK(G), m <= Len(G),
         BackWay(G, m, w, top, R, Q), Q[1] # <<>>, Q2[1] = Tail(Q[1]), \A i \in 2..m : Q2[i] = Q[i]
  PROVE  BackWay(G, m, w + 1, top, R, Q2) /\ CellOK(G, Head(Q[1]), 1, w) /\ w < BackTurn(G, w, R, m)
         /\ BackTurn(G, w + 1, R, m) = BackTurn(G, w, R, m)
<1>0. 1 \in 1..m /\ 1 \in 0..m /\ m \in 0..m /\ 1 - 1 = 0 /\ m # 0 /\ 1 <= m
  OBVIOUS
<1>1. /\ w \in Nat /\ top \in Nat /\ top <= BackTurn(G, w, R, m) /\ BackTurn(G, w, R, 0) = w
      /\ \A j \in 0..m : BackTurn(G, w, R, j) \in Nat
      /\ \A j \in 1..m : BackHop(G, m, w, top, R, Q, j) /\ BackFed(G, m, top, R, j) \in Nat
                         /\ BackFed(G, m, top, R, j) <= BackTurn(G, w, R, j)
  BY BackTurns
<1>. DEFINE b == BackFed(G, m, top, R, 1)
<1>2. w < b /\ CellOK(G, Head(Q[1]), 1, w) /\ Run(G, Tail(Q[1]), 1, w + 1, b)
  <2>1. /\ BackTurn(G, w, R, 1 - 1) < BackFed(G, m, top, R, 1)
        /\ CellOK(G, Head(Q[1]), 1, BackTurn(G, w, R, 1 - 1))
        /\ Run(G, Tail(Q[1]), 1, BackTurn(G, w, R, 1 - 1) + 1, BackFed(G, m, top, R, 1))
    BY <1>0, BackHead
  <2>. QED
    BY <2>1, <1>0, <1>1
<1>3. ASSUME NEW j \in 1..m PROVE BackTurn(G, w + 1, R, j) = BackTurn(G, w, R, j)
  BY DEF BackTurn
<1>4. BackTurn(G, w + 1, R, 0) = w + 1
  BY DEF BackTurn
<1>5. BackHop(G, m, w + 1, top, R, Q2, 1)
  <2>1. R[1].bn \in Nat /\ b \in Nat
    BY <1>0, <1>1 DEF BackHop
  <2>. HIDE DEF b
  <2>2. w + 1 <= b
    BY <1>1, <1>2, <2>1
  <2>3. Run(G, Q2[1], 1, w + 1, b)
    BY <1>2
  <2>4. BackTurn(G, w + 1, R, 1 - 1) = w + 1
    BY <1>0, <1>4
  <2>. QED
    BY <2>1, <2>2, <2>3, <2>4 DEF BackHop, b
<1>6. ASSUME NEW j \in 1..m, j # 1 PROVE BackHop(G, m, w + 1, top, R, Q2, j)
  <2>1. j - 1 \in 1..m /\ j \in 2..m
    BY <1>6
  <2>2. BackTurn(G, w + 1, R, j - 1) = BackTurn(G, w, R, j - 1) /\ Q2[j] = Q[j]
    BY <2>1, <1>3
  <2>. QED
    BY <2>2, <1>1 DEF BackHop
<1>7. ASSUME NEW j \in 1..m PROVE BackHop(G, m, w + 1, top, R, Q2, j)
  BY <1>5, <1>6
<1>8. BackTurn(G, w + 1, R, m) = BackTurn(G, w, R, m)
  BY <1>0, <1>3
<1>9. w + 1 \in Nat
  BY <1>1
<1>10. w < BackTurn(G, w, R, m)
  <2>1. b <= BackTurn(G, w, R, 1) /\ b \in Nat /\ BackTurn(G, w, R, 1) \in Nat /\ BackTurn(G, w, R, m) \in Nat
    BY <1>0, <1>1
  <2>2. BackTurn(G, w, R, 1) <= BackTurn(G, w, R, m)
    BY <1>0, BackClimbs
  <2>. HIDE DEF b
  <2>. QED
    BY <2>1, <2>2, <1>1, <1>2
<1>11. BackWay(G, m, w + 1, top, R, Q2)
  BY <1>1, <1>7, <1>8, <1>9 DEF BackWay, BackHop
<1>. QED
  BY <1>2, <1>8, <1>10, <1>11

-----------------------------------------------------------------------------
(* What two tasks hold. *)

LEMMA HeldSwap ==
  ASSUME NEW G, NEW j, NEW s, NEW x, NEW y, NEW a, NEW b, HeldOK(G, j, s, x, y, a, b)
  PROVE  HeldOK(G, j, s, y, x, a, b)
BY DEF HeldOK

LEMMA HeldGrows ==
  ASSUME NEW G, NEW H, NEW j \in Nat \ {0}, NEW s \in Nat, NEW x, NEW y, NEW a \in Int, NEW b \in Int,
         ChainOK(G), ChainOK(H), Grows(G, H, b), HeldOK(G, j, s, x, y, a, b)
  PROVE  HeldOK(H, j, s, x, y, a, b)
<1>1. ASSUME NEW z, HeldOne(G, j, s, z, a, b) PROVE HeldOne(H, j, s, z, a, b)
  <2>1. SUFFICES ASSUME z # <<>> PROVE CellOK(H, z[1].cell, j, z[1].turn + s)
    BY <1>1 DEF HeldOne
  <2>2. CellOK(G, z[1].cell, j, z[1].turn + s) /\ z[1].turn + s < b /\ z[1].turn \in Nat
    BY <1>1, <2>1 DEF HeldOne
  <2>3. z[1].turn + s \in Int
    BY <2>2
  <2>. QED
    BY <2>2, <2>3, CellKeeps
<1>. QED
  BY <1>1 DEF HeldOK

LEMMA HeldMore ==
  ASSUME NEW G, NEW j, NEW s \in Nat, NEW x, NEW y, NEW a \in Int, NEW b \in Int, HeldOK(G, j, s, x, y, a, b),
         a <= b, NEW c, NEW t \in Nat, t + s = b, CellOK(G, c, j, b), x = <<>>
  PROVE  HeldOK(G, j, s, <<[cell |-> c, turn |-> t]>>, y, a, b + 1)
<1>. DEFINE z == <<[cell |-> c, turn |-> t]>>
<1>1. z[1].cell = c /\ z[1].turn = t /\ z = <<[cell |-> z[1].cell, turn |-> z[1].turn]>> /\ z # <<>>
  OBVIOUS
<1>2. HeldOne(G, j, s, z, a, b + 1)
  <2>1. a <= t + s /\ t + s < b + 1
    OBVIOUS
  <2>. HIDE DEF z
  <2>. QED
    BY <1>1, <2>1 DEF HeldOne
<1>3. HeldOne(G, j, s, y, a, b + 1)
  <2>1. SUFFICES ASSUME y # <<>> PROVE y[1].turn + s < b + 1
    BY DEF HeldOK, HeldOne
  <2>2. y[1].turn \in Nat /\ y[1].turn + s < b
    BY <2>1 DEF HeldOK, HeldOne
  <2>. QED
    BY <2>2
<1>4. y # <<>> => z[1].turn # y[1].turn
  <2>1. y # <<>> => y[1].turn \in Nat /\ y[1].turn + s < b
    BY DEF HeldOK, HeldOne
  <2>. QED
    BY <2>1, <1>1
<1>. QED
  BY <1>2, <1>3, <1>4 DEF HeldOK

One(x) == IF x = <<>> THEN 0 ELSE 1

\* The one that was sealed first, queued first.
LEMMA HeldLeaves ==
  ASSUME NEW G, NEW j, NEW s \in Nat, NEW x, NEW y, NEW a \in Int, NEW b \in Int, HeldOK(G, j, s, x, y, a, b),
         a = b - One(x) - One(y), x # <<>>, ~(y # <<>> /\ y[1].turn < x[1].turn)
  PROVE  /\ x[1].turn + s = a /\ CellOK(G, x[1].cell, j, a) /\ a + 1 <= b
         /\ HeldOK(G, j, s, <<>>, y, a + 1, b)
<1>1. x[1].turn \in Nat /\ a <= x[1].turn + s /\ x[1].turn + s < b /\ CellOK(G, x[1].cell, j, x[1].turn + s)
  BY DEF HeldOK, HeldOne
<1>2. CASE y = <<>>
  <2>1. a = b - 1
    BY <1>2 DEF One
  <2>2. x[1].turn + s = a
    BY <2>1, <1>1
  <2>. QED
    BY <1>1, <1>2, <2>1, <2>2 DEF HeldOK, HeldOne
<1>3. CASE y # <<>>
  <2>1. a = b - 2
    BY <1>3 DEF One
  <2>2. /\ y[1].turn \in Nat /\ a <= y[1].turn + s /\ y[1].turn + s < b /\ y[1].turn # x[1].turn
        /\ CellOK(G, y[1].cell, j, y[1].turn + s) /\ y = <<[cell |-> y[1].cell, turn |-> y[1].turn]>>
    BY <1>3 DEF HeldOK, HeldOne
  <2>3. x[1].turn < y[1].turn
    BY <1>1, <1>3, <2>2
  <2>4. x[1].turn + s = a /\ a + 1 <= y[1].turn + s
    BY <1>1, <2>1, <2>2, <2>3
  <2>5. HeldOne(G, j, s, y, a + 1, b) /\ HeldOne(G, j, s, <<>>, a + 1, b)
    BY <2>2, <2>4 DEF HeldOne
  <2>. QED
    BY <1>1, <2>1, <2>4, <2>5 DEF HeldOK
<1>. QED
  BY <1>2, <1>3

-----------------------------------------------------------------------------
(* encrypt_outbound. *)

\* What stays of a circuit when only counters and digests move.
SameShape(oc, w) ==
  /\ OriginOK(w) /\ Len(w.hops) = Len(oc.hops) /\ Len(w.e2e) = Len(oc.e2e) /\ w.pending = oc.pending
  /\ Len(Layers(w)) = Len(Layers(oc))
  /\ \A i \in 1..Len(oc.hops) : w.hops[i] = Layers(w)[i]
  /\ \A i \in 1..Len(oc.e2e) : w.e2e[i] = Layers(w)[Len(oc.hops) + i]

LEMMA OutboundIs ==
  ASSUME NEW oc, NEW cell, NEW w, OriginOK(oc), LayersOK(Layers(oc)), Len(Layers(oc)) >= 1, w = AfterOutbound(oc, cell)
  PROVE  /\ SameShape(oc, w) /\ SealedFrom(Layers(oc), Layers(w), cell)
         /\ CellOK(Chain(Layers(w)), Outbound(oc, cell), 1, Layers(oc)[1].fn)
<1>. DEFINE ls == Layers(oc)
            ms == [i \in DOMAIN ls |-> [ls[i] EXCEPT !.fn = @ + 1, !.fd = IF i = Len(ls) THEN Append(@, cell) ELSE @]]
<1>1. IsSeq(ls) /\ Len(ls) \in Nat /\ DOMAIN ls = 1..Len(ls)
  BY LayersOf, IsSeqShape
<1>2. w = WithLayers(oc, ms)
  BY DEF AfterOutbound
<1>3. ASSUME NEW i \in 1..Len(ls)
      PROVE  ms[i] = [fk |-> ls[i].fk, bk |-> ls[i].bk, fn |-> ls[i].fn + 1, bn |-> ls[i].bn,
                      fd |-> IF i = Len(ls) THEN Append(ls[i].fd, cell) ELSE ls[i].fd, bd |-> ls[i].bd]
  <2>1. ls[i] = [fk |-> ls[i].fk, bk |-> ls[i].bk, fn |-> ls[i].fn, bn |-> ls[i].bn, fd |-> ls[i].fd, bd |-> ls[i].bd]
    BY LayersNat DEF IsHop
  <2>2. ms[i] = [ls[i] EXCEPT !.fn = @ + 1, !.fd = IF i = Len(ls) THEN Append(@, cell) ELSE @]
    BY <1>1
  <2>. HIDE DEF ms, ls
  <2>. QED
    BY <2>1, <2>2
<1>4. IsSeq(ms) /\ Len(ms) = Len(ls)
  <2>1. ms = [i \in 1..Len(ls) |-> ms[i]]
    BY <1>1
  <2>. HIDE DEF ms, ls
  <2>. QED
    BY <2>1, <1>1, FunIs
<1>5. SealedFrom(ls, ms, cell)
  <2>. HIDE DEF ms, ls
  <2>. QED
    BY <1>3, <1>4 DEF SealedFrom
<1>6. SameShape(oc, w) /\ Layers(w) = ms
  <2>. HIDE DEF ms
  <2>. QED
    BY <1>2, <1>4, WithLayersIs DEF SameShape
<1>7. Outbound(oc, cell) = Crypt(StampDigest(cell, ls[Len(ls)].fd), Streams(ls))
  BY DEF Outbound, Streams, Last
<1>8. CellOK(Chain(ms), Crypt(StampDigest(cell, ls[Len(ls)].fd), Streams(ls)), 1, ls[1].fn)
  <2>. HIDE DEF ms
  <2>. QED
    BY <1>5, SealedCellOK
<1>. HIDE DEF ms
<1>. QED
  BY <1>5, <1>6, <1>7, <1>8

-----------------------------------------------------------------------------
(* decrypt_inbound. *)

LEMMA MinIs == ASSUME NEW A \in SUBSET Nat, A # {} PROVE Min(A) \in A
BY NatMin DEF Min

\* What of a layer the other direction does not touch.
SameOut(ls, ms) ==
  /\ Len(ms) = Len(ls)
  /\ \A i \in 1..Len(ls) : /\ IsHop(ms[i]) /\ ms[i].fk = ls[i].fk /\ ms[i].bk = ls[i].bk
                           /\ ms[i].fn = ls[i].fn /\ ms[i].fd = ls[i].fd

LEMMA SameChain ==
  ASSUME NEW ls, NEW ms, LayersOK(ls), IsSeq(ms), SameOut(ls, ms)
  PROVE  LayersOK(ms) /\ Chain(ms) = Chain(ls)
<1>1. Len(ls) \in Nat /\ Len(ms) = Len(ls)
  BY IsSeqShape DEF LayersOK, SameOut
<1>2. ASSUME NEW i \in 1..Len(ls)
      PROVE  IsHop(ms[i]) /\ Len(ms[i].fd) = (IF i < Len(ls) THEN ms[i].fn - ms[i + 1].fn ELSE ms[i].fn) + 1
  <2>1. Len(ls[i].fd) = (IF i < Len(ls) THEN ls[i].fn - ls[i + 1].fn ELSE ls[i].fn) + 1
    BY DEF LayersOK
  <2>2. ms[i].fd = ls[i].fd /\ ms[i].fn = ls[i].fn /\ IsHop(ms[i])
    BY DEF SameOut
  <2>3. i < Len(ls) => ms[i + 1].fn = ls[i + 1].fn
    <3>1. i < Len(ls) => i + 1 \in 1..Len(ls)
      BY <1>1
    <3>. QED
      BY <3>1 DEF SameOut
  <2>. QED
    BY <2>1, <2>2, <2>3
<1>3. \A a, b \in 1..Len(ls) : a <= b => ms[b].fn <= ms[a].fn
  BY DEF LayersOK, SameOut
<1>4. LayersOK(ms)
  BY <1>1, <1>2, <1>3 DEF LayersOK
<1>5. ASSUME NEW i \in 1..Len(ls) PROVE ms[i].fk = ls[i].fk /\ ms[i].fd = ls[i].fd /\ ms[1].fn - ms[i].fn = ls[1].fn - ls[i].fn
  <2>1. 1 \in 1..Len(ls)
    BY <1>1
  <2>. QED
    BY <2>1 DEF SameOut
<1>6. Chain(ms) = Chain(ls)
  BY <1>1, <1>5 DEF Chain
<1>. QED
  BY <1>4, <1>6

\* How a layer takes a cell that one layer, or none, recognised.
TakenIn(l, m, tick, mine, cell) ==
  m = [fk |-> l.fk, bk |-> l.bk, fn |-> l.fn, bn |-> IF tick THEN l.bn + 1 ELSE l.bn,
       fd |-> l.fd, bd |-> IF mine THEN Append(l.bd, cell) ELSE l.bd]

LEMMA TakenHop ==
  ASSUME NEW l, NEW m, NEW tick, NEW mine, NEW cell, IsHop(l), TakenIn(l, m, tick, mine, cell)
  PROVE  /\ IsHop(m) /\ m.fk = l.fk /\ m.bk = l.bk /\ m.fn = l.fn /\ m.fd = l.fd
         /\ m.bn = (IF tick THEN l.bn + 1 ELSE l.bn) /\ m.bd = (IF mine THEN Append(l.bd, cell) ELSE l.bd)
<1>1. l.fn \in Nat /\ l.bn \in Nat /\ IsSeq(l.fd) /\ IsSeq(l.bd)
  BY DEF IsHop
<1>. DEFINE r == [fk |-> l.fk, bk |-> l.bk, fn |-> l.fn, bn |-> IF tick THEN l.bn + 1 ELSE l.bn,
                  fd |-> l.fd, bd |-> IF mine THEN Append(l.bd, cell) ELSE l.bd]
<1>2. /\ r.fk = l.fk /\ r.bk = l.bk /\ r.fn = l.fn /\ r.fd = l.fd
      /\ r.bn = (IF tick THEN l.bn + 1 ELSE l.bn) /\ r.bd = (IF mine THEN Append(l.bd, cell) ELSE l.bd)
      /\ r = [fk |-> r.fk, bk |-> r.bk, fn |-> r.fn, bn |-> r.bn, fd |-> r.fd, bd |-> r.bd]
  OBVIOUS
<1>3. m = r
  BY DEF TakenIn
<1>4. (IF tick THEN l.bn + 1 ELSE l.bn) \in Nat
  BY <1>1
<1>5. IsSeq(IF mine THEN Append(l.bd, cell) ELSE l.bd)
  BY <1>1, AppendIs
<1>. HIDE DEF r
<1>6. IsHop(m)
  BY <1>1, <1>2, <1>3, <1>4, <1>5 DEF IsHop
<1>. QED
  BY <1>2, <1>3, <1>6

LEMMA InboundIs ==
  ASSUME NEW oc, NEW p, NEW w, OriginOK(oc), LayersOK(Layers(oc)), Len(Layers(oc)) >= 1, w = AfterInbound(oc, p)
  PROVE  LET ls == Layers(oc)
             at == RecognisedBy(oc, p)
         IN /\ SameShape(oc, w) /\ SameOut(ls, Layers(w)) /\ LayersOK(Layers(w)) /\ Chain(Layers(w)) = Chain(ls)
            /\ at \subseteq 1..Len(ls)
            /\ Layers(w)[1].bn = ls[1].bn + 1
            /\ at = {Len(ls)} => \A i \in 1..Len(ls) : TakenIn(ls[i], Layers(w)[i], TRUE, i = Len(ls), p.cell)
<1>. DEFINE ls == Layers(oc)
            at == RecognisedBy(oc, p)
            last == IF at = {} THEN Len(ls) ELSE Min(at)
            ms == [i \in DOMAIN ls |->
                     [ls[i] EXCEPT !.bn = IF i <= last THEN @ + 1 ELSE @,
                                   !.bd = IF i \in at /\ i = last THEN Append(@, p.cell) ELSE @]]
<1>1. IsSeq(ls) /\ Len(ls) \in Nat /\ DOMAIN ls = 1..Len(ls)
  BY LayersOf, IsSeqShape
<1>2. at \subseteq 1..Len(ls)
  BY <1>1 DEF RecognisedBy
<1>3. last \in 1..Len(ls) /\ (at = {Len(ls)} => last = Len(ls))
  <2>1. CASE at = {}
    BY <2>1, <1>1
  <2>2. CASE at # {}
    <3>1. at \in SUBSET Nat
      BY <1>2
    <3>. HIDE DEF at
    <3>2. Min(at) \in at
      BY <3>1, <2>2, MinIs
    <3>3. last = Min(at)
      BY <2>2
    <3>. HIDE DEF last
    <3>4. last \in at
      BY <3>2, <3>3
    <3>. QED
      BY <3>4, <1>2
  <2>. QED
    BY <2>1, <2>2
<1>4. w = WithLayers(oc, ms)
  BY DEF AfterInbound
<1>5. \A i \in 1..Len(ls) : ms[i] = [ls[i] EXCEPT !.bn = IF i <= last THEN @ + 1 ELSE @,
                                   !.bd = IF i \in at /\ i = last THEN Append(@, p.cell) ELSE @]
  BY <1>1
<1>6. IsSeq(ms) /\ Len(ms) = Len(ls)
  <2>1. ms = [i \in 1..Len(ls) |-> ms[i]]
    BY <1>1
  <2>. HIDE DEF ms, ls
  <2>. QED
    BY <2>1, <1>1, FunIs
<1>7. \A i \in 1..Len(ls) : IsHop(ls[i])
  BY LayersNat
<1>. HIDE DEF ms, last, at
<1>8. ASSUME NEW i \in 1..Len(ls) PROVE TakenIn(ls[i], ms[i], i <= last, i \in at /\ i = last, p.cell)
  <2>1. ls[i] = [fk |-> ls[i].fk, bk |-> ls[i].bk, fn |-> ls[i].fn, bn |-> ls[i].bn, fd |-> ls[i].fd, bd |-> ls[i].bd]
    BY <1>7 DEF IsHop
  <2>2. ms[i] = [ls[i] EXCEPT !.bn = IF i <= last THEN @ + 1 ELSE @,
                              !.bd = IF i \in at /\ i = last THEN Append(@, p.cell) ELSE @]
    BY <1>5
  <2>. HIDE DEF ls
  <2>. QED
    BY <2>1, <2>2 DEF TakenIn
<1>9. SameShape(oc, w) /\ Layers(w) = ms
  BY <1>4, <1>6, WithLayersIs DEF SameShape
<1>10. ASSUME NEW i \in 1..Len(ls)
       PROVE  /\ IsHop(ms[i]) /\ ms[i].fk = ls[i].fk /\ ms[i].bk = ls[i].bk /\ ms[i].fn = ls[i].fn /\ ms[i].fd = ls[i].fd
              /\ ms[i].bn = IF i <= last THEN ls[i].bn + 1 ELSE ls[i].bn
  <2>. DEFINE tick == i <= last
              mine == i \in at /\ i = last
  <2>1. IsHop(ls[i]) /\ TakenIn(ls[i], ms[i], tick, mine, p.cell)
    BY <1>7, <1>8
  <2>2. /\ IsHop(ms[i]) /\ ms[i].fk = ls[i].fk /\ ms[i].bk = ls[i].bk /\ ms[i].fn = ls[i].fn /\ ms[i].fd = ls[i].fd
        /\ ms[i].bn = IF tick THEN ls[i].bn + 1 ELSE ls[i].bn
    <3>. HIDE DEF tick, mine, ls
    <3>. QED
      BY <2>1, TakenHop
  <2>. QED
    BY <2>2
<1>11. SameOut(ls, ms)
  BY <1>6, <1>10 DEF SameOut
<1>12. LayersOK(ms) /\ Chain(ms) = Chain(ls)
  BY <1>6, <1>11, SameChain
<1>13. ms[1].bn = ls[1].bn + 1
  <2>1. 1 \in 1..Len(ls)
    BY <1>1
  <2>2. last \in 1..Len(ls)
    BY <1>3
  <2>3. 1 <= last
    <3>. HIDE DEF ls
    <3>. QED
      BY <2>2, <1>1
  <2>. QED
    BY <2>1, <2>3, <1>10
<1>14. ASSUME at = {Len(ls)}, NEW i \in 1..Len(ls) PROVE TakenIn(ls[i], ms[i], TRUE, i = Len(ls), p.cell)
  <2>1. i <= last /\ (i \in at /\ i = last <=> i = Len(ls))
    BY <1>3, <1>14, <1>1
  <2>2. TakenIn(ls[i], ms[i], i <= last, i \in at /\ i = last, p.cell)
    BY <1>8
  <2>. HIDE DEF ls
  <2>. QED
    BY <2>1, <2>2 DEF TakenIn
<1>. QED
  BY <1>2, <1>9, <1>11, <1>12, <1>13, <1>14 DEF at

-----------------------------------------------------------------------------
(* Who recognises a cell that comes to an origin. *)

LEMMA CoatsSplit ==
  ASSUME NEW G, NEW T, NEW i \in Nat, NEW h \in 1..Len(G), i <= h, ChainOK(G)
  PROVE  (Coats(G, 1, h, T) \ Coats(G, 1, i, T)) \union (Coats(G, 1, i, T) \ Coats(G, 1, h, T)) = Coats(G, i + 1, h, T)
<1>. DEFINE x(q) == <<G[q].k, T - G[q].o>>
<1>0. Len(G) \in Nat
  BY IsSeqShape DEF ChainOK
<1>1. ASSUME NEW a \in 1..h, NEW b \in 1..h, a # b PROVE x(a) # x(b)
  <2>1. a \in 1..Len(G) /\ b \in 1..Len(G)
    BY <1>0
  <2>2. G[a].k # G[b].k
    BY <2>1, <1>1 DEF ChainOK
  <2>. QED
    BY <2>2
<1>2. /\ Coats(G, 1, h, T) = {x(q) : q \in 1..h} /\ Coats(G, 1, i, T) = {x(q) : q \in 1..i}
      /\ Coats(G, i + 1, h, T) = {x(q) : q \in (i + 1)..h}
  BY DEF Coats
<1>. HIDE DEF x
<1>3. /\ \A q \in 1..i : q \in 1..h
      /\ \A q \in (i + 1)..h : q \in 1..h /\ \A r \in 1..i : r # q
      /\ \A q \in 1..h : q \in 1..i \/ q \in (i + 1)..h
  <2>1. \A q \in 1..i : q \in 1..h
    OBVIOUS
  <2>2. ASSUME NEW q \in (i + 1)..h PROVE q \in 1..h /\ \A r \in 1..i : r # q
    OBVIOUS
  <2>3. \A q \in 1..h : q \in 1..i \/ q \in (i + 1)..h
    OBVIOUS
  <2>. QED
    BY <2>1, <2>2, <2>3
<1>4. {x(q) : q \in 1..i} \ {x(q) : q \in 1..h} = {}
  BY <1>3
<1>5. {x(q) : q \in 1..h} \ {x(q) : q \in 1..i} = {x(q) : q \in (i + 1)..h}
  <2>1. ASSUME NEW q \in (i + 1)..h PROVE x(q) \in {x(r) : r \in 1..h} /\ x(q) \notin {x(r) : r \in 1..i}
    <3>1. q \in 1..h
      BY <1>3
    <3>2. ASSUME NEW r \in 1..i PROVE x(r) # x(q)
      BY <3>1, <1>1, <1>3
    <3>. QED
      BY <3>1, <3>2
  <2>2. ASSUME NEW q \in 1..h, x(q) \notin {x(r) : r \in 1..i} PROVE x(q) \in {x(r) : r \in (i + 1)..h}
    BY <2>2, <1>3
  <2>. QED
    BY <2>1, <2>2
<1>. QED
  BY <1>2, <1>4, <1>5

\* What is left of a cell for hop h when the first i of its layers are taken off.
LEMMA PeeledIs ==
  ASSUME NEW ls, NEW G, NEW T \in Int, NEW h \in 1..Len(G), NEW i \in Nat, i <= h, ChainOK(G),
         \A q \in 1..i : G[q].k = ls[q].bk /\ ls[q].bn = T - G[q].o
  PROVE  Peeled(ls, CellOf(G, 1, h, T), i) = CellOf(G, i + 1, h, T)
<1>1. {<<ls[q].bk, ls[q].bn>> : q \in 1..i} = Coats(G, 1, i, T)
  BY DEF Coats
<1>2. (Coats(G, 1, h, T) \ Coats(G, 1, i, T)) \union (Coats(G, 1, i, T) \ Coats(G, 1, h, T)) = Coats(G, i + 1, h, T)
  BY CoatsSplit
<1>3. Peeled(ls, CellOf(G, 1, h, T), i) = Crypt(CellOf(G, 1, h, T), Coats(G, 1, i, T))
  BY <1>1 DEF Peeled
<1>. QED
  BY <1>2, <1>3, CryptCell DEF CellOf

LEMMA NotRecognised ==
  ASSUME NEW oc, NEW G, NEW T \in Int, NEW h \in 1..Len(G), NEW i \in Nat, i < h, ChainOK(G),
         \A q \in 1..i : G[q].k = Layers(oc)[q].bk /\ Layers(oc)[q].bn = T - G[q].o
  PROVE  i \notin RecognisedBy(oc, CellOf(G, 1, h, T))
<1>. DEFINE ls == Layers(oc)
<1>1. Peeled(ls, CellOf(G, 1, h, T), i) = CellOf(G, i + 1, h, T)
  <2>1. /\ i <= h
        /\ \A q \in 1..i : G[q].k = ls[q].bk /\ ls[q].bn = T - G[q].o
    OBVIOUS
  <2>. HIDE DEF ls
  <2>. QED
    BY <2>1, PeeledIs
<1>2. CellOf(G, i + 1, h, T).layers = Coats(G, i + 1, h, T)
  BY DEF CellOf
<1>3. Coats(G, i + 1, h, T) # {}
  <2>1. i + 1 \in Nat /\ h \in Nat /\ i + 1 <= h
    OBVIOUS
  <2>. QED
    BY <2>1, CoatsSome
<1>. QED
  BY <1>1, <1>2, <1>3 DEF RecognisedBy, IsRecognizedAt

LastTurn(oc, G, h, T) ==
  /\ T \in Int /\ h \in 1..Len(G) /\ ChainOK(G) /\ IsSeq(Layers(oc)) /\ h = Len(Layers(oc)) /\ EndsAt(G, h, T)
  /\ \A q \in 1..h : G[q].k = Layers(oc)[q].bk /\ Layers(oc)[q].bn = T - G[q].o
  /\ Layers(oc)[h].bd = Upto(G[h].d, T - G[h].o + 1)
LEMMA RecognisedLast ==
  ASSUME NEW oc, NEW G, NEW T, NEW h, LastTurn(oc, G, h, T)
  PROVE  /\ RecognisedBy(oc, CellOf(G, 1, h, T)) = {h}
         /\ CellOf(G, 1, h, T).cell = G[h].d[T - G[h].o + 2]
         /\ Append(Layers(oc)[h].bd, CellOf(G, 1, h, T).cell) = Upto(G[h].d, T - G[h].o + 2)
<1>. DEFINE ls == Layers(oc)
            p == CellOf(G, 1, h, T)
<1>0. /\ T \in Int /\ h \in 1..Len(G) /\ ChainOK(G) /\ IsSeq(Layers(oc)) /\ h = Len(Layers(oc)) /\ EndsAt(G, h, T)
      /\ \A q \in 1..h : G[q].k = Layers(oc)[q].bk /\ Layers(oc)[q].bn = T - G[q].o
      /\ Layers(oc)[h].bd = Upto(G[h].d, T - G[h].o + 1)
  BY DEF LastTurn
<1>. USE <1>0
<1>1. DOMAIN ls = 1..h /\ h \in Nat
  BY IsSeqShape
<1>2. ASSUME NEW i \in 1..h, i # h PROVE i \notin RecognisedBy(oc, p)
  <2>1. i \in Nat /\ i < h /\ \A q \in 1..i : q \in 1..h
    BY <1>1, <1>2
  <2>2. \A q \in 1..i : G[q].k = Layers(oc)[q].bk /\ Layers(oc)[q].bn = T - G[q].o
    BY <2>1
  <2>. QED
    BY <2>1, <2>2, NotRecognised
<1>3. p.cell = G[h].d[T - G[h].o + 2]
  BY DEF CellOf
<1>4. Append(ls[h].bd, p.cell) = Upto(G[h].d, T - G[h].o + 2)
  <2>. DEFINE m == T - G[h].o + 1
  <2>1. G[h].o \in Nat /\ G[h].o <= T
    BY DEF ChainOK, EndsAt
  <2>2. m \in Nat /\ m + 1 = T - G[h].o + 2
    BY <2>1
  <2>3. ls[h].bd = Upto(G[h].d, m) /\ p.cell = G[h].d[m + 1]
    BY <2>2, <1>3
  <2>. HIDE DEF m, p, ls
  <2>4. Append(ls[h].bd, p.cell) = Upto(G[h].d, m + 1)
    BY <2>2, <2>3, UptoNext
  <2>. QED
    BY <2>2, <2>4
<1>5. h \in RecognisedBy(oc, p)
  <2>1. Peeled(ls, p, h) = CellOf(G, h + 1, h, T)
    <3>1. /\ h \in Nat /\ h <= h
          /\ \A q \in 1..h : G[q].k = ls[q].bk /\ ls[q].bn = T - G[q].o
      BY <1>1
    <3>. HIDE DEF ls
    <3>. QED
      BY <3>1, PeeledIs
  <2>2. /\ CellOf(G, h + 1, h, T).layers = {} /\ CellOf(G, h + 1, h, T).digest = Upto(G[h].d, T - G[h].o + 2)
        /\ CellOf(G, h + 1, h, T).cell = p.cell
    BY <1>1, CoatsNone DEF CellOf
  <2>3. IsRecognizedAt(Peeled(ls, p, h), ls[h].bd)
    BY <2>1, <2>2, <1>4 DEF IsRecognizedAt
  <2>. QED
    BY <2>3, <1>1 DEF RecognisedBy
<1>6. RecognisedBy(oc, p) \subseteq 1..h
  BY <1>1 DEF RecognisedBy
<1>. QED
  BY <1>2, <1>3, <1>4, <1>5, <1>6

-----------------------------------------------------------------------------
(* The state: what each line of cells is a run of. *)

FK(l) == <<l, l, "forward">>
BK(l) == <<l, l, "backward">>
C2H == <<Meeting, ServiceKey, "c2h">>
H2C == <<Meeting, ServiceKey, "h2c">>
LegTo(i) == <<"client", i>>

ClientEnd == origin["client"]
ServiceEnd == origin["service"]
Known == Len(ClientEnd.hops)
ClientLayers == Layers(ClientEnd)
ServiceLayers == Layers(ServiceEnd)
RelayHop(i) == relays[LegTo(i)].hop
MeetHop == relays[Meet].hop
Relayed == [i \in 1..Known |-> RelayHop(i)]
OutQueues == [i \in 1..Known |-> forward[LegTo(i)]]
BackQueues == [i \in 1..Known |-> backward[LegTo(i)]]

\* What the client and the service say, each through all of its layers.
ChainOut == Chain(ClientLayers)
ServiceOut == Chain(ServiceLayers)
\* What the relays of the client's circuit say to it, and the service from beyond the
\* last: relay i has first said what relay i + 1 answered.
ChainBack ==
  [i \in 1..(IF ServiceEnd.e2e = <<>> THEN Known ELSE PathLen + 1) |->
     IF i <= Known THEN [k |-> BK(LegTo(i)), o |-> i - 1, d |-> RelayHop(i).bd]
     ELSE [k |-> H2C, o |-> PathLen + 1, d |-> ServiceEnd.e2e[1].fd]]
\* What comes to the service over the bridge.
MeetBack ==
  [i \in 1..(IF ClientEnd.e2e = <<>> THEN 1 ELSE 2) |->
     IF i = 1 THEN [k |-> BK(Meet), o |-> 0, d |-> <<BK(Meet)>>]
     ELSE [k |-> C2H, o |-> 0, d |-> ClientEnd.e2e[1].fd]]

Sent == ClientLayers[1].fn
Read == ClientLayers[1].bn
Passed(i) == RelayHop(i).fn + ChainOut[i].o

\* A way whose first leg, or last, two tasks queue on what they have sealed.
OutLine(G, m, N, x, y, R, Q) ==
  LET top == N - One(x) - One(y) IN HeldOK(G, 1, 0, x, y, top, N) /\ OutWay(G, m, N, top, R, Q)
BackLine(G, m, w, x, y, R, Q) ==
  LET b == BackTurn(G, w, R, m)
      top == b - One(x) - One(y)
  IN HeldOK(G, m, m - 1, x, y, top, b) /\ BackWay(G, m, w, top, R, Q)

-----------------------------------------------------------------------------
(* The inductive invariant. *)

EndOK(e) ==
  LET oc == origin[e] IN
  /\ OriginOK(oc)
  /\ Len(oc.hops) <= Hops(e) /\ Len(oc.e2e) <= 1
  /\ oc.e2e # <<>> => Len(oc.hops) = Hops(e)
  /\ \A i \in 1..Len(oc.hops) : /\ oc.hops[i].fk = FK(<<e, i>>) /\ oc.hops[i].bk = BK(<<e, i>>)
                                /\ <<e, i>> \in DOMAIN relays
RelayOK(l) ==
  /\ relays[l] = [hop |-> relays[l].hop, next |-> relays[l].next, awaiting |-> relays[l].awaiting]
  /\ IsHop(relays[l].hop) /\ relays[l].hop.fk = FK(l) /\ relays[l].hop.bk = BK(l)
Shape ==
  /\ DOMAIN origin = OriginEnd /\ origin = [e \in OriginEnd |-> origin[e]]
  /\ \A e \in OriginEnd : EndOK(e)
  /\ \A i \in 1..Len(ClientEnd.e2e) : ClientEnd.e2e[i].fk = C2H /\ ClientEnd.e2e[i].bk = H2C
  /\ \A i \in 1..Len(ServiceEnd.e2e) : ServiceEnd.e2e[i].fk = H2C /\ ServiceEnd.e2e[i].bk = C2H
  /\ relays = [l \in DOMAIN relays |-> relays[l]] /\ DOMAIN relays \subseteq Leg
  /\ \A l \in DOMAIN relays : RelayOK(l)
  /\ forward = [l \in Leg |-> forward[l]] /\ backward = [l \in Leg |-> backward[l]]
  /\ held = [t \in OnionTask |-> held[t]]

\* The stages of one handshake, by what is on the leg and at its end.
Absent(l) == backward[l] = <<>> /\ l \notin DOMAIN relays
Quiet(l) == forward[l] = <<>> /\ Absent(l)
CreateFor(l, to) == [kind |-> "create", x |-> l, to |-> to]
Asked(l) == Absent(l) /\ \E to \in LinkSpecs : forward[l] = <<CreateFor(l, to)>>
Fresh(l) == l \in DOMAIN relays /\ relays[l] = [hop |-> HopState(FK(l), BK(l)), next |-> FALSE, awaiting |-> FALSE]
CreatedBy(l) == [kind |-> "created", y |-> l, auth |-> Auth(l, l)]
Answered(l) == forward[l] = <<>> /\ backward[l] = <<CreatedBy(l)>> /\ Fresh(l)
Returning(l) == forward[l] = <<>> /\ backward[l] = <<>> /\ Fresh(l)

Begun(e) ==
  Len(origin[e].hops) = 0 =>
    IF origin[e].pending = NoKey THEN Quiet(<<e, 1>>)
    ELSE /\ origin[e].pending = <<e, 1>>
         /\ Answered(<<e, 1>>) \/ (Absent(<<e, 1>>) /\ forward[<<e, 1>>] = <<CreateFor(<<e, 1>>, "right")>>)
LastRelay == relays[LegTo(Known)]
Idle(r) == r.next = FALSE /\ r.awaiting = FALSE
Waiting(r) == r.next = TRUE /\ r.awaiting = TRUE
Joined(r) == r.next = TRUE /\ r.awaiting = FALSE
\* The stages of one extend, by the last relay known.
Extending ==
  Known \in 1..(PathLen - 1) =>
    LET l == LegTo(Known + 1) IN
    IF ClientEnd.pending = NoKey THEN Quiet(l) /\ Idle(LastRelay)
    ELSE /\ ClientEnd.pending = l
         /\ \/ Quiet(l) /\ Idle(LastRelay)
            \/ (Quiet(l) \/ Asked(l) \/ Answered(l)) /\ Waiting(LastRelay)
            \/ Returning(l) /\ Joined(LastRelay)
Building ==
  /\ \A e \in OriginEnd : Begun(e)
  /\ Extending
  /\ \A i \in 1..(Known - 1) : Joined(relays[LegTo(i)])
  /\ Known = PathLen => ClientEnd.pending = NoKey /\ Idle(LastRelay)
  /\ \A i \in 1..PathLen : i > Known + 1 => Quiet(LegTo(i))
  /\ Len(ServiceEnd.hops) = 1 => ServiceEnd.pending = NoKey /\ Idle(relays[Meet])

\* The client's way out, and the service's.
ClientOut ==
  /\ LayersOK(ClientLayers)
  /\ Known = 0 => Free("fetch") /\ Free("pump")
  /\ Known > 0 => OutLine(ChainOut, Known, Sent, held["fetch"], held["pump"], Relayed, OutQueues)
ServiceWayOut ==
  /\ LayersOK(ServiceLayers)
  /\ Len(ServiceEnd.hops) > 0 =>
       OutLine(ServiceOut, 1, ServiceLayers[1].fn, <<>>, <<>>, <<MeetHop>>, <<forward[Meet]>>)

\* What each relay has said itself.
Extended2(i) == <<"extended2", LegTo(i + 1), Auth(LegTo(i + 1), LegTo(i + 1))>>
Established == <<"established", 0, 0>>
Rendezvous1 == <<"rendezvous1", ServiceKey, Auth(Meeting, ServiceKey)>>
Rendezvous2 == <<"rendezvous2", ServiceKey, Auth(Meeting, ServiceKey)>>
SaidAt(i) ==
  IF i < Known THEN <<BK(LegTo(i)), Extended2(i)>>
  ELSE IF i < PathLen
  THEN IF LegTo(i + 1) \in DOMAIN relays /\ ~relays[LegTo(i)].awaiting
       THEN <<BK(LegTo(i)), Extended2(i)>> ELSE <<BK(LegTo(i))>>
  ELSE CASE cookie = "none" -> <<BK(LegTo(i))>>
         [] cookie = "held" -> <<BK(LegTo(i)), Established>>
         [] OTHER -> <<BK(LegTo(i)), Established, Rendezvous2>>

\* A client's layer and what was said in it: one that the other end has yet to make
\* has heard nothing.
Starts(i) == IF i <= PathLen THEN i - 1 ELSE PathLen + 1
ClientHeard(i) ==
  LET l == ClientLayers[i] IN
  /\ l.bn + Starts(i) = ClientLayers[1].bn
  /\ IF i > Len(ChainBack) THEN l.bd = <<l.bk>> ELSE Heard(ChainBack, i, l.bn, l.bd)
ClientHears == \A i \in 1..Len(ClientLayers) : ClientHeard(i)
RelaysSaid ==
  /\ \A i \in 1..Known : RelayHop(i).bd = SaidAt(i)
  /\ Known > 0 => RelayHop(Known).bn + 1 = IF cookie = "used" THEN MeetHop.fn + 2 ELSE Len(RelayHop(Known).bd)
\* The client's way back, and the service's.
ClientBack ==
  /\ Known < PathLen => Free("clientReader") /\ Free("serviceReader")
  /\ Known > 0 => BackLine(ChainBack, Known, Read, held["clientReader"], held["serviceReader"], Relayed, BackQueues)
Bridged ==
  Meet \in DOMAIN relays =>
    MeetHop.bn = IF ClientEnd.e2e # <<>> /\ Passed(PathLen) > ChainOut[PathLen + 1].o
                 THEN Passed(PathLen) - ChainOut[PathLen + 1].o ELSE 0
ServiceBack ==
  Len(ServiceEnd.hops) > 0 =>
    BackLine(MeetBack, 1, ServiceLayers[1].bn, <<>>, <<>>, <<MeetHop>>, <<backward[Meet]>>)

\* How far the fetch, the service and the point have come.
Control ==
  /\ fetching \in {"start", "build", "established", "introduced"}
  /\ rendezvousing \in {"idle", "opened", "build", "sent", "installed"}
  /\ cookie \in {"none", "held", "used"} /\ bridged = (cookie = "used")
  /\ fetching = "start" => Known = 0 /\ ClientEnd.pending = NoKey
  /\ fetching \in {"established", "introduced"} => Known = PathLen
  /\ rendezvousing \in {"idle", "opened"} => Len(ServiceEnd.hops) = 0 /\ ServiceEnd.pending = NoKey
  /\ rendezvousing \in {"sent", "installed"} => Len(ServiceEnd.hops) = 1
  /\ rendezvousing # "idle" => fetching = "introduced"
  /\ ServiceEnd.e2e # <<>> <=> rendezvousing = "installed"
  /\ meeting = IF ClientEnd.e2e = <<>> /\ fetching \in {"established", "introduced"} THEN Meeting ELSE NoKey
  /\ ClientEnd.e2e # <<>> => fetching = "introduced"
  /\ intro = IF fetching = "introduced" THEN Meeting ELSE NoKey
  /\ Known > 0 /\ Read > PathLen => ClientEnd.e2e # <<>>
  /\ cookie # "none" =>
       Known = PathLen /\ \E q \in 2..Len(RelayHop(PathLen).fd) : RelayHop(PathLen).fd[q][1] = "establish"
  /\ cookie = "used" => Len(ServiceEnd.hops) = 1 /\ MeetHop.fn > 0
  /\ ServiceEnd.e2e # <<>> /\ ServiceEnd.e2e[1].fn > 0 => cookie = "used"

\* What was said to whom.
ExtendSaid(i, m) ==
  m[1] = "extend2" => i < PathLen /\ m[2] = LegTo(i + 1) /\ m[3] \in LinkSpecs /\ (i = Known => ClientEnd.pending # NoKey)
EstablishSaid(s) ==
  \A q, r \in 2..Len(s) : s[q][1] = "establish" =>
     fetching \in {"established", "introduced"} /\ (s[r][1] = "establish" => r = q)
Contents ==
  /\ \A i \in 1..Known : /\ \A q \in 2..Len(ClientLayers[i].fd) : ExtendSaid(i, ClientLayers[i].fd[q])
                         /\ EstablishSaid(ClientLayers[i].fd)
  /\ Len(ServiceEnd.hops) = 1 =>
       ServiceEnd.hops[1].fd = IF rendezvousing \in {"sent", "installed"} THEN <<FK(Meet), Rendezvous1>> ELSE <<FK(Meet)>>
  /\ ServiceEnd.e2e # <<>> =>
       /\ ServiceEnd.e2e[1].fd[1] = H2C
       /\ \A q \in 2..Len(ServiceEnd.e2e[1].fd) : ServiceEnd.e2e[1].fd[q][1] = "answer"
  /\ ClientEnd.e2e # <<>> => ClientEnd.e2e[1].fd[1] = C2H

\* Unless the keys were late, the service has heard what came.
Timely ==
  "keys late" \notin excuses =>
    /\ ~lost
    /\ Len(ServiceEnd.hops) = 1 =>
        IF ServiceEnd.e2e = <<>> THEN ServiceLayers[1].bn = 0
        ELSE /\ ServiceEnd.e2e[1].bn = ServiceLayers[1].bn
             /\ IF ClientEnd.e2e = <<>> THEN ServiceEnd.e2e[1].bd = <<C2H>>
                ELSE Heard(MeetBack, 2, ServiceEnd.e2e[1].bn, ServiceEnd.e2e[1].bd)

Good ==
  /\ Shape /\ Building /\ ClientOut /\ ServiceWayOut /\ RelaysSaid /\ ClientHears /\ ClientBack
  /\ Bridged /\ ServiceBack /\ Control /\ Contents /\ Timely
OnionInv == "overtaken" \notin excuses => Good

-----------------------------------------------------------------------------
(* What each event does to a way. *)

LEMMA OneNat == ASSUME NEW x PROVE One(x) \in Nat /\ One(x) <= 1 /\ (x = <<>> => One(x) = 0) /\ (x # <<>> => One(x) = 1)
BY DEF One

LEMMA OneHeld == ASSUME NEW c PROVE One(<<c>>) = 1 /\ One(<<>>) = 0
BY OneIs DEF One

LEMMA ChainFull ==
  ASSUME NEW ls, LayersOK(ls), KeysApart(ls), Len(ls) >= 1
  PROVE  /\ ChainOK(Chain(ls)) /\ LogsFull(Chain(ls)) /\ Full(Chain(ls), ls[1].fn) /\ ls[1].fn \in Nat
         /\ Chain(ls)[1].o = 0 /\ Len(Chain(ls)) = Len(ls) /\ Len(ls) \in Nat
<1>1. ChainOK(Chain(ls)) /\ LogsFull(Chain(ls))
  BY ChainGood
<1>2. /\ Len(ls) \in Nat /\ Len(Chain(ls)) = Len(ls)
      /\ \A i \in 1..Len(ls) : Chain(ls)[i].d = ls[i].fd /\ Chain(ls)[i].o = ls[1].fn - ls[i].fn
  BY ChainIs
<1>3. 1 \in 1..Len(ls) /\ Len(ls) \in 1..Len(ls)
  BY <1>2
<1>4. ls[1].fn \in Nat /\ ls[Len(ls)].fn \in Nat
  BY <1>3, LayersNat
<1>5. Len(ls[Len(ls)].fd) = ls[Len(ls)].fn + 1
  BY <1>3 DEF LayersOK
<1>6. Chain(ls)[1].o = 0
  BY <1>2, <1>3, <1>4
<1>7. Chain(ls)[Len(ls)].o = ls[1].fn - ls[Len(ls)].fn /\ Chain(ls)[Len(ls)].d = ls[Len(ls)].fd
  BY <1>2, <1>3
<1>8. Len(ls[Len(ls)].fd) = ls[1].fn - Chain(ls)[Len(ls)].o + 1
  BY <1>4, <1>5, <1>7
<1>. QED
  BY <1>1, <1>2, <1>4, <1>6, <1>7, <1>8 DEF Full

LEMMA LineSwap ==
  ASSUME NEW G, NEW m, NEW N \in Nat, NEW x, NEW y, NEW R, NEW Q, OutLine(G, m, N, x, y, R, Q)
  PROVE  OutLine(G, m, N, y, x, R, Q)
<1>1. N - One(x) - One(y) = N - One(y) - One(x)
  BY OneNat
<1>. QED
  BY <1>1, HeldSwap DEF OutLine

\* What the hops of a chain say of the way, from one end to the other.
LEMMA LineTop ==
  ASSUME NEW G, NEW m \in Nat, NEW N \in Nat, NEW x, NEW y, NEW R, NEW Q, OutLine(G, m, N, x, y, R, Q)
  PROVE  LET top == N - One(x) - One(y) IN
         /\ top \in Nat /\ top <= N /\ HeldOK(G, 1, 0, x, y, top, N) /\ OutWay(G, m, N, top, R, Q)
         /\ (x = <<>> /\ y = <<>> => top = N)
BY OneNat DEF OutLine, OutWay

\* The end seals a cell, and a task holds it.
LEMMA LineSeal ==
  ASSUME NEW ls, NEW ms, NEW cell, LayersOK(ls), KeysApart(ls), SealedFrom(ls, ms, cell),
         NEW m \in Nat, m >= 1, m <= Len(ls), NEW x, NEW y, NEW R, NEW Q,
         OutLine(Chain(ls), m, ls[1].fn, x, y, R, Q), x = <<>>, NEW c, CellOK(Chain(ms), c, 1, ls[1].fn)
  PROVE  OutLine(Chain(ms), m, ms[1].fn, <<[cell |-> c, turn |-> ls[1].fn]>>, y, R, Q)
<1>. DEFINE G == Chain(ls)
            H == Chain(ms)
            N == ls[1].fn
            top == N - One(x) - One(y)
            h == <<[cell |-> c, turn |-> N]>>
<1>1. Len(ls) \in Nat /\ Len(ls) >= 1 /\ Len(ms) = Len(ls)
  BY IsSeqShape DEF LayersOK, SealedFrom
<1>2. LayersOK(ms) /\ KeysApart(ms) /\ Grows(G, H, N)
  BY SealLayers
<1>3. ChainOK(G) /\ Full(G, N) /\ N \in Nat /\ Len(G) = Len(ls)
  BY <1>1, ChainFull
<1>4. ChainOK(H) /\ LogsFull(H)
  BY <1>1, <1>2, ChainFull
<1>5. ms[1].fn = N + 1
  <2>1. 1 \in 1..Len(ls)
    BY <1>1
  <2>2. SealedFields(ls, ms, cell)
    BY SealFields
  <2>. QED
    BY <2>1, <2>2 DEF SealedFields
<1>6. top \in Nat /\ top <= N /\ HeldOK(G, 1, 0, x, y, top, N) /\ OutWay(G, m, N, top, R, Q)
  BY <1>3, LineTop
<1>7. One(h) = 1 /\ One(x) = 0 /\ One(y) \in Nat
  BY OneHeld, OneNat
<1>8. top = (N + 1) - One(h) - One(y)
  BY <1>3, <1>7
<1>. HIDE DEF G, H, N, top
<1>9. OutWay(H, m, N + 1, top, R, Q)
  <2>1. N <= N + 1 /\ N + 1 \in Nat /\ m <= Len(G)
    BY <1>3
  <2>. QED
    BY <2>1, <1>2, <1>3, <1>4, <1>6, OutGrows
<1>10. HeldOK(H, 1, 0, x, y, top, N)
  <2>1. top \in Int /\ N \in Int /\ 0 \in Nat /\ 1 \in Nat \ {0}
    BY <1>3, <1>6
  <2>. QED
    BY <2>1, <1>2, <1>3, <1>4, <1>6, HeldGrows
<1>11. HeldOK(H, 1, 0, h, y, top, N + 1)
  <2>1. top \in Int /\ N \in Int /\ 0 \in Nat /\ N \in Nat /\ N + 0 = N
    BY <1>3, <1>6
  <2>2. CellOK(H, c, 1, N)
    BY DEF H, N
  <2>. QED
    BY <2>1, <2>2, <1>6, <1>10, HeldMore
<1>. HIDE DEF h
<1>12. OutLine(H, m, N + 1, h, y, R, Q)
  BY <1>8, <1>9, <1>11 DEF OutLine
<1>. QED
  BY <1>5, <1>12 DEF H, N, h

\* What a task holds is queued, when none sealed before it waits.
LEMMA LineQueue ==
  ASSUME NEW G, NEW m \in Nat, m >= 1, NEW N \in Nat, NEW x, NEW y, NEW R, NEW Q, NEW Q2,
         ChainOK(G), m <= Len(G), G[1].o = 0, OutLine(G, m, N, x, y, R, Q),
         x # <<>>, ~(y # <<>> /\ y[1].turn < x[1].turn),
         Q2[1] = Append(Q[1], x[1].cell), \A i \in 2..m : Q2[i] = Q[i]
  PROVE  OutLine(G, m, N, <<>>, y, R, Q2)
<1>. DEFINE top == N - One(x) - One(y)
<1>1. top \in Nat /\ top <= N /\ HeldOK(G, 1, 0, x, y, top, N) /\ OutWay(G, m, N, top, R, Q)
  BY LineTop
<1>2. One(x) = 1 /\ One(<<>>) = 0 /\ One(y) \in Nat
  BY OneNat
<1>3. top + 1 = N - One(<<>>) - One(y)
  BY <1>2
<1>4. top = N - One(x) - One(y)
  OBVIOUS
<1>. HIDE DEF top
<1>5. /\ x[1].turn + 0 = top /\ CellOK(G, x[1].cell, 1, top) /\ top + 1 <= N
      /\ HeldOK(G, 1, 0, <<>>, y, top + 1, N)
  <2>1. top \in Int /\ N \in Int /\ 0 \in Nat
    BY <1>1
  <2>. QED
    BY <2>1, <1>1, <1>4, HeldLeaves
<1>6. OutWay(G, m, N, top + 1, R, Q2)
  BY <1>1, <1>5, OutPush
<1>. QED
  BY <1>3, <1>5, <1>6 DEF OutLine

\* The end seals a cell and queues it at once.
LEMMA LineSend ==
  ASSUME NEW ls, NEW ms, NEW cell, LayersOK(ls), KeysApart(ls), SealedFrom(ls, ms, cell),
         NEW m \in Nat, m >= 1, m <= Len(ls), NEW R, NEW Q, NEW Q2,
         OutLine(Chain(ls), m, ls[1].fn, <<>>, <<>>, R, Q), NEW c, CellOK(Chain(ms), c, 1, ls[1].fn),
         Q2[1] = Append(Q[1], c), \A i \in 2..m : Q2[i] = Q[i]
  PROVE  OutLine(Chain(ms), m, ms[1].fn, <<>>, <<>>, R, Q2)
<1>. DEFINE h == <<[cell |-> c, turn |-> ls[1].fn]>>
<1>1. OutLine(Chain(ms), m, ms[1].fn, h, <<>>, R, Q)
  BY LineSeal
<1>2. Len(ls) \in Nat /\ Len(ls) >= 1 /\ Len(ms) = Len(ls) /\ LayersOK(ms) /\ KeysApart(ms)
  <2>1. LayersOK(ms) /\ KeysApart(ms)
    BY SealLayers
  <2>. QED
    BY <2>1, IsSeqShape DEF LayersOK, SealedFrom
<1>3. ChainOK(Chain(ms)) /\ Chain(ms)[1].o = 0 /\ ms[1].fn \in Nat /\ m <= Len(Chain(ms))
  BY <1>2, ChainFull
<1>4. h # <<>> /\ h[1].cell = c
  BY OneIs
<1>. HIDE DEF h
<1>5. ~(<<>> # <<>> /\ <<>>[1].turn < h[1].turn)
  OBVIOUS
<1>6. Q2[1] = Append(Q[1], h[1].cell)
  BY <1>4
<1>. QED
  BY <1>1, <1>3, <1>4, <1>5, <1>6, LineQueue

\* A relay takes up the next cell.
LEMMA LineTake ==
  ASSUME NEW G, NEW m \in Nat, NEW N \in Nat, NEW x, NEW y, NEW R, NEW Q, NEW R2, NEW Q2, NEW i \in 1..m, NEW T,
         ChainOK(G), m <= Len(G), OutLine(G, m, N, x, y, R, Q), Q[i] # <<>>,
         T = R[i].fn + G[i].o, OutTaken(G, m, R, Q, R2, Q2, i, T)
  PROVE  OutLine(G, m, N, x, y, R2, Q2) /\ CellOK(G, Head(Q[i]), i, T) /\ T \in Nat /\ T < N
<1>. DEFINE top == N - One(x) - One(y)
<1>1. HeldOK(G, 1, 0, x, y, top, N) /\ OutWay(G, m, N, top, R, Q)
  BY LineTop
<1>2. T = OutTurn(G, top, R, i)
  BY DEF OutTurn
<1>. HIDE DEF top
<1>3. OutWay(G, m, N, top, R2, Q2) /\ CellOK(G, Head(Q[i]), i, T) /\ T \in Nat /\ T < N
  BY <1>1, <1>2, OutTake
<1>. QED
  BY <1>1, <1>3 DEF OutLine, top

LEMMA LineFrame ==
  ASSUME NEW G, NEW m \in Nat, NEW N \in Nat, NEW x, NEW y, NEW R, NEW Q, NEW R2, NEW Q2,
         OutLine(G, m, N, x, y, R, Q),
         \A i \in 1..m : R2[i].fn = R[i].fn /\ R2[i].fd = R[i].fd /\ Q2[i] = Q[i]
  PROVE  OutLine(G, m, N, x, y, R2, Q2)
<1>. DEFINE top == N - One(x) - One(y)
<1>1. HeldOK(G, 1, 0, x, y, top, N) /\ OutWay(G, m, N, top, R, Q)
  BY LineTop
<1>. HIDE DEF top
<1>2. OutWay(G, m, N, top, R2, Q2)
  BY <1>1, OutFrame
<1>. QED
  BY <1>1, <1>2 DEF OutLine, top

\* A hop is added that the way does not lead to, or leads to next, or first.
NewKey(ls, fk) == \A i \in 1..Len(ls) : ls[i].fk # fk

\* The chain with its new link.
LinkFor(ls, ms, fk) ==
  LET l == Chain(ms)[Len(ls) + 1] IN
  /\ ms[1].fn = ls[1].fn /\ ms[1].fn \in Nat /\ ChainOK(Chain(ms)) /\ Len(Chain(ms)) = Len(ls) + 1 
  /\ l.o = ms[1].fn /\ l.d = <<fk>> /\ l.k = fk

LEMMA LineGrow ==
  ASSUME NEW ls, LayersOK(ls), KeysApart(ls), Len(ls) >= 1, NEW fk, NEW bk, NewKey(ls, fk),
         NEW ms, Grown(ls, ms, fk, bk), NEW m \in Nat, m <= Len(ls), NEW x, NEW y, NEW R, NEW Q,
         OutLine(Chain(ls), m, ls[1].fn, x, y, R, Q)
  PROVE  /\ LayersOK(ms) /\ KeysApart(ms) /\ LinkFor(ls, ms, fk)
         /\ OutLine(Chain(ms), m, ms[1].fn, x, y, R, Q)
<1>. DEFINE G == Chain(ls)
            H == Chain(ms)
            N == ls[1].fn
            top == N - One(x) - One(y)
            n == Len(ls)
<1>1. /\ LayersOK(ms) /\ Len(ms) = n + 1 /\ ms[n + 1] = HopState(fk, bk)
      /\ \A i \in 1..n : ms[i] = ls[i]
      /\ KeysApart(ms) /\ Grows(G, H, N)
  BY DEF Grown, NewKey
<1>2. ChainOK(G) /\ Full(G, N) /\ N \in Nat /\ Len(G) = n /\ n \in Nat
  BY ChainFull
<1>3. ChainOK(H) /\ LogsFull(H) /\ Len(H) = n + 1
  <2>1. Len(ms) >= 1
    BY <1>1, <1>2
  <2>. QED
    BY <2>1, <1>1, ChainFull
<1>4. ms[1] = ls[1]
  BY <1>1, <1>2
<1>5. H[n + 1].o = N /\ H[n + 1].d = <<fk>> /\ H[n + 1].k = fk
  <2>1. n + 1 \in 1..Len(ms)
    BY <1>1, <1>2
  <2>2. H[n + 1].k = ms[n + 1].fk /\ H[n + 1].d = ms[n + 1].fd /\ H[n + 1].o = ms[1].fn - ms[n + 1].fn
    BY <2>1, <1>1, ChainIs
  <2>3. ms[n + 1].fk = fk /\ ms[n + 1].fd = <<fk>> /\ ms[n + 1].fn = 0
    BY <1>1, HopStateIs
  <2>. QED
    BY <2>2, <2>3, <1>2, <1>4
<1>6. top \in Nat /\ top <= N /\ HeldOK(G, 1, 0, x, y, top, N) /\ OutWay(G, m, N, top, R, Q)
  BY <1>2, LineTop
<1>7. top = N - One(x) - One(y)
  OBVIOUS
<1>. HIDE DEF G, H, N, top, n
<1>8. OutWay(H, m, N, top, R, Q)
  <2>1. N <= N /\ m <= Len(G)
    BY <1>2 DEF n
  <2>. QED
    BY <2>1, <1>1, <1>2, <1>3, <1>6, OutGrows
<1>9. HeldOK(H, 1, 0, x, y, top, N)
  <2>1. top \in Int /\ N \in Int /\ 0 \in Nat /\ 1 \in Nat \ {0}
    BY <1>2, <1>6
  <2>. QED
    BY <2>1, <1>1, <1>2, <1>3, <1>6, HeldGrows
<1>10. OutLine(H, m, N, x, y, R, Q)
  BY <1>7, <1>8, <1>9 DEF OutLine
<1>. QED
  BY <1>1, <1>2, <1>3, <1>4, <1>5, <1>10 DEF H, N, n, LinkFor

AsBefore(m, R, Q, R2, Q2) == \A i \in 1..m : R2[i].fn = R[i].fn /\ R2[i].fd = R[i].fd /\ Q2[i] = Q[i]
NewAt(n, fk, R2, Q2) == R2[n].fn = 0 /\ R2[n].fd = <<fk>> /\ Q2[n] = <<>>
LEMMA LineExtend ==
  ASSUME NEW ls, LayersOK(ls), KeysApart(ls), Len(ls) >= 1, NEW fk, NEW bk, NewKey(ls, fk),
         NEW ms, Grown(ls, ms, fk, bk), NEW m \in Nat, m = Len(ls), NEW x, NEW y, NEW R, NEW Q, NEW R2, NEW Q2,
         OutLine(Chain(ls), m, ls[1].fn, x, y, R, Q), AsBefore(m, R, Q, R2, Q2), NewAt(m + 1, fk, R2, Q2)
  PROVE  OutLine(Chain(ms), m + 1, ms[1].fn, x, y, R2, Q2)
<1>0. /\ \A i \in 1..m : R2[i].fn = R[i].fn /\ R2[i].fd = R[i].fd /\ Q2[i] = Q[i]
      /\ R2[m + 1].fn = 0 /\ R2[m + 1].fd = <<fk>> /\ Q2[m + 1] = <<>>
  BY DEF AsBefore, NewAt
<1>. DEFINE H == Chain(ms)
            N == ms[1].fn
            top == N - One(x) - One(y)
<1>1. /\ OutLine(H, m, N, x, y, R, Q) /\ N \in Nat /\ ChainOK(H) /\ Len(H) = m + 1 /\ H[m + 1].o = N
      /\ H[m + 1].d = <<fk>>
  <2>. HIDE DEF N, H
  <2>1. m <= Len(ls)
    BY ChainFull
  <2>2. OutLine(Chain(ms), m, ms[1].fn, x, y, R, Q) /\ LinkFor(ls, ms, fk)
    BY <2>1, LineGrow
  <2>3. OutLine(H, m, N, x, y, R, Q)
    BY <2>2 DEF N, H
  <2>. QED
    BY <2>2, <2>3 DEF N, H, LinkFor
<1>2. HeldOK(H, 1, 0, x, y, top, N) /\ OutWay(H, m, N, top, R, Q)
  BY <1>1, LineTop
<1>3. Heard(H, m + 1, 0, R2[m + 1].fd)
  <2>1. Upto(<<fk>>, 1) = <<fk>>
    BY OneIs, UptoAll
  <2>. HIDE DEF H
  <2>2. ~(m + 1 < Len(H))
    BY <1>1
  <2>. QED
    BY <2>1, <2>2, <1>0, <1>1 DEF Heard
<1>. HIDE DEF H, N, top
<1>4. OutWay(H, m + 1, N, top, R2, Q2)
  <2>1. m + 1 <= Len(H)
    BY <1>1
  <2>2. \A i \in 1..m : R2[i].fn = R[i].fn /\ R2[i].fd = R[i].fd /\ Q2[i] = Q[i]
    BY <1>0
  <2>3. R2[m + 1].fn = 0 /\ Q2[m + 1] = <<>>
    BY <1>0
  <2>. QED
    BY ONLY <2>1, <2>2, <2>3, <1>1, <1>2, <1>3, OutExtend, m \in Nat
<1>5. OutLine(H, m + 1, N, x, y, R2, Q2)
  BY <1>2, <1>4 DEF OutLine, top
<1>. QED
  BY <1>5 DEF H, N

FirstHop(ms, fk, bk) == ms = <<HopState(fk, bk)>>

LEMMA LineFirst ==
  ASSUME NEW fk, NEW bk, NEW ms, FirstHop(ms, fk, bk), NEW R, NEW Q,
         R[1].fn = 0, R[1].fd = <<fk>>, Q[1] = <<>>
  PROVE  /\ LayersOK(ms) /\ KeysApart(ms) /\ ms[1].fn = 0 /\ Len(ms) = 1
         /\ OutLine(Chain(ms), 1, ms[1].fn, <<>>, <<>>, R, Q)
<1>1. IsSeq(ms) /\ Len(ms) = 1 /\ ms[1] = HopState(fk, bk)
  BY OneIs DEF FirstHop
<1>2. IsHop(ms[1]) /\ ms[1].fk = fk /\ ms[1].fn = 0 /\ ms[1].fd = <<fk>> /\ Len(ms[1].fd) = 1
  BY <1>1, HopStateIs
<1>3. LayersOK(ms) /\ KeysApart(ms)
  <2>1. \A i \in 1..1 : i = 1
    OBVIOUS
  <2>2. ASSUME NEW i \in 1..Len(ms)
        PROVE  IsHop(ms[i]) /\ Len(ms[i].fd) = (IF i < Len(ms) THEN ms[i].fn - ms[i + 1].fn ELSE ms[i].fn) + 1
    <3>1. i = 1 /\ ~(i < Len(ms))
      BY <2>1, <1>1
    <3>2. IsHop(ms[1]) /\ Len(ms[1].fd) = ms[1].fn + 1
      BY <1>2
    <3>. QED
      BY ONLY <3>1, <3>2
  <2>3. ASSUME NEW a \in 1..Len(ms), NEW b \in 1..Len(ms) PROVE ms[b].fn <= ms[a].fn /\ a = b
    <3>1. a = 1 /\ b = 1
      BY <2>1, <1>1
    <3>2. ms[1].fn <= ms[1].fn
      BY ONLY <1>2
    <3>. QED
      BY ONLY <3>1, <3>2
  <2>. QED
    BY <1>1, <2>2, <2>3 DEF LayersOK, KeysApart
<1>4. ChainOK(Chain(ms)) /\ Chain(ms)[1].o = 0 /\ Len(Chain(ms)) = 1
  BY <1>1, <1>3, ChainFull
<1>5. Chain(ms)[1].d = <<fk>>
  <2>1. 1 \in 1..Len(ms)
    BY <1>1
  <2>. QED
    BY <2>1, <1>2, <1>3, ChainIs
<1>. DEFINE G == Chain(ms)
<1>. HIDE DEF G
<1>6. Heard(G, 1, 0, R[1].fd)
  <2>1. Upto(<<fk>>, 1) = <<fk>>
    BY OneIs, UptoAll
  <2>2. G[1].d = <<fk>> /\ Len(G) = 1
    BY <1>4, <1>5 DEF G
  <2>. QED
    BY <2>1, <2>2 DEF Heard
<1>7. OutTurn(G, 0, R, 1) = 0 /\ OutTurn(G, 0, R, 0) = 0
  BY <1>4 DEF OutTurn, G
<1>8. Run(G, Q[1], 1, 0, 0)
  BY RunNone
<1>9. OutWay(G, 1, 0, 0, R, Q)
  <2>1. \A i \in 1..1 : i = 1 /\ i - 1 = 0
    OBVIOUS
  <2>. QED
    BY <2>1, <1>6, <1>7, <1>8 DEF OutWay
<1>10. HeldOK(G, 1, 0, <<>>, <<>>, 0, 0)
  BY DEF HeldOK, HeldOne
<1>11. 0 - One(<<>>) - One(<<>>) = 0
  <2>1. One(<<>>) = 0
    BY OneNat
  <2>. QED
    BY ONLY <2>1
<1>12. OutLine(G, 1, 0, <<>>, <<>>, R, Q)
  BY <1>9, <1>10, <1>11 DEF OutLine
<1>. QED
  BY <1>1, <1>2, <1>3, <1>12 DEF G

\* What a way back says of itself.
BackLineOK(G, m, w, x, y, R, Q, b, top) ==
  /\ b = BackTurn(G, w, R, m) /\ top = b - One(x) - One(y)
  /\ b \in Nat /\ top \in Nat /\ top <= b /\ w \in Nat
  /\ HeldOK(G, m, m - 1, x, y, top, b) /\ BackWay(G, m, w, top, R, Q)
  /\ (x = <<>> /\ y = <<>> => top = b)

LEMMA BackLineTop ==
  ASSUME NEW G, NEW m \in Nat, m >= 1, NEW w, NEW x, NEW y, NEW R, NEW Q, ChainOK(G), m <= Len(G),
         BackLine(G, m, w, x, y, R, Q), NEW b, b = BackTurn(G, w, R, m), NEW top, top = b - One(x) - One(y)
  PROVE  BackLineOK(G, m, w, x, y, R, Q, b, top)
<1>1. HeldOK(G, m, m - 1, x, y, top, b) /\ BackWay(G, m, w, top, R, Q)
  BY DEF BackLine
<1>2. w \in Nat /\ top \in Nat /\ top <= b
  BY <1>1, BackTurns
<1>3. b \in Nat
  <2>1. \A i \in 0..m : BackTurn(G, w, R, i) \in Nat
    BY <1>1, BackTurns
  <2>. QED
    BY <2>1
<1>4. x = <<>> /\ y = <<>> => top = b
  BY <1>3, OneNat
<1>. QED
  BY <1>1, <1>2, <1>3, <1>4 DEF BackLineOK

LEMMA BackLineSwap ==
  ASSUME NEW G, NEW m \in Nat, m >= 1, NEW w, NEW x, NEW y, NEW R, NEW Q, ChainOK(G), m <= Len(G),
         BackLine(G, m, w, x, y, R, Q)
  PROVE  BackLine(G, m, w, y, x, R, Q)
<1>. DEFINE b == BackTurn(G, w, R, m)
<1>1. b \in Nat
  <2>. DEFINE top == b - One(x) - One(y)
  <2>. HIDE DEF top
  <2>1. BackLineOK(G, m, w, x, y, R, Q, b, top)
    BY BackLineTop DEF top
  <2>. QED
    BY <2>1 DEF BackLineOK
<1>2. b - One(x) - One(y) = b - One(y) - One(x)
  <2>. HIDE DEF b
  <2>. QED
    BY <1>1, OneNat
<1>. QED
  BY <1>2, HeldSwap DEF BackLine

\* The last relay seals a cell, or wraps one that comes from beyond, and a task holds it.
LEMMA BackLineHold ==
  ASSUME NEW G, NEW H, NEW m \in Nat, m >= 1, NEW w, NEW x, NEW y, NEW R, NEW Q, NEW R2, NEW b,
         ChainOK(G), ChainOK(H), m <= Len(G), b = BackTurn(G, w, R, m), Grows(G, H, b), G[m].o = m - 1,
         BackLine(G, m, w, x, y, R, Q), x = <<>>, NEW c, CellOK(H, c, m, b), NEW t, t = R[m].bn,
         \A i \in 1..m : R2[i].bn = IF i = m THEN R[i].bn + 1 ELSE R[i].bn
  PROVE  BackLine(H, m, w, <<[cell |-> c, turn |-> t]>>, y, R2, Q)
<1>. DEFINE top == b - One(x) - One(y)
            h == <<[cell |-> c, turn |-> t]>>
<1>. HIDE DEF top
<1>1. BackLineOK(G, m, w, x, y, R, Q, b, top)
  BY BackLineTop DEF top
<1>2. b \in Nat /\ top \in Nat /\ top <= b /\ HeldOK(G, m, m - 1, x, y, top, b) /\ BackWay(G, m, w, top, R, Q)
  BY <1>1 DEF BackLineOK
<1>3. m \in 1..m /\ m \in 0..m
  OBVIOUS
<1>4. t \in Nat /\ t + (m - 1) = b /\ H[m].o = m - 1 /\ m <= Len(H)
  <2>1. BackHop(G, m, w, top, R, Q, m)
    BY <1>2, <1>3, BackTurns
  <2>2. R[m].bn \in Nat
    BY <2>1 DEF BackHop
  <2>3. b = R[m].bn + G[m].o
    BY DEF BackTurn
  <2>4. m \in 1..Len(G) /\ Len(G) \in Nat /\ Len(H) \in Nat
    BY IsSeqShape DEF ChainOK
  <2>5. H[m].o = G[m].o /\ Len(G) <= Len(H)
    BY <2>4 DEF Grows
  <2>. QED
    BY <2>2, <2>3, <2>4, <2>5
<1>5. BackWay(H, m, w, top, R2, Q) /\ BackTurn(H, w, R2, m) = b + 1
  <2>1. BackWay(H, m, w, top, R, Q)
    <3>1. \A i \in 1..m : R[i].bn = R[i].bn /\ Q[i] = Q[i]
      OBVIOUS
    <3>. QED
      BY <3>1, <1>2, BackGrows
  <2>2. BackWay(H, m, w, top, R2, Q) /\ BackTurn(H, w, R2, m) = BackTurn(H, w, R, m) + 1
    <3>1. /\ m \in Nat /\ m >= 1 /\ ChainOK(H) /\ m <= Len(H)
          /\ \A i \in 1..m : R2[i].bn = IF i = m THEN R[i].bn + 1 ELSE R[i].bn
      BY <1>4
    <3>. QED
      BY ONLY <2>1, <3>1, BackSeal
  <2>3. BackTurn(H, w, R, m) = b
    BY <1>4 DEF BackTurn
  <2>. QED
    BY <2>2, <2>3
<1>6. HeldOK(H, m, m - 1, x, y, top, b)
  <2>1. top \in Int /\ b \in Int /\ m - 1 \in Nat /\ m \in Nat \ {0}
    BY <1>2
  <2>. QED
    BY <2>1, <1>2, HeldGrows
<1>7. HeldOK(H, m, m - 1, h, y, top, b + 1)
  <2>1. top \in Int /\ b \in Int /\ m - 1 \in Nat
    BY <1>2
  <2>. QED
    BY <2>1, <1>2, <1>4, <1>6, HeldMore
<1>8. top = (b + 1) - One(h) - One(y)
  <2>1. One(h) = 1 /\ One(x) = 0 /\ One(y) \in Nat
    BY OneHeld, OneNat
  <2>. QED
    BY <2>1, <1>2 DEF top
<1>. HIDE DEF h
<1>9. BackLine(H, m, w, h, y, R2, Q)
  BY <1>5, <1>7, <1>8 DEF BackLine
<1>. QED
  BY <1>9 DEF h

LEMMA BackLineQueue ==
  ASSUME NEW G, NEW m \in Nat, m >= 1, NEW w, NEW x, NEW y, NEW R, NEW Q, NEW Q2,
         ChainOK(G), m <= Len(G), BackLine(G, m, w, x, y, R, Q),
         x # <<>>, ~(y # <<>> /\ y[1].turn < x[1].turn),
         Q2[m] = Append(Q[m], x[1].cell), \A i \in 1..m : i # m => Q2[i] = Q[i]
  PROVE  BackLine(G, m, w, <<>>, y, R, Q2)
<1>. DEFINE b == BackTurn(G, w, R, m)
            top == b - One(x) - One(y)
<1>. HIDE DEF top, b
<1>1. BackLineOK(G, m, w, x, y, R, Q, b, top)
  BY BackLineTop DEF top, b
<1>2. /\ b \in Nat /\ top \in Nat /\ top <= b /\ HeldOK(G, m, m - 1, x, y, top, b) /\ BackWay(G, m, w, top, R, Q)
      /\ top = b - One(x) - One(y) /\ b = BackTurn(G, w, R, m)
  BY <1>1 DEF BackLineOK
<1>3. One(x) = 1 /\ One(<<>>) = 0 /\ One(y) \in Nat
  BY OneNat
<1>4. top + 1 = b - One(<<>>) - One(y)
  BY <1>2, <1>3
<1>5. /\ x[1].turn + (m - 1) = top /\ CellOK(G, x[1].cell, m, top) /\ top + 1 <= b
      /\ HeldOK(G, m, m - 1, <<>>, y, top + 1, b)
  <2>1. top \in Int /\ b \in Int /\ m - 1 \in Nat
    BY <1>2
  <2>. QED
    BY <2>1, <1>2, HeldLeaves
<1>6. BackWay(G, m, w, top + 1, R, Q2)
  <2>1. top + 1 <= BackTurn(G, w, R, m)
    BY <1>2, <1>5
  <2>. QED
    BY <2>1, <1>2, <1>5, BackPush
<1>. QED
  BY <1>2, <1>4, <1>5, <1>6 DEF BackLine

\* What the last relay makes is queued at once.
LEMMA BackLineAnswer ==
  ASSUME NEW G, NEW H, NEW m \in Nat, m >= 1, NEW w, NEW R, NEW Q, NEW R2, NEW Q2, NEW b,
         ChainOK(G), ChainOK(H), m <= Len(G), b = BackTurn(G, w, R, m), Grows(G, H, b), G[m].o = m - 1,
         BackLine(G, m, w, <<>>, <<>>, R, Q), NEW c, CellOK(H, c, m, b),
         \A i \in 1..m : R2[i].bn = IF i = m THEN R[i].bn + 1 ELSE R[i].bn,
         Q2[m] = Append(Q[m], c), \A i \in 1..m : i # m => Q2[i] = Q[i]
  PROVE  BackLine(H, m, w, <<>>, <<>>, R2, Q2)
<1>. DEFINE h == <<[cell |-> c, turn |-> R[m].bn]>>
<1>1. BackLine(H, m, w, h, <<>>, R2, Q)
  BY BackLineHold
<1>2. m <= Len(H)
  BY IsSeqShape DEF ChainOK, Grows
<1>3. h # <<>> /\ h[1].cell = c
  BY OneIs
<1>. HIDE DEF h
<1>4. ~(<<>> # <<>> /\ <<>>[1].turn < h[1].turn)
  OBVIOUS
<1>5. Q2[m] = Append(Q[m], h[1].cell)
  BY <1>3
<1>. QED
  BY <1>1, <1>2, <1>3, <1>4, <1>5, BackLineQueue

\* A relay passes on what the next has sent.
LEMMA BackLinePass ==
  ASSUME NEW G, NEW m \in Nat, NEW w, NEW x, NEW y, NEW R, NEW Q, NEW R2, NEW Q2, NEW i \in 1..m, i < m, NEW P,
         ChainOK(G), m <= Len(G), BackLine(G, m, w, x, y, R, Q), Q[i + 1] # <<>>,
         CellOK(G, P, i, BackTurn(G, w, R, i)),
         \A j \in 1..m : R2[j].bn = IF j = i THEN R[j].bn + 1 ELSE R[j].bn,
         Q2[i] = Append(Q[i], P), Q2[i + 1] = Tail(Q[i + 1]), \A j \in 1..m : j # i /\ j # i + 1 => Q2[j] = Q[j]
  PROVE  BackLine(G, m, w, x, y, R2, Q2)
<1>. DEFINE b == BackTurn(G, w, R, m)
            top == b - One(x) - One(y)
<1>1. HeldOK(G, m, m - 1, x, y, top, b) /\ BackWay(G, m, w, top, R, Q)
  BY DEF BackLine
<1>2. BackTurn(G, w, R2, m) = b
  <2>1. m \in 1..m /\ m # i
    OBVIOUS
  <2>2. R2[m].bn = R[m].bn
    BY <2>1
  <2>. QED
    BY <2>1, <2>2 DEF BackTurn
<1>3. top = b - One(x) - One(y)
  OBVIOUS
<1>. HIDE DEF b, top
<1>4. BackWay(G, m, w, top, R2, Q2)
  BY <1>1, BackPass
<1>. QED
  BY <1>1, <1>2, <1>3, <1>4 DEF BackLine

\* The origin reads the next cell.
LEMMA BackLineRead ==
  ASSUME NEW G, NEW m \in Nat, m >= 1, NEW w, NEW x, NEW y, NEW R, NEW Q, NEW Q2, ChainOK(G), m <= Len(G),
         BackLine(G, m, w, x, y, R, Q), Q[1] # <<>>, Q2[1] = Tail(Q[1]), \A i \in 2..m : Q2[i] = Q[i]
  PROVE  /\ BackLine(G, m, w + 1, x, y, R, Q2) /\ CellOK(G, Head(Q[1]), 1, w) /\ w \in Nat
         /\ w < BackTurn(G, w, R, m) /\ BackTurn(G, w + 1, R, m) = BackTurn(G, w, R, m)
<1>. DEFINE b == BackTurn(G, w, R, m)
            top == b - One(x) - One(y)
<1>1. HeldOK(G, m, m - 1, x, y, top, b) /\ BackWay(G, m, w, top, R, Q)
  BY DEF BackLine
<1>2. top = b - One(x) - One(y) /\ b = BackTurn(G, w, R, m)
  OBVIOUS
<1>. HIDE DEF b, top
<1>3. BackWay(G, m, w + 1, top, R, Q2) /\ CellOK(G, Head(Q[1]), 1, w) /\ w < BackTurn(G, w, R, m)
         /\ BackTurn(G, w + 1, R, m) = BackTurn(G, w, R, m)
  BY <1>1, BackRead
<1>4. w \in Nat
  BY <1>1 DEF BackWay
<1>. QED
  BY <1>1, <1>2, <1>3, <1>4 DEF BackLine

\* More is said through the way, or beyond it.
LEMMA BackLineGrows ==
  ASSUME NEW G, NEW H, NEW m \in Nat, m >= 1, NEW w, NEW x, NEW y, NEW R, NEW Q, NEW R2, NEW Q2, NEW b,
         ChainOK(G), ChainOK(H), m <= Len(G), b = BackTurn(G, w, R, m), Grows(G, H, b),
         BackLine(G, m, w, x, y, R, Q), \A i \in 1..m : R2[i].bn = R[i].bn /\ Q2[i] = Q[i]
  PROVE  BackLine(H, m, w, x, y, R2, Q2)
<1>. DEFINE top == b - One(x) - One(y)
<1>. HIDE DEF top
<1>1. BackLineOK(G, m, w, x, y, R, Q, b, top)
  BY BackLineTop DEF top
<1>2. /\ b \in Nat /\ top \in Nat /\ HeldOK(G, m, m - 1, x, y, top, b) /\ BackWay(G, m, w, top, R, Q)
      /\ top = b - One(x) - One(y)
  BY <1>1 DEF BackLineOK
<1>3. BackWay(H, m, w, top, R2, Q2)
  BY <1>2, BackGrows
<1>4. HeldOK(H, m, m - 1, x, y, top, b)
  <2>1. top \in Int /\ b \in Int /\ m - 1 \in Nat /\ m \in Nat \ {0}
    BY <1>2
  <2>. QED
    BY <2>1, <1>2, HeldGrows
<1>5. BackTurn(H, w, R2, m) = b
  <2>1. m \in 1..m /\ m \in 1..Len(G) /\ m # 0
    BY IsSeqShape DEF ChainOK
  <2>2. H[m].o = G[m].o /\ R2[m].bn = R[m].bn
    BY <2>1 DEF Grows
  <2>. QED
    BY <2>1, <2>2 DEF BackTurn
<1>. QED
  BY <1>2, <1>3, <1>4, <1>5 DEF BackLine

LEMMA BackLineFrame ==
  ASSUME NEW G, NEW m \in Nat, m >= 1, NEW w, NEW x, NEW y, NEW R, NEW Q, NEW R2, NEW Q2, ChainOK(G), m <= Len(G),
         BackLine(G, m, w, x, y, R, Q), \A i \in 1..m : R2[i].bn = R[i].bn /\ Q2[i] = Q[i]
  PROVE  BackLine(G, m, w, x, y, R2, Q2)
<1>. DEFINE b == BackTurn(G, w, R, m)
<1>1. Grows(G, G, b)
  BY GrowsSame
<1>. QED
  BY <1>1, BackLineGrows

\* A new relay, which has sent nothing; and the first.
BackBefore(m, R, Q, R2, Q2) == \A i \in 1..m : R2[i].bn = R[i].bn /\ Q2[i] = Q[i]
BackNewAt(n, R2, Q2) == R2[n].bn = 0 /\ Q2[n] = <<>>
LEMMA BackLineExtend ==
  ASSUME NEW G, NEW H, NEW m \in Nat, m >= 1, NEW w, NEW R, NEW Q, NEW R2, NEW Q2, NEW b, ChainOK(G), ChainOK(H),
         m <= Len(G), m + 1 <= Len(H), b = BackTurn(G, w, R, m), Grows(G, H, b), H[m + 1].o = b,
         BackLine(G, m, w, <<>>, <<>>, R, Q), BackBefore(m, R, Q, R2, Q2), BackNewAt(m + 1, R2, Q2)
  PROVE  BackLine(H, m + 1, w, <<>>, <<>>, R2, Q2)
<1>0. (\A i \in 1..m : R2[i].bn = R[i].bn /\ Q2[i] = Q[i]) /\ R2[m + 1].bn = 0 /\ Q2[m + 1] = <<>>
  BY DEF BackBefore, BackNewAt
<1>. DEFINE top == b - One(<<>>) - One(<<>>)
<1>. HIDE DEF top
<1>1. BackLineOK(G, m, w, <<>>, <<>>, R, Q, b, top)
  BY BackLineTop DEF top
<1>2. b \in Nat /\ top = b /\ BackWay(G, m, w, b, R, Q)
  BY <1>1 DEF BackLineOK
<1>3. BackWay(H, m, w, b, R, Q)
  <2>1. \A i \in 1..m : R[i].bn = R[i].bn /\ Q[i] = Q[i]
    OBVIOUS
  <2>. QED
    BY <2>1, <1>2, BackGrows
<1>4. b = BackTurn(H, w, R, m)
  <2>1. m \in 1..Len(G) /\ m # 0
    BY IsSeqShape DEF ChainOK
  <2>2. H[m].o = G[m].o
    BY <2>1 DEF Grows
  <2>. QED
    BY <2>1, <2>2 DEF BackTurn
<1>5. BackWay(H, m + 1, w, b, R2, Q2) /\ BackTurn(H, w, R2, m + 1) = b
  <2>1. \A i \in 1..m : R2[i].bn = R[i].bn /\ Q2[i] = Q[i]
    BY <1>0
  <2>2. R2[m + 1].bn = 0 /\ Q2[m + 1] = <<>> /\ m + 1 <= Len(H)
    BY <1>0
  <2>. QED
    <3>1. m \in Nat /\ ChainOK(H) /\ H[m + 1].o = b
      OBVIOUS
    <3>. QED
      BY ONLY <1>3, <1>4, <2>1, <2>2, <3>1, BackExtend
<1>6. HeldOK(H, m + 1, (m + 1) - 1, <<>>, <<>>, b, b)
  BY DEF HeldOK, HeldOne
<1>7. b - One(<<>>) - One(<<>>) = b
  BY <1>2, OneNat
<1>. QED
  BY <1>5, <1>6, <1>7 DEF BackLine

LEMMA BackLineFirst ==
  ASSUME NEW G, ChainOK(G), Len(G) >= 1, G[1].o = 0, NEW R, NEW Q, R[1].bn = 0, Q[1] = <<>>
  PROVE  BackLine(G, 1, 0, <<>>, <<>>, R, Q)
<1>1. BackTurn(G, 0, R, 1) = 0 /\ BackTurn(G, 0, R, 0) = 0 /\ BackFed(G, 1, 0, R, 1) = 0
  BY DEF BackTurn, BackFed
<1>2. Run(G, Q[1], 1, 0, 0)
  BY RunNone
<1>3. BackWay(G, 1, 0, 0, R, Q)
  <2>1. \A i \in 1..1 : i = 1 /\ i - 1 = 0
    OBVIOUS
  <2>. QED
    BY <2>1, <1>1, <1>2 DEF BackWay
<1>4. HeldOK(G, 1, 1 - 1, <<>>, <<>>, 0, 0)
  BY DEF HeldOK, HeldOne
<1>5. 0 - One(<<>>) - One(<<>>) = 0
  <2>1. One(<<>>) = 0
    BY OneNat
  <2>. QED
    BY ONLY <2>1
<1>. QED
  BY <1>1, <1>3, <1>4, <1>5 DEF BackLine

-----------------------------------------------------------------------------
(* What the shape of a state says. *)

LEMMA LegIs ==
  /\ PathLen \in Nat /\ PathLen >= 1 /\ Meet \in Leg /\ Point = LegTo(PathLen) /\ Client = LegTo(1)
  /\ \A i \in 1..PathLen : LegTo(i) \in Leg
  /\ \A l \in Leg : l = Meet \/ \E i \in 1..PathLen : l = LegTo(i)
<1>1. PathLen \in Nat /\ PathLen >= 1
  BY OnionAssumption
<1>2. Hops("client") = PathLen /\ Hops("service") = 1
  BY DEF Hops
<1>3. Leg = {LegTo(i) : i \in 1..PathLen} \union {Meet}
  <2>1. Leg = {<<"client", i>> : i \in 1..Hops("client")} \union {<<"service", i>> : i \in 1..Hops("service")}
    BY Zenon DEF Leg, OriginEnd
  <2>2. {<<"service", i>> : i \in 1..1} = {Meet}
    <3>1. \A i \in 1..1 : i = 1
      OBVIOUS
    <3>2. 1 \in 1..1
      OBVIOUS
    <3>. QED
      BY ONLY <3>1, <3>2, Zenon DEF Meet
  <2>. QED
    BY <1>2, <2>1, <2>2 DEF LegTo
<1>. QED
  BY <1>1, <1>3 DEF Point, Client, LegTo

LEMMA LegApart ==
  /\ \A i \in Int : LegTo(i) # Meet
  /\ \A i, j \in Int : LegTo(i) = LegTo(j) => i = j
BY DEF LegTo, Meet

LEMMA KeysAre ==
  /\ \A l : FK(l) # C2H /\ FK(l) # H2C /\ BK(l) # C2H /\ BK(l) # H2C
  /\ \A l, m : FK(l) # BK(m) /\ (FK(l) = FK(m) => l = m) /\ (BK(l) = BK(m) => l = m)
  /\ C2H # H2C
BY DEF FK, BK, C2H, H2C

\* The layers of an end, hop by hop, and end to end.
EndLayers(oc, e, k, ck, sk) ==
  /\ Len(oc.hops) = k /\ k \in Nat /\ Len(oc.e2e) \in 0..1 /\ (oc.e2e = <<>> <=> Len(oc.e2e) = 0)
  /\ (oc.e2e # <<>> <=> Len(oc.e2e) = 1) /\ (oc.hops = <<>> <=> k = 0)
  /\ (oc.e2e # <<>> => k = Hops(e)) /\ k <= Hops(e)
  /\ IsSeq(Layers(oc)) /\ Len(Layers(oc)) = k + Len(oc.e2e) /\ IsSeq(oc.hops)
  /\ OriginOK(oc)
  /\ \A i \in 1..k : /\ Layers(oc)[i] = oc.hops[i] /\ Layers(oc)[i].fk = FK(<<e, i>>)
                     /\ Layers(oc)[i].bk = BK(<<e, i>>) /\ <<e, i>> \in DOMAIN relays
  /\ oc.e2e # <<>> => /\ Layers(oc)[k + 1] = oc.e2e[1] /\ Layers(oc)[k + 1].fk = ck /\ Layers(oc)[k + 1].bk = sk
                      /\ oc.e2e[1].fk = ck /\ oc.e2e[1].bk = sk
  /\ KeysApart(Layers(oc))

LEMMA EndLayersAre ==
  ASSUME NEW e, NEW oc, oc = origin[e], EndOK(e), NEW k, k = Len(oc.hops), NEW ck, NEW sk, \A l : FK(l) # ck,
         \A i \in 1..Len(oc.e2e) : oc.e2e[i].fk = ck /\ oc.e2e[i].bk = sk
  PROVE  EndLayers(oc, e, k, ck, sk)
<1>1. /\ Len(oc.hops) \in Nat /\ Len(oc.e2e) \in Nat
      /\ IsSeq(Layers(oc)) /\ Len(Layers(oc)) = Len(oc.hops) + Len(oc.e2e)
      /\ \A i \in 1..Len(oc.hops) : Layers(oc)[i] = oc.hops[i]
      /\ \A i \in 1..Len(oc.e2e) : Layers(oc)[Len(oc.hops) + i] = oc.e2e[i]
  BY LayersOf DEF EndOK
<1>2. IsSeq(oc.hops) /\ IsSeq(oc.e2e) /\ OriginOK(oc)
  BY DEF EndOK, OriginOK
<1>3. (oc.e2e = <<>> <=> Len(oc.e2e) = 0) /\ (oc.hops = <<>> <=> k = 0)
  BY <1>2, EmptyLen
<1>4. Len(oc.e2e) <= 1 /\ (oc.e2e # <<>> => k = Hops(e)) /\ k <= Hops(e)
  BY DEF EndOK
<1>5. Len(oc.e2e) \in 0..1 /\ (oc.e2e # <<>> <=> Len(oc.e2e) = 1)
  <2>. DEFINE n == Len(oc.e2e)
  <2>1. n \in Nat /\ n <= 1 /\ (oc.e2e = <<>> <=> n = 0)
    BY <1>1, <1>3, <1>4
  <2>. HIDE DEF n
  <2>2. n \in 0..1 /\ (oc.e2e # <<>> <=> n = 1)
    BY ONLY <2>1
  <2>. QED
    BY <2>2 DEF n
<1>6. ASSUME NEW i \in 1..k
      PROVE  /\ Layers(oc)[i] = oc.hops[i] /\ Layers(oc)[i].fk = FK(<<e, i>>)
             /\ Layers(oc)[i].bk = BK(<<e, i>>) /\ <<e, i>> \in DOMAIN relays
  BY <1>1 DEF EndOK
<1>7. ASSUME oc.e2e # <<>>
      PROVE  /\ Layers(oc)[k + 1] = oc.e2e[1] /\ Layers(oc)[k + 1].fk = ck /\ Layers(oc)[k + 1].bk = sk
             /\ oc.e2e[1].fk = ck /\ oc.e2e[1].bk = sk
  <2>1. 1 \in 1..Len(oc.e2e)
    BY <1>5, <1>7
  <2>. QED
    BY <2>1, <1>1
<1>8. KeysApart(Layers(oc))
  <2>1. SUFFICES ASSUME NEW a \in 1..Len(Layers(oc)), NEW b \in 1..Len(Layers(oc)), a # b
                 PROVE  Layers(oc)[a].fk # Layers(oc)[b].fk
    BY DEF KeysApart
  <2>2. /\ \A i \in 1..Len(Layers(oc)) : i \in 1..k \/ (i = k + 1 /\ oc.e2e # <<>>)
        /\ k + 1 \notin 1..k
    <3>. DEFINE n == Len(oc.e2e)
                N == Len(Layers(oc))
    <3>1. n \in 0..1 /\ (oc.e2e # <<>> <=> n = 1) /\ N = k + n /\ k \in Nat
      BY <1>1, <1>5
    <3>. HIDE DEF n, N
    <3>2. (\A i \in 1..N : i \in 1..k \/ (i = k + 1 /\ oc.e2e # <<>>)) /\ k + 1 \notin 1..k
      BY ONLY <3>1
    <3>. QED
      BY <3>2 DEF N
  <2>3. CASE a \in 1..k /\ b \in 1..k
    <3>1. <<e, a>> # <<e, b>>
      BY <2>1
    <3>2. FK(<<e, a>>) # FK(<<e, b>>)
      BY <3>1, KeysAre
    <3>. QED
      BY <2>3, <3>2, <1>6
  <2>4. CASE a \in 1..k /\ b = k + 1 /\ oc.e2e # <<>>
    <3>1. Layers(oc)[a].fk = FK(<<e, a>>) /\ FK(<<e, a>>) # ck
      BY <2>4, <1>6
    <3>2. Layers(oc)[b].fk = ck
      BY <2>4, <1>7
    <3>. QED
      BY <3>1, <3>2
  <2>5. CASE b \in 1..k /\ a = k + 1 /\ oc.e2e # <<>>
    <3>1. Layers(oc)[b].fk = FK(<<e, b>>) /\ FK(<<e, b>>) # ck
      BY <2>5, <1>6
    <3>2. Layers(oc)[a].fk = ck
      BY <2>5, <1>7
    <3>. QED
      BY <3>1, <3>2
  <2>. QED
    BY <2>1, <2>2, <2>3, <2>4, <2>5
<1>. QED
  BY <1>1, <1>2, <1>3, <1>4, <1>5, <1>6, <1>7, <1>8 DEF EndLayers

\* The two ends, and the chains of what they send.
ClientIs == EndLayers(ClientEnd, "client", Known, C2H, H2C)
ServiceIs == EndLayers(ServiceEnd, "service", Len(ServiceEnd.hops), H2C, C2H)

LEMMA EndsAre == Shape => ClientIs /\ ServiceIs
<1>. SUFFICES ASSUME Shape PROVE ClientIs /\ ServiceIs
  OBVIOUS
<1>1. /\ EndOK("client") /\ EndOK("service")
      /\ \A i \in 1..Len(ClientEnd.e2e) : ClientEnd.e2e[i].fk = C2H /\ ClientEnd.e2e[i].bk = H2C
      /\ \A i \in 1..Len(ServiceEnd.e2e) : ServiceEnd.e2e[i].fk = H2C /\ ServiceEnd.e2e[i].bk = C2H
  BY DEF Shape, OriginEnd
<1>2. /\ \A l : FK(l) # C2H
      /\ \A l : FK(l) # H2C
  BY KeysAre
<1>3. ClientIs
  BY <1>1, <1>2, EndLayersAre DEF ClientIs, ClientEnd, Known
<1>4. ServiceIs
  BY <1>1, <1>2, EndLayersAre DEF ServiceIs, ServiceEnd
<1>. QED
  BY <1>3, <1>4
LEMMA EndsAreNext == Shape' => ClientIs' /\ ServiceIs'
BY EndsAre, PTL

\* A chain of layers that leads through m hops.
ChainIsFor(ls, m) ==
  /\ LayersOK(ls) /\ KeysApart(ls) /\ m <= Len(ls) /\ Len(ls) \in Nat /\ Len(ls) >= 1 /\ IsSeq(ls)
  /\ ChainOK(Chain(ls)) /\ LogsFull(Chain(ls)) /\ Full(Chain(ls), ls[1].fn) /\ ls[1].fn \in Nat
  /\ Chain(ls)[1].o = 0 /\ Len(Chain(ls)) = Len(ls)
  /\ \A i \in 1..Len(ls) : /\ Chain(ls)[i].k = ls[i].fk /\ Chain(ls)[i].d = ls[i].fd /\ Chain(ls)[i].o \in Nat
                           /\ Chain(ls)[i].o = ls[1].fn - ls[i].fn /\ IsHop(ls[i])

LEMMA ChainFor ==
  ASSUME NEW ls, LayersOK(ls), KeysApart(ls), NEW m \in Nat, m >= 1, m <= Len(ls)
  PROVE  ChainIsFor(ls, m)
<1>1. Len(ls) \in Nat /\ IsSeq(ls)
  BY ChainIs DEF LayersOK
<1>2. Len(ls) >= 1
  BY <1>1
<1>3. /\ ChainOK(Chain(ls)) /\ LogsFull(Chain(ls)) /\ Full(Chain(ls), ls[1].fn) /\ ls[1].fn \in Nat
      /\ Chain(ls)[1].o = 0 /\ Len(Chain(ls)) = Len(ls)
  BY <1>2, ChainFull
<1>4. \A i \in 1..Len(ls) : /\ Chain(ls)[i].k = ls[i].fk /\ Chain(ls)[i].d = ls[i].fd
                            /\ Chain(ls)[i].o = ls[1].fn - ls[i].fn /\ IsHop(ls[i])
  BY ChainIs DEF LayersOK
<1>5. \A i \in 1..Len(ls) : Chain(ls)[i].o \in Nat
  BY <1>3 DEF ChainOK
<1>. QED
  BY <1>1, <1>2, <1>3, <1>4, <1>5 DEF ChainIsFor

ClientChain == Known > 0 => ChainIsFor(ClientLayers, Known)
ServiceChain == Len(ServiceEnd.hops) > 0 => ChainIsFor(ServiceLayers, 1)

LEMMA ChainsAre ==
  /\ Shape /\ ClientOut => ClientChain
  /\ Shape /\ ServiceWayOut => ServiceChain
<1>1. ASSUME Shape, ClientOut, Known > 0 PROVE ChainIsFor(ClientLayers, Known)
  <2>1. EndLayers(ClientEnd, "client", Known, C2H, H2C)
    BY <1>1, EndsAre DEF ClientIs
  <2>2. /\ Known \in Nat /\ Len(ClientEnd.e2e) \in 0..1 /\ Len(ClientLayers) = Known + Len(ClientEnd.e2e) /\ KeysApart(ClientLayers)
    BY <2>1 DEF EndLayers, ClientLayers
  <2>3. Known >= 1 /\ Known <= Len(ClientLayers)
    BY <1>1, <2>2
  <2>4. LayersOK(ClientLayers)
    BY <1>1 DEF ClientOut
  <2>. QED
    BY <2>2, <2>3, <2>4, ChainFor
<1>2. ASSUME Shape, ServiceWayOut, Len(ServiceEnd.hops) > 0 PROVE ChainIsFor(ServiceLayers, 1)
  <2>. DEFINE k == Len(ServiceEnd.hops)
  <2>1. EndLayers(ServiceEnd, "service", k, H2C, C2H)
    BY <1>2, EndsAre DEF ServiceIs
  <2>2. /\ k \in Nat /\ Len(ServiceEnd.e2e) \in 0..1 /\ Len(ServiceLayers) = k + Len(ServiceEnd.e2e) /\ KeysApart(ServiceLayers)
    BY <2>1 DEF EndLayers, ServiceLayers
  <2>3. 1 <= Len(ServiceLayers) /\ 1 \in Nat /\ 1 >= 1
    <3>. DEFINE n == Len(ServiceEnd.e2e)
    <3>1. k > 0 /\ k \in Nat /\ n \in 0..1 /\ Len(ServiceLayers) = k + n
      BY <1>2, <2>2
    <3>. HIDE DEF k, n
    <3>. QED
      BY ONLY <3>1
  <2>4. LayersOK(ServiceLayers)
    BY <1>2 DEF ServiceWayOut
  <2>. QED
    BY ONLY <2>2, <2>3, <2>4, ChainFor
<1>. QED
  BY <1>1, <1>2 DEF ClientChain, ServiceChain
LEMMA ChainsAreNext ==
  /\ Shape' /\ ClientOut' => ClientChain'
  /\ Shape' /\ ServiceWayOut' => ServiceChain'
BY ChainsAre, PTL

LEMMA RelayIs ==
  Shape => \A l \in DOMAIN relays : /\ l \in Leg /\ IsHop(relays[l].hop) /\ relays[l].hop.fk = FK(l) /\ relays[l].hop.bk = BK(l)
                                    /\ relays[l] = [hop |-> relays[l].hop, next |-> relays[l].next, awaiting |-> relays[l].awaiting]
BY DEF Shape, RelayOK

LEMMA KnownRelays == ClientIs => Known \in Nat /\ Known <= PathLen /\ \A i \in 1..Known : LegTo(i) \in DOMAIN relays
BY DEF ClientIs, EndLayers, LegTo, Hops

\* What the control of the fetch and of the service says of the two ends.
LEMMA ControlSays ==
  Control =>
    /\ (ServiceEnd.e2e # <<>> => Known = PathLen /\ fetching = "introduced" /\ rendezvousing = "installed" /\ Len(ServiceEnd.hops) = 1)
    /\ (rendezvousing \in {"sent", "installed"} => Known = PathLen /\ fetching = "introduced" /\ Len(ServiceEnd.hops) = 1)
BY DEF Control

LEMMA SaidIs ==
  \A i : LET s == SaidAt(i) IN IsSeq(s) /\ Len(s) \in 1..3 /\ s[1] = BK(LegTo(i))
<1>. SUFFICES ASSUME NEW i PROVE IsSeq(SaidAt(i)) /\ Len(SaidAt(i)) \in 1..3 /\ SaidAt(i)[1] = BK(LegTo(i))
  OBVIOUS
<1>. DEFINE Short(s, a) == IsSeq(s) /\ Len(s) \in 1..3 /\ s[1] = a
<1>0. \A s, a : IsSeq(s) /\ (Len(s) = 1 \/ Len(s) = 2 \/ Len(s) = 3) /\ s[1] = a => Short(s, a)
  OBVIOUS
<1>1. ASSUME NEW a PROVE Short(<<a>>, a)
  <2>1. IsSeq(<<a>>) /\ Len(<<a>>) = 1 /\ <<a>>[1] = a
    BY OneIs
  <2>. HIDE DEF Short
  <2>. QED
    BY ONLY <2>1, <1>0
<1>2. ASSUME NEW a, NEW b PROVE Short(<<a, b>>, a)
  <2>1. IsSeq(<<a, b>>) /\ Len(<<a, b>>) = 2 /\ <<a, b>>[1] = a
    BY TwoIs
  <2>. HIDE DEF Short
  <2>. QED
    BY ONLY <2>1, <1>0
<1>3. ASSUME NEW a, NEW b, NEW c PROVE Short(<<a, b, c>>, a)
  <2>1. <<a, b, c>> \in Seq({a, b, c}) /\ Len(<<a, b, c>>) = 3 /\ <<a, b, c>>[1] = a
    OBVIOUS
  <2>2. IsSeq(<<a, b, c>>)
    BY <2>1, SeqIs
  <2>. HIDE DEF Short
  <2>. QED
    BY ONLY <2>1, <2>2, <1>0
<1>. DEFINE k == BK(LegTo(i))
<1>4. \/ SaidAt(i) = <<k>>
      \/ \E b : SaidAt(i) = <<k, b>>
      \/ \E b, c : SaidAt(i) = <<k, b, c>>
  BY DEF SaidAt
<1>5. Short(SaidAt(i), k)
  <2>. HIDE DEF Short, k
  <2>. QED
    BY ONLY <1>1, <1>2, <1>3, <1>4
<1>. QED
  BY <1>5

BackIs ==
  /\ ChainOK(ChainBack) /\ Known <= Len(ChainBack) /\ Len(ChainBack) \in Nat
  /\ Len(ChainBack) = (IF ServiceEnd.e2e = <<>> THEN Known ELSE PathLen + 1)
  /\ ServiceEnd.e2e # <<>> => Known = PathLen
  /\ \A i \in 1..Known : ChainBack[i].k = BK(LegTo(i)) /\ ChainBack[i].o = i - 1 /\ ChainBack[i].d = RelayHop(i).bd
  /\ ServiceEnd.e2e # <<>> => /\ ChainBack[PathLen + 1].k = H2C /\ ChainBack[PathLen + 1].o = PathLen + 1
                              /\ ChainBack[PathLen + 1].d = ServiceEnd.e2e[1].fd
MeetBackIs ==
  /\ ChainOK(MeetBack) /\ Len(MeetBack) = (IF ClientEnd.e2e = <<>> THEN 1 ELSE 2)
  /\ MeetBack[1].k = BK(Meet) /\ MeetBack[1].o = 0 /\ MeetBack[1].d = <<BK(Meet)>>
  /\ ClientEnd.e2e # <<>> => MeetBack[2].k = C2H /\ MeetBack[2].o = 0 /\ MeetBack[2].d = ClientEnd.e2e[1].fd

LEMMA BackChain == ClientIs /\ RelaysSaid /\ ServiceIs /\ ServiceWayOut /\ Control => BackIs
<1>. SUFFICES ASSUME ClientIs, RelaysSaid, ServiceIs, ServiceWayOut, Control PROVE BackIs
  OBVIOUS
<1>1. Known \in Nat /\ Known <= PathLen /\ PathLen \in Nat
  BY KnownRelays, LegIs
<1>2. ServiceEnd.e2e # <<>> => Known = PathLen
  BY ControlSays
<1>. DEFINE L == IF ServiceEnd.e2e = <<>> THEN Known ELSE PathLen + 1
            G == ChainBack
<1>3. L \in Nat /\ Known <= L /\ 1..L = 1..Known \union (IF ServiceEnd.e2e # <<>> THEN {PathLen + 1} ELSE {})
      /\ PathLen + 1 \notin 1..Known
  <2>1. CASE ServiceEnd.e2e = <<>>
    <3>1. L = Known
      BY <2>1
    <3>. HIDE DEF L
    <3>. QED
      BY <3>1, <1>1, <2>1
  <2>2. CASE ServiceEnd.e2e # <<>>
    <3>1. L = PathLen + 1 /\ Known = PathLen
      BY <2>2, <1>2
    <3>. HIDE DEF L
    <3>. QED
      BY <3>1, <1>1, <2>2
  <2>. QED
    BY <2>1, <2>2
<1>4. G = [i \in 1..L |-> G[i]]
  BY DEF ChainBack
<1>. HIDE DEF L
<1>5. IsSeq(G) /\ Len(G) = L
  BY <1>3, <1>4, FunIs
<1>6. \A i \in 1..Known : G[i].k = BK(LegTo(i)) /\ G[i].o = i - 1 /\ G[i].d = RelayHop(i).bd
  <2>1. \A i \in 1..Known : i \in 1..L /\ i <= Known
    BY <1>1, <1>3
  <2>. QED
    BY <2>1 DEF L, ChainBack
<1>7. ASSUME ServiceEnd.e2e # <<>>
      PROVE  G[PathLen + 1].k = H2C /\ G[PathLen + 1].o = PathLen + 1 /\ G[PathLen + 1].d = ServiceEnd.e2e[1].fd
  <2>1. PathLen + 1 \in 1..L /\ ~(PathLen + 1 <= Known)
    BY <1>1, <1>3, <1>7
  <2>. QED
    BY <2>1 DEF L, ChainBack
<1>8. \A i \in 1..Known : IsSeq(RelayHop(i).bd) /\ Len(RelayHop(i).bd) >= 1
  <2>1. \A i \in 1..Known : RelayHop(i).bd = SaidAt(i)
    BY DEF RelaysSaid
  <2>. QED
    BY <2>1, SaidIs
<1>9. ASSUME ServiceEnd.e2e # <<>> PROVE IsSeq(ServiceEnd.e2e[1].fd) /\ Len(ServiceEnd.e2e[1].fd) >= 1
  <2>1. LayersOK(ServiceLayers)
    BY DEF ServiceWayOut
  <2>2. Len(ServiceEnd.hops) \in Nat
    BY DEF ServiceIs, EndLayers
  <2>3. Len(ServiceEnd.e2e) = 1 /\ ServiceLayers[Len(ServiceEnd.hops) + 1] = ServiceEnd.e2e[1] /\ Len(ServiceLayers) = Len(ServiceEnd.hops) + 1
    BY <1>9 DEF ServiceIs, EndLayers, ServiceLayers
  <2>4. Len(ServiceEnd.hops) + 1 \in 1..Len(ServiceLayers)
    BY <2>2, <2>3
  <2>. QED
    BY <2>1, <2>3, <2>4, LayersNat
<1>. HIDE DEF G
<1>10. \A i \in 1..L : G[i].o \in Nat /\ IsSeq(G[i].d) /\ Len(G[i].d) >= 1
  <2>1. \A i \in 1..Known : G[i].o \in Nat
    BY <1>1, <1>6
  <2>2. ServiceEnd.e2e # <<>> => G[PathLen + 1].o \in Nat
    BY <1>1, <1>7
  <2>. QED
    BY <1>3, <1>6, <1>7, <1>8, <1>9, <2>1, <2>2
<1>11. \A a, b \in 1..L : a <= b => G[a].o <= G[b].o
  <2>. TAKE a \in 1..L, b \in 1..L
  <2>1. CASE a \in 1..Known /\ b \in 1..Known
    BY <2>1, <1>1, <1>6
  <2>2. CASE ~(a \in 1..Known /\ b \in 1..Known) /\ a <= b
    <3>1. ServiceEnd.e2e # <<>> /\ b = PathLen + 1 /\ (a \in 1..Known \/ a = PathLen + 1)
      <4>1. \A i \in 1..L : i \in 1..Known \/ (ServiceEnd.e2e # <<>> /\ i = PathLen + 1)
        BY <1>3
      <4>2. a \in 1..Known \/ (ServiceEnd.e2e # <<>> /\ a = PathLen + 1)
        BY <4>1
      <4>3. b \in 1..Known \/ (ServiceEnd.e2e # <<>> /\ b = PathLen + 1)
        BY <4>1
      <4>4. ~(a = PathLen + 1 /\ b \in 1..Known)
        BY <2>2, <1>1
      <4>. QED
        BY ONLY <2>2, <4>2, <4>3, <4>4
    <3>2. G[b].o = PathLen + 1 /\ (a = PathLen + 1 \/ G[a].o = a - 1)
      BY <3>1, <1>6, <1>7
    <3>3. a <= PathLen + 1 /\ a \in Int /\ G[a].o \in Nat
      BY <3>1, <1>1, <1>10
    <3>. QED
      BY <3>1, <3>2, <3>3, <1>1
  <2>. QED
    BY <2>1, <2>2
<1>12. \A a, b \in 1..L : a # b => G[a].k # G[b].k
  <2>. TAKE a \in 1..L, b \in 1..L
  <2>1. \A i \in 1..Known : i \in Int
    BY <1>1
  <2>2. CASE a \in 1..Known /\ b \in 1..Known
    BY <2>1, <2>2, <1>6, KeysAre, LegApart
  <2>3. CASE a \in 1..Known /\ b \notin 1..Known
    BY <2>3, <1>3, <1>6, <1>7, KeysAre
  <2>4. CASE b \in 1..Known /\ a \notin 1..Known
    BY <2>4, <1>3, <1>6, <1>7, KeysAre
  <2>5. CASE a \notin 1..Known /\ b \notin 1..Known
    BY <2>5, <1>3
  <2>. QED
    BY <2>2, <2>3, <2>4, <2>5
<1>13. ChainOK(G)
  BY <1>5, <1>10, <1>11, <1>12 DEF ChainOK
<1>. QED
  BY <1>13, <1>5, <1>3, <1>2, <1>6, <1>7 DEF BackIs, G, L
LEMMA BackChainNext == ClientIs' /\ RelaysSaid' /\ ServiceIs' /\ ServiceWayOut' /\ Control' => BackIs'
BY BackChain, PTL

LEMMA MeetBackChain == ClientIs /\ ClientOut => MeetBackIs
<1>. SUFFICES ASSUME ClientIs, ClientOut PROVE MeetBackIs
  OBVIOUS
<1>. DEFINE L == IF ClientEnd.e2e = <<>> THEN 1 ELSE 2
            G == MeetBack
<1>1. L \in Nat /\ L >= 1 /\ (L = 1 \/ (L = 2 /\ ClientEnd.e2e # <<>>)) /\ (ClientEnd.e2e # <<>> => L = 2)
  OBVIOUS
<1>2. G = [i \in 1..L |-> G[i]] /\ G[1].k = BK(Meet) /\ G[1].o = 0 /\ G[1].d = <<BK(Meet)>>
  BY DEF MeetBack
<1>3. ClientEnd.e2e # <<>> => G[2].k = C2H /\ G[2].o = 0 /\ G[2].d = ClientEnd.e2e[1].fd
  BY DEF MeetBack
<1>4. ASSUME ClientEnd.e2e # <<>> PROVE IsSeq(ClientEnd.e2e[1].fd) /\ Len(ClientEnd.e2e[1].fd) >= 1
  <2>1. LayersOK(ClientLayers)
    BY DEF ClientOut
  <2>2. Known \in Nat
    BY KnownRelays
  <2>3. Len(ClientEnd.e2e) = 1 /\ ClientLayers[Known + 1] = ClientEnd.e2e[1] /\ Len(ClientLayers) = Known + 1
    BY <1>4 DEF ClientIs, EndLayers, ClientLayers
  <2>4. Known + 1 \in 1..Len(ClientLayers)
    BY <2>2, <2>3
  <2>. QED
    BY <2>1, <2>3, <2>4, LayersNat
<1>. HIDE DEF L, G
<1>5. IsSeq(G) /\ Len(G) = L
  BY <1>1, <1>2, FunIs
<1>6. \A i \in 1..L : i = 1 \/ (i = 2 /\ ClientEnd.e2e # <<>>)
  BY <1>1
<1>7. IsSeq(<<BK(Meet)>>) /\ Len(<<BK(Meet)>>) >= 1
  <2>1. IsSeq(<<BK(Meet)>>) /\ Len(<<BK(Meet)>>) = 1
    BY OneIs
  <2>. QED
    BY <2>1
<1>8. \A i \in 1..L : G[i].o = 0 /\ IsSeq(G[i].d) /\ Len(G[i].d) >= 1
  BY <1>2, <1>3, <1>4, <1>6, <1>7
<1>9. \A a, b \in 1..L : a # b => G[a].k # G[b].k
  BY <1>2, <1>3, <1>6, KeysAre
<1>10. ChainOK(G)
  BY <1>5, <1>8, <1>9 DEF ChainOK
<1>. QED
  BY <1>10, <1>5, <1>2, <1>3 DEF MeetBackIs, G, L
LEMMA MeetBackChainNext == ClientIs' /\ ClientOut' => MeetBackIs'
BY MeetBackChain, PTL

-----------------------------------------------------------------------------
(* Which cells are where. *)

LEMMA KnownIs ==
  Shape => /\ Known \in 0..PathLen /\ Len(ServiceEnd.hops) \in 0..1 /\ Known \in Nat /\ PathLen \in Nat /\ PathLen >= 1
           /\ \A i \in 1..Known : LegTo(i) \in DOMAIN relays /\ LegTo(i) \in Leg /\ i \in 1..PathLen /\ i \in Int
           /\ (Len(ServiceEnd.hops) = 1 => Meet \in DOMAIN relays) /\ Meet \in Leg /\ Point = LegTo(PathLen) /\ Client = LegTo(1)
<1>. SUFFICES ASSUME Shape
     PROVE /\ Known \in 0..PathLen /\ Len(ServiceEnd.hops) \in 0..1 /\ Known \in Nat /\ PathLen \in Nat /\ PathLen >= 1
           /\ \A i \in 1..Known : LegTo(i) \in DOMAIN relays /\ LegTo(i) \in Leg /\ i \in 1..PathLen /\ i \in Int
           /\ (Len(ServiceEnd.hops) = 1 => Meet \in DOMAIN relays) /\ Meet \in Leg /\ Point = LegTo(PathLen) /\ Client = LegTo(1)
  OBVIOUS
<1>1. ClientIs /\ ServiceIs
  BY EndsAre
<1>2. /\ PathLen \in Nat /\ PathLen >= 1 /\ Meet \in Leg /\ Point = LegTo(PathLen) /\ Client = LegTo(1)
      /\ \A i \in 1..PathLen : LegTo(i) \in Leg
  BY LegIs
<1>3. Known \in Nat /\ Known <= PathLen /\ \A i \in 1..Known : LegTo(i) \in DOMAIN relays
  BY <1>1, KnownRelays
<1>4. \A i \in 1..Known : i \in 1..PathLen /\ i \in Int
  BY <1>2, <1>3
<1>. DEFINE k == Len(ServiceEnd.hops)
<1>5. k \in Nat /\ k <= Hops("service") /\ \A i \in 1..k : <<"service", i>> \in DOMAIN relays
  BY <1>1 DEF ServiceIs, EndLayers
<1>6. k \in 0..1 /\ (k = 1 => Meet \in DOMAIN relays)
  <2>1. Hops("service") = 1
    BY DEF Hops
  <2>2. k = 1 => 1 \in 1..k
    BY <1>5
  <2>3. k \in 0..1
    <3>. HIDE DEF k
    <3>. QED
      BY <1>5, <2>1
  <2>. QED
    BY <1>5, <2>2, <2>3 DEF Meet
<1>7. Known \in 0..PathLen
  BY <1>2, <1>3
<1>. QED
  BY <1>2, <1>3, <1>4, <1>6, <1>7

\* Beyond the relays known there are no cells.
Building0(l) ==
  /\ forward[l] = <<>> \/ \E to \in LinkSpecs : forward[l] = <<CreateFor(l, to)>>
  /\ backward[l] = <<>> \/ backward[l] = <<CreatedBy(l)>>
NoRelayCell(l) == ~CellArrives(forward, l, "relay") /\ ~CellArrives(backward, l, "relay")

LEMMA Building0Is == \A l : Building0(l) => NoRelayCell(l)
<1>. SUFFICES ASSUME NEW l, Building0(l) PROVE NoRelayCell(l)
  OBVIOUS
<1>1. ASSUME forward[l] # <<>> PROVE Head(forward[l]).kind = "create"
  <2>1. PICK to \in LinkSpecs : forward[l] = <<CreateFor(l, to)>>
    BY <1>1 DEF Building0
  <2>2. Head(<<CreateFor(l, to)>>) = CreateFor(l, to)
    OBVIOUS
  <2>. QED
    BY <2>1, <2>2 DEF CreateFor
<1>2. ASSUME backward[l] # <<>> PROVE Head(backward[l]).kind = "created"
  <2>1. backward[l] = <<CreatedBy(l)>>
    BY <1>2 DEF Building0
  <2>2. Head(<<CreatedBy(l)>>) = CreatedBy(l)
    OBVIOUS
  <2>. QED
    BY <2>1, <2>2 DEF CreatedBy
<1>. QED
  BY <1>1, <1>2 DEF NoRelayCell, CellArrives

LEMMA Beyond ==
  Shape /\ Building =>
    /\ \A i \in 1..PathLen : i > Known => Building0(LegTo(i))
    /\ Len(ServiceEnd.hops) = 0 => Building0(Meet)
<1>. SUFFICES ASSUME Shape, Building
     PROVE /\ \A i \in 1..PathLen : i > Known => Building0(LegTo(i))
           /\ Len(ServiceEnd.hops) = 0 => Building0(Meet)
  OBVIOUS
<1>1. Known \in Nat /\ PathLen \in Nat
  BY KnownIs
<1>2. \A l : Quiet(l) => Building0(l)
  BY DEF Quiet, Absent, Building0
<1>3. \A l : Asked(l) => Building0(l)
  BY DEF Asked, Absent, Building0
<1>4. \A l : Answered(l) \/ Returning(l) => Building0(l)
  BY DEF Answered, Returning, Building0
<1>5. \A l : Absent(l) /\ forward[l] = <<CreateFor(l, "right")>> => Building0(l)
  BY DEF Absent, Building0, LinkSpecs
<1>6. ASSUME NEW e \in OriginEnd, Len(origin[e].hops) = 0 PROVE Building0(<<e, 1>>)
  <2>1. Begun(e)
    BY DEF Building
  <2>. QED
    BY <1>6, <2>1, <1>2, <1>4, <1>5 DEF Begun
<1>7. ASSUME NEW i \in 1..PathLen, i > Known PROVE Building0(LegTo(i))
  <2>1. CASE i > Known + 1
    BY <2>1, <1>2 DEF Building
  <2>2. CASE Known = 0 /\ i = 1
    BY <2>2, <1>6 DEF OriginEnd, LegTo, Known, ClientEnd
  <2>3. CASE Known \in 1..(PathLen - 1) /\ i = Known + 1
    <3>1. Extending
      BY DEF Building
    <3>2. Quiet(LegTo(i)) \/ Asked(LegTo(i)) \/ Answered(LegTo(i)) \/ Returning(LegTo(i))
      BY <2>3, <3>1 DEF Extending
    <3>. QED
      BY <3>2, <1>2, <1>3, <1>4
  <2>. QED
    BY <1>1, <1>7, <2>1, <2>2, <2>3
<1>8. Len(ServiceEnd.hops) = 0 => Building0(Meet)
  BY <1>6 DEF OriginEnd, ServiceEnd, Meet
<1>. QED
  BY <1>7, <1>8

\* On the way there is nothing else.
LEMMA CellKind == ASSUME NEW G, NEW c, NEW j, NEW T, CellOK(G, c, j, T) PROVE c.kind = "relay"
BY DEF CellOK, CellOf

LEMMA OutKind ==
  ASSUME NEW G, NEW m \in Nat, NEW N \in Nat, NEW x, NEW y, NEW R, NEW Q, OutLine(G, m, N, x, y, R, Q), ChainOK(G), m <= Len(G),
         NEW i \in 1..m, Q[i] # <<>>
  PROVE  Head(Q[i]).kind = "relay"
<1>. DEFINE top == N - One(x) - One(y)
<1>1. OutWay(G, m, N, top, R, Q)
  BY LineTop
<1>. HIDE DEF top
<1>2. /\ OutTurn(G, top, R, i - 1) \in Nat /\ OutTurn(G, top, R, i) \in Nat /\ OutHop(G, N, top, R, Q, i)
  <2>1. i - 1 \in 0..m /\ i \in 0..m
    OBVIOUS
  <2>. QED
    BY <1>1, <2>1, OutTurns
<1>3. Run(G, Q[i], i, OutTurn(G, top, R, i), OutTurn(G, top, R, i - 1))
  BY <1>2 DEF OutHop
<1>4. OutTurn(G, top, R, i - 1) \in Int /\ OutTurn(G, top, R, i) \in Int
  BY <1>2
<1>5. CellOK(G, Head(Q[i]), i, OutTurn(G, top, R, i))
  BY <1>3, <1>4, RunPop
<1>. QED
  BY <1>5, CellKind

LEMMA BackKind ==
  ASSUME NEW G, NEW m \in Nat, m >= 1, NEW w, NEW x, NEW y, NEW R, NEW Q, BackLine(G, m, w, x, y, R, Q), ChainOK(G), m <= Len(G),
         NEW i \in 1..m, Q[i] # <<>>
  PROVE  Head(Q[i]).kind = "relay" /\ CellOK(G, Head(Q[i]), i, BackTurn(G, w, R, i - 1))
<1>. DEFINE top == BackTurn(G, w, R, m) - One(x) - One(y)
<1>1. BackLineOK(G, m, w, x, y, R, Q, BackTurn(G, w, R, m), top)
  BY BackLineTop
<1>2. BackWay(G, m, w, top, R, Q)
  BY <1>1 DEF BackLineOK
<1>. HIDE DEF top
<1>3. CellOK(G, Head(Q[i]), i, BackTurn(G, w, R, i - 1))
  BY <1>2, BackHead
<1>. QED
  BY <1>3, CellKind

Places ==
  /\ \A i \in 1..PathLen :
       /\ CellArrives(forward, LegTo(i), "relay") => i \in 1..Known
       /\ CellArrives(backward, LegTo(i), "relay") => i \in 1..Known
       /\ CellArrives(forward, LegTo(i), "create") => i = Known + 1
       /\ CellArrives(backward, LegTo(i), "created") => i = Known + 1
  /\ CellArrives(forward, Meet, "relay") => Len(ServiceEnd.hops) = 1
  /\ CellArrives(backward, Meet, "relay") => Len(ServiceEnd.hops) = 1
  /\ CellArrives(forward, Meet, "create") => Len(ServiceEnd.hops) = 0
  /\ CellArrives(backward, Meet, "created") => Len(ServiceEnd.hops) = 0
Facts == ClientIs /\ ServiceIs /\ ClientChain /\ ServiceChain /\ BackIs /\ MeetBackIs /\ Places

LEMMA GoodFacts == Good => Facts
<1>. SUFFICES ASSUME Good PROVE Facts
  OBVIOUS
<1>1. Shape /\ Building /\ ClientOut /\ ServiceWayOut /\ RelaysSaid /\ ClientBack /\ ServiceBack /\ Control
  BY DEF Good
<1>2. ClientIs /\ ServiceIs
  BY <1>1, EndsAre
<1>3. ClientChain /\ ServiceChain /\ BackIs /\ MeetBackIs
  BY <1>1, <1>2, ChainsAre, BackChain, MeetBackChain
<1>4. Known \in Nat /\ Known <= PathLen /\ Len(ServiceEnd.hops) \in 0..1 /\ PathLen \in Nat
  BY <1>1, KnownIs
<1>5. ASSUME NEW i \in 1..Known
      PROVE  /\ forward[LegTo(i)] # <<>> => Head(forward[LegTo(i)]).kind = "relay"
             /\ backward[LegTo(i)] # <<>> => Head(backward[LegTo(i)]).kind = "relay"
  <2>1. Known > 0 /\ Known >= 1
    BY <1>4
  <2>2. ChainOK(ChainOut) /\ Known <= Len(ChainOut) /\ Sent \in Nat
    BY <1>3, <2>1 DEF ClientChain, ChainIsFor, ChainOut, Sent
  <2>3. OutLine(ChainOut, Known, Sent, held["fetch"], held["pump"], Relayed, OutQueues)
    BY <1>1, <2>1 DEF ClientOut
  <2>4. OutQueues[i] = forward[LegTo(i)] /\ BackQueues[i] = backward[LegTo(i)]
    BY DEF OutQueues, BackQueues
  <2>5. OutQueues[i] # <<>> => Head(OutQueues[i]).kind = "relay"
    BY <1>4, <2>2, <2>3, OutKind
  <2>6. BackLine(ChainBack, Known, Read, held["clientReader"], held["serviceReader"], Relayed, BackQueues)
    BY <1>1, <2>1 DEF ClientBack
  <2>7. ChainOK(ChainBack) /\ Known <= Len(ChainBack)
    BY <1>3 DEF BackIs
  <2>8. BackQueues[i] # <<>> => Head(BackQueues[i]).kind = "relay"
    BY <1>4, <2>1, <2>7, <2>6, BackKind
  <2>. QED
    BY <2>4, <2>5, <2>8
<1>6. ASSUME Len(ServiceEnd.hops) = 1
      PROVE  /\ forward[Meet] # <<>> => Head(forward[Meet]).kind = "relay"
             /\ backward[Meet] # <<>> => Head(backward[Meet]).kind = "relay"
  <2>0. Len(ServiceEnd.hops) > 0
    BY <1>6
  <2>. DEFINE N == ServiceLayers[1].fn
              R == <<MeetHop>>
              P == <<forward[Meet]>>
              Q == <<backward[Meet]>>
              w == ServiceLayers[1].bn
  <2>1. P[1] = forward[Meet] /\ Q[1] = backward[Meet] /\ 1 \in 1..1 /\ 1 \in Nat /\ 1 >= 1
    OBVIOUS
  <2>2. ChainOK(ServiceOut) /\ 1 <= Len(ServiceOut) /\ N \in Nat
    BY <1>3, <2>0 DEF ServiceChain, ChainIsFor, ServiceOut
  <2>3. OutLine(ServiceOut, 1, N, <<>>, <<>>, R, P)
    BY <1>1, <2>0 DEF ServiceWayOut
  <2>4. BackLine(MeetBack, 1, w, <<>>, <<>>, R, Q)
    BY <1>1, <2>0 DEF ServiceBack
  <2>5. ChainOK(MeetBack) /\ 1 <= Len(MeetBack)
    BY <1>3 DEF MeetBackIs
  <2>. HIDE DEF N, R, P, Q, w
  <2>6. P[1] # <<>> => Head(P[1]).kind = "relay"
    BY <2>1, <2>2, <2>3, OutKind
  <2>7. Q[1] # <<>> => Head(Q[1]).kind = "relay"
    BY <2>1, <2>4, <2>5, BackKind
  <2>. QED
    BY <2>1, <2>6, <2>7
<1>7. /\ \A i \in 1..PathLen : i > Known => Building0(LegTo(i))
      /\ Len(ServiceEnd.hops) = 0 => Building0(Meet)
  BY <1>1, Beyond
<1>8. ASSUME NEW i \in 1..PathLen
      PROVE  /\ CellArrives(forward, LegTo(i), "relay") => i \in 1..Known
             /\ CellArrives(backward, LegTo(i), "relay") => i \in 1..Known
             /\ CellArrives(forward, LegTo(i), "create") => i = Known + 1
             /\ CellArrives(backward, LegTo(i), "created") => i = Known + 1
  <2>1. CASE i \in 1..Known
    <3>1. "relay" # "create" /\ "relay" # "created"
      OBVIOUS
    <3>. QED
      BY <2>1, <3>1, <1>5 DEF CellArrives
  <2>2. CASE i > Known
    <3>1. ~CellArrives(forward, LegTo(i), "relay") /\ ~CellArrives(backward, LegTo(i), "relay")
      BY <2>2, <1>7, Building0Is DEF NoRelayCell
    <3>2. ASSUME i > Known + 1 PROVE forward[LegTo(i)] = <<>> /\ backward[LegTo(i)] = <<>>
      BY <1>1, <3>2 DEF Building, Quiet, Absent
    <3>. QED
      BY <2>2, <1>4, <3>1, <3>2 DEF CellArrives
  <2>. QED
    BY <1>4, <2>1, <2>2
<1>9. /\ CellArrives(forward, Meet, "relay") => Len(ServiceEnd.hops) = 1
      /\ CellArrives(backward, Meet, "relay") => Len(ServiceEnd.hops) = 1
      /\ CellArrives(forward, Meet, "create") => Len(ServiceEnd.hops) = 0
      /\ CellArrives(backward, Meet, "created") => Len(ServiceEnd.hops) = 0
  <2>1. "relay" # "create" /\ "relay" # "created"
    OBVIOUS
  <2>2. Len(ServiceEnd.hops) = 0 \/ Len(ServiceEnd.hops) = 1
    BY <1>4
  <2>3. CASE Len(ServiceEnd.hops) = 0
    BY <2>3, <1>7, Building0Is DEF NoRelayCell
  <2>4. CASE Len(ServiceEnd.hops) = 1
    BY <2>1, <2>4, <1>6 DEF CellArrives
  <2>. QED
    BY <2>2, <2>3, <2>4
<1>. QED
  BY <1>2, <1>3, <1>8, <1>9 DEF Facts, Places
LEMMA GoodFactsNext == Good' => Facts'
BY GoodFacts, PTL

-----------------------------------------------------------------------------
(* What a step leaves alone. *)

SameClient ==
  /\ ClientEnd' = ClientEnd /\ Known' = Known /\ ClientLayers' = ClientLayers /\ ChainOut' = ChainOut
  /\ Sent' = Sent /\ Read' = Read /\ MeetBack' = MeetBack
SameService == ServiceEnd' = ServiceEnd /\ ServiceLayers' = ServiceLayers /\ ServiceOut' = ServiceOut

LEMMA SameEnds ==
  /\ ClientEnd' = ClientEnd => SameClient
  /\ ServiceEnd' = ServiceEnd => SameService
  /\ origin' = origin => SameClient /\ SameService
<1>1. ASSUME ClientEnd' = ClientEnd PROVE SameClient
  BY <1>1 DEF SameClient, Known, ClientLayers, ChainOut, Sent, Read, MeetBack
<1>2. ASSUME ServiceEnd' = ServiceEnd PROVE SameService
  BY <1>2 DEF SameService, ServiceLayers, ServiceOut
<1>3. ASSUME origin' = origin PROVE ClientEnd' = ClientEnd /\ ServiceEnd' = ServiceEnd
  BY <1>3 DEF ClientEnd, ServiceEnd
<1>. QED
  BY <1>1, <1>2, <1>3

\* The queues and the tables as functions.
Tables ==
  /\ forward = [l \in Leg |-> forward[l]] /\ backward = [l \in Leg |-> backward[l]]
  /\ held = [t \in OnionTask |-> held[t]]
\* A step of the relays at some legs, on circuits that stay as they are.
Steps(Z) ==
  /\ DOMAIN relays' = DOMAIN relays /\ relays' = [l \in DOMAIN relays' |-> relays'[l]]
  /\ \A l \in DOMAIN relays : RelayOK(l)' /\ (l \notin Z => relays'[l] = relays[l])
TouchOnly(Z) == \A l \in Leg : l \notin Z => forward'[l] = forward[l] /\ backward'[l] = backward[l]
Near(Z) ==
  /\ \A i \in 1..PathLen : LegTo(i) \in Z => i <= Known
  /\ Meet \in Z => Len(ServiceEnd.hops) = 1
StagesStay == \A l \in DOMAIN relays : relays'[l].next = relays[l].next /\ relays'[l].awaiting = relays[l].awaiting
CircuitsStay ==
  \A e \in OriginEnd : Len(origin'[e].hops) = Len(origin[e].hops) /\ origin'[e].pending = origin[e].pending

LEMMA ShapeStays ==
  ASSUME Shape, origin' = origin, NEW Z, Steps(Z), Tables'
  PROVE  Shape'
<1>1. SameClient /\ SameService
  BY SameEnds
<1>2. ASSUME NEW e \in OriginEnd PROVE EndOK(e)'
  <2>1. EndOK(e)
    BY DEF Shape
  <2>2. DOMAIN relays' = DOMAIN relays
    BY DEF Steps
  <2>. QED
    BY <2>1, <2>2 DEF EndOK
<1>3. /\ DOMAIN origin' = OriginEnd /\ origin' = [e \in OriginEnd |-> origin'[e]]
      /\ \A i \in 1..Len(ClientEnd'.e2e) : ClientEnd'.e2e[i].fk = C2H /\ ClientEnd'.e2e[i].bk = H2C
      /\ \A i \in 1..Len(ServiceEnd'.e2e) : ServiceEnd'.e2e[i].fk = H2C /\ ServiceEnd'.e2e[i].bk = C2H
  BY <1>1 DEF Shape, SameClient, SameService
<1>4. /\ relays' = [l \in DOMAIN relays' |-> relays'[l]] /\ DOMAIN relays' \subseteq Leg
      /\ \A l \in DOMAIN relays' : RelayOK(l)'
  BY DEF Shape, Steps
<1>. QED
  BY <1>2, <1>3, <1>4 DEF Shape, Tables

LEMMA BuildingStays ==
  ASSUME Shape, Building, CircuitsStay, NEW Z, Steps(Z), TouchOnly(Z), Near(Z), StagesStay
  PROVE  Building'
<1>1. /\ Len(origin'["client"].hops) = Known /\ Known' = Known /\ ClientEnd'.pending = ClientEnd.pending
      /\ Len(ServiceEnd'.hops) = Len(ServiceEnd.hops) /\ ServiceEnd'.pending = ServiceEnd.pending
  BY DEF CircuitsStay, OriginEnd, Known, ClientEnd, ServiceEnd
<1>2. /\ DOMAIN relays' = DOMAIN relays
      /\ \A l \in DOMAIN relays : relays'[l].next = relays[l].next /\ relays'[l].awaiting = relays[l].awaiting
      /\ \A l \in DOMAIN relays : l \notin Z => relays'[l] = relays[l]
  BY DEF Steps, StagesStay
<1>3. ASSUME NEW l \in Leg, l \notin Z
      PROVE  /\ Quiet(l)' <=> Quiet(l)
             /\ Asked(l)' <=> Asked(l)
             /\ Answered(l)' <=> Answered(l)
             /\ Returning(l)' <=> Returning(l)
             /\ Absent(l)' <=> Absent(l)
             /\ forward'[l] = forward[l]
  <2>1. forward'[l] = forward[l] /\ backward'[l] = backward[l]
    BY <1>3 DEF TouchOnly
  <2>2. (l \in DOMAIN relays' <=> l \in DOMAIN relays) /\ (l \in DOMAIN relays => relays'[l] = relays[l])
    BY <1>2, <1>3
  <2>3. Absent(l)' <=> Absent(l)
    BY <2>1, <2>2 DEF Absent
  <2>4. Fresh(l)' <=> Fresh(l)
    BY <2>2 DEF Fresh
  <2>. QED
    BY <2>1, <2>2, <2>3, <2>4 DEF Quiet, Asked, Answered, Returning
<1>4. /\ Known \in Nat /\ Known <= PathLen /\ PathLen \in Nat /\ PathLen >= 1 /\ Meet \in Leg
      /\ \A i \in 1..Known : LegTo(i) \in DOMAIN relays
      /\ Len(ServiceEnd.hops) = 1 => Meet \in DOMAIN relays
      /\ \A i \in 1..PathLen : LegTo(i) \in Leg
  BY KnownIs, LegIs
<1>5. \A i \in 1..PathLen : i > Known => LegTo(i) \notin Z
  BY <1>4 DEF Near
<1>6. Len(ServiceEnd.hops) = 0 => Meet \notin Z
  BY DEF Near
<1>7. ASSUME NEW e \in OriginEnd PROVE Begun(e)'
  <2>1. Begun(e) /\ Len(origin'[e].hops) = Len(origin[e].hops) /\ origin'[e].pending = origin[e].pending
    BY DEF Building, CircuitsStay
  <2>2. ASSUME Len(origin[e].hops) = 0 PROVE <<e, 1>> \in Leg /\ <<e, 1>> \notin Z
    <3>1. CASE e = "client"
      <4>1. Known = 0 /\ <<e, 1>> = LegTo(1)
        BY <2>2, <3>1 DEF Known, ClientEnd, LegTo
      <4>2. 1 \in 1..PathLen /\ 1 > Known
        BY <1>4, <4>1
      <4>. QED
        BY <4>1, <4>2, <1>4, <1>5
    <3>2. CASE e = "service"
      BY <2>2, <3>2, <1>4, <1>6 DEF ServiceEnd, Meet
    <3>. QED
      BY <3>1, <3>2 DEF OriginEnd
  <2>. QED
    BY <2>1, <2>2, <1>3 DEF Begun
<1>8. Known > 0 => LastRelay'.next = LastRelay.next /\ LastRelay'.awaiting = LastRelay.awaiting
  <2>1. Known > 0 => Known \in 1..Known
    BY <1>4
  <2>. QED
    BY <1>1, <1>2, <1>4, <2>1 DEF LastRelay
<1>9. Extending'
  <2>1. SUFFICES ASSUME Known \in 1..(PathLen - 1) PROVE Extending'
    BY <1>1 DEF Extending
  <2>2. Known + 1 \in 1..PathLen /\ Known + 1 > Known /\ Known > 0
    BY <2>1, <1>4
  <2>3. LegTo(Known + 1) \in Leg /\ LegTo(Known + 1) \notin Z
    BY <2>2, <1>4, <1>5
  <2>4. Extending
    BY DEF Building
  <2>0. PICK l : l = LegTo(Known + 1)
    OBVIOUS
  <2>5. /\ Quiet(l)' <=> Quiet(l)
        /\ Asked(l)' <=> Asked(l)
        /\ Answered(l)' <=> Answered(l)
        /\ Returning(l)' <=> Returning(l)
    BY <2>0, <2>3, <1>3
  <2>6. Idle(LastRelay)' <=> Idle(LastRelay)
    BY <1>8, <2>2 DEF Idle
  <2>7. /\ Waiting(LastRelay)' <=> Waiting(LastRelay)
        /\ Joined(LastRelay)' <=> Joined(LastRelay)
    BY <1>8, <2>2 DEF Waiting, Joined
  <2>8. LegTo(Known + 1)' = l
    BY <2>0, <1>1 DEF LegTo
  <2>9. IF ClientEnd.pending = NoKey THEN Quiet(l) /\ Idle(LastRelay)
        ELSE /\ ClientEnd.pending = l
             /\ \/ Quiet(l) /\ Idle(LastRelay)
                \/ (Quiet(l) \/ Asked(l) \/ Answered(l)) /\ Waiting(LastRelay)
                \/ Returning(l) /\ Joined(LastRelay)
    BY <2>0, <2>1, <2>4 DEF Extending
  <2>10. IF ClientEnd'.pending = NoKey THEN Quiet(l)' /\ Idle(LastRelay)'
        ELSE /\ ClientEnd'.pending = l
             /\ \/ Quiet(l)' /\ Idle(LastRelay)'
                \/ (Quiet(l)' \/ Asked(l)' \/ Answered(l)') /\ Waiting(LastRelay)'
                \/ Returning(l)' /\ Joined(LastRelay)'
    BY <2>5, <2>6, <2>7, <2>9, <1>1
  <2>. QED
    BY <2>10, <2>8, <1>1 DEF Extending
<1>10. \A i \in 1..(Known' - 1) : Joined(relays[LegTo(i)])'
  <2>1. \A i \in 1..(Known - 1) : Joined(relays[LegTo(i)])
    BY DEF Building
  <2>2. \A i \in 1..(Known - 1) : i \in 1..Known
    BY <1>4
  <2>. QED
    BY <1>1, <1>2, <1>4, <2>1, <2>2 DEF Joined
<1>11. Known' = PathLen => ClientEnd'.pending = NoKey /\ Idle(LastRelay)'
  <2>1. Known = PathLen => ClientEnd.pending = NoKey /\ Idle(LastRelay) /\ Known > 0
    BY <1>4 DEF Building
  <2>. QED
    BY <2>1, <1>1, <1>8 DEF Idle
<1>12. \A i \in 1..PathLen : i > Known' + 1 => Quiet(LegTo(i))'
  <2>1. \A i \in 1..PathLen : i > Known + 1 => Quiet(LegTo(i)) /\ i > Known
    BY <1>4 DEF Building
  <2>. QED
    BY <2>1, <1>1, <1>3, <1>4, <1>5
<1>13. Len(ServiceEnd'.hops) = 1 => ServiceEnd'.pending = NoKey /\ Idle(relays'[Meet])
  <2>1. Len(ServiceEnd.hops) = 1 => ServiceEnd.pending = NoKey /\ Idle(relays[Meet])
    BY DEF Building
  <2>. QED
    BY <2>1, <1>1, <1>2, <1>4 DEF Idle
<1>. QED
  BY <1>7, <1>9, <1>10, <1>11, <1>12, <1>13 DEF Building

\* What each way reads, as it was.
OutHopsStill ==
  \A i \in 1..Known : /\ RelayHop(i)'.fn = RelayHop(i).fn /\ RelayHop(i)'.fd = RelayHop(i).fd
                      /\ forward'[LegTo(i)] = forward[LegTo(i)]
BackHopsStill == \A i \in 1..Known : RelayHop(i)'.bn = RelayHop(i).bn /\ backward'[LegTo(i)] = backward[LegTo(i)]
SaidStill == \A i \in 1..Known : RelayHop(i)'.bd = RelayHop(i).bd
MeetOutStill ==
  Len(ServiceEnd.hops) > 0 => MeetHop'.fn = MeetHop.fn /\ MeetHop'.fd = MeetHop.fd /\ forward'[Meet] = forward[Meet]
MeetBackStill == Len(ServiceEnd.hops) > 0 => MeetHop'.bn = MeetHop.bn /\ backward'[Meet] = backward[Meet]

LEMMA RelayedIs ==
  /\ \A i \in 1..Known : Relayed[i] = RelayHop(i) /\ OutQueues[i] = forward[LegTo(i)] /\ BackQueues[i] = backward[LegTo(i)]
  /\ Known' = Known => \A i \in 1..Known : /\ Relayed'[i] = RelayHop(i)' /\ OutQueues'[i] = forward'[LegTo(i)]
                                           /\ BackQueues'[i] = backward'[LegTo(i)]
BY DEF Relayed, OutQueues, BackQueues, RelayHop, LegTo

LEMMA ClientOutStays ==
  ASSUME ClientIs, ClientChain, ClientOut, SameClient, held'["fetch"] = held["fetch"], held'["pump"] = held["pump"], OutHopsStill
  PROVE  ClientOut'
<1>1. Known' = Known /\ ChainOut' = ChainOut /\ Sent' = Sent /\ ClientLayers' = ClientLayers
  BY DEF SameClient
<1>2. ASSUME Known > 0
      PROVE  OutLine(ChainOut, Known, Sent, held["fetch"], held["pump"], Relayed', OutQueues')
  <2>1. OutLine(ChainOut, Known, Sent, held["fetch"], held["pump"], Relayed, OutQueues)
    BY <1>2 DEF ClientOut
  <2>2. Known \in Nat /\ Sent \in Nat
    BY <1>2, KnownRelays DEF ClientChain, ChainIsFor, Sent
  <2>3. \A i \in 1..Known : Relayed'[i].fn = Relayed[i].fn /\ Relayed'[i].fd = Relayed[i].fd /\ OutQueues'[i] = OutQueues[i]
    BY <1>1, RelayedIs DEF OutHopsStill
  <2>. QED
    BY <2>1, <2>2, <2>3, LineFrame
<1>3. LayersOK(ClientLayers) /\ (Known = 0 => Free("fetch") /\ Free("pump"))
  BY DEF ClientOut
<1>. QED
  BY <1>1, <1>2, <1>3 DEF ClientOut, Free

LEMMA ServiceWayOutStays ==
  ASSUME ServiceChain, ServiceWayOut, SameService, MeetOutStill
  PROVE  ServiceWayOut'
<1>1. ServiceEnd' = ServiceEnd /\ ServiceLayers' = ServiceLayers /\ ServiceOut' = ServiceOut
  BY DEF SameService
<1>2. ASSUME Len(ServiceEnd.hops) > 0
      PROVE  OutLine(ServiceOut, 1, ServiceLayers[1].fn, <<>>, <<>>, <<MeetHop'>>, <<forward'[Meet]>>)
  <2>. DEFINE N == ServiceLayers[1].fn
              R == <<MeetHop>>
              P == <<forward[Meet]>>
              R2 == <<MeetHop'>>
              P2 == <<forward'[Meet]>>
  <2>1. OutLine(ServiceOut, 1, N, <<>>, <<>>, R, P)
    BY <1>2 DEF ServiceWayOut
  <2>2. N \in Nat /\ 1 \in Nat
    BY <1>2 DEF ServiceChain, ChainIsFor
  <2>3. R2[1].fn = R[1].fn /\ R2[1].fd = R[1].fd /\ P2[1] = P[1]
    BY <1>2 DEF MeetOutStill
  <2>4. \A i \in 1..1 : i = 1
    OBVIOUS
  <2>. HIDE DEF N, R, P, R2, P2
  <2>5. \A i \in 1..1 : R2[i].fn = R[i].fn /\ R2[i].fd = R[i].fd /\ P2[i] = P[i]
    BY <2>3, <2>4
  <2>6. OutLine(ServiceOut, 1, N, <<>>, <<>>, R2, P2)
    BY <2>1, <2>2, <2>5, LineFrame
  <2>. QED
    BY <2>6 DEF N, R2, P2
<1>3. LayersOK(ServiceLayers)
  BY DEF ServiceWayOut
<1>. QED
  BY <1>1, <1>2, <1>3 DEF ServiceWayOut

LEMMA SaidAtStays ==
  ASSUME NEW i \in 1..Known, ClientIs, Known' = Known, cookie' = cookie, NEW Z, Steps(Z), StagesStay
  PROVE  SaidAt(i)' = SaidAt(i)
<1>1. /\ DOMAIN relays' = DOMAIN relays
      /\ \A l \in DOMAIN relays : relays'[l].awaiting = relays[l].awaiting
      /\ LegTo(i) \in DOMAIN relays
  BY KnownRelays DEF Steps, StagesStay
<1>. QED
  BY <1>1 DEF SaidAt, BK, Extended2, LegTo, Auth, Established, Rendezvous2, ServiceKey, Meeting

LEMMA RelaysSaidStays ==
  ASSUME ClientIs, RelaysSaid, Known' = Known, cookie' = cookie, NEW Z, Steps(Z), StagesStay, SaidStill,
         Known > 0 => RelayHop(Known)'.bn = RelayHop(Known).bn, cookie = "used" => MeetHop'.fn = MeetHop.fn
  PROVE  RelaysSaid'
<1>1. \A i \in 1..Known : SaidAt(i)' = SaidAt(i)
  BY SaidAtStays
<1>2. \A i \in 1..Known : RelayHop(i)'.bd = SaidAt(i)
  BY DEF RelaysSaid, SaidStill
<1>3. Known \in Nat /\ (Known > 0 => Known \in 1..Known)
  BY KnownRelays
<1>4. Known > 0 => RelayHop(Known)'.bn + 1 = IF cookie = "used" THEN MeetHop'.fn + 2 ELSE Len(RelayHop(Known)'.bd)
  BY <1>3 DEF RelaysSaid, SaidStill
<1>. QED
  BY <1>1, <1>2, <1>4 DEF RelaysSaid, RelayHop, LegTo

LEMMA ChainBackStays ==
  ASSUME Known' = Known, ServiceEnd' = ServiceEnd, SaidStill
  PROVE  ChainBack' = ChainBack
<1>. DEFINE L == IF ServiceEnd.e2e = <<>> THEN Known ELSE PathLen + 1
            F(i) == IF i <= Known THEN [k |-> BK(LegTo(i)), o |-> i - 1, d |-> RelayHop(i).bd]
                    ELSE [k |-> H2C, o |-> PathLen + 1, d |-> ServiceEnd.e2e[1].fd]
            E(i) == IF i <= Known THEN [k |-> BK(LegTo(i)), o |-> i - 1, d |-> RelayHop(i)'.bd]
                    ELSE [k |-> H2C, o |-> PathLen + 1, d |-> ServiceEnd.e2e[1].fd]
<1>1. ChainBack = [i \in 1..L |-> F(i)]
  BY DEF ChainBack
<1>2. ChainBack' = [i \in 1..L |-> E(i)]
  BY DEF ChainBack, BK, LegTo, H2C, Meeting, ServiceKey
<1>3. \A i \in 1..L : i <= Known => i \in 1..Known
  <2>1. L \in Int \/ L = Known
    BY LegIs
  <2>. HIDE DEF L
  <2>2. \A i \in 1..L : i \in Int /\ i >= 1
    OBVIOUS
  <2>. QED
    BY <2>2
<1>4. \A i \in 1..L : F(i) = E(i)
  BY <1>3 DEF SaidStill
<1>. HIDE DEF L, F, E
<1>. QED
  BY <1>1, <1>2, <1>4

LEMMA ClientHearsStays ==
  ASSUME ClientHears, ChainBack' = ChainBack, ClientLayers' = ClientLayers
  PROVE  ClientHears'
<1>1. \A i \in 1..Len(ClientLayers) : ClientHeard(i)' <=> ClientHeard(i)
  BY DEF ClientHeard, Starts
<1>. QED
  BY <1>1 DEF ClientHears

LEMMA ClientBackStays ==
  ASSUME ClientIs, BackIs, ClientBack, ChainBack' = ChainBack, Known' = Known, Read' = Read, BackHopsStill,
         held'["clientReader"] = held["clientReader"], held'["serviceReader"] = held["serviceReader"]
  PROVE  ClientBack'
<1>1. ASSUME Known > 0
      PROVE  BackLine(ChainBack, Known, Read, held["clientReader"], held["serviceReader"], Relayed', BackQueues')
  <2>1. BackLine(ChainBack, Known, Read, held["clientReader"], held["serviceReader"], Relayed, BackQueues)
    BY <1>1 DEF ClientBack
  <2>2. Known \in Nat /\ Known >= 1 /\ ChainOK(ChainBack) /\ Known <= Len(ChainBack)
    BY <1>1, KnownRelays DEF BackIs
  <2>3. \A i \in 1..Known : Relayed'[i].bn = Relayed[i].bn /\ BackQueues'[i] = BackQueues[i]
    BY RelayedIs DEF BackHopsStill
  <2>. QED
    BY <2>1, <2>2, <2>3, BackLineFrame
<1>2. Known < PathLen => Free("clientReader") /\ Free("serviceReader")
  BY DEF ClientBack
<1>. QED
  BY <1>1, <1>2 DEF ClientBack, Free

LEMMA BridgedStays ==
  ASSUME Bridged, SameClient, Meet \in DOMAIN relays' => Meet \in DOMAIN relays /\ MeetHop'.bn = MeetHop.bn,
         ClientEnd.e2e # <<>> => RelayHop(PathLen)'.fn = RelayHop(PathLen).fn
  PROVE  Bridged'
BY DEF Bridged, SameClient, Passed

LEMMA ServiceBackStays ==
  ASSUME MeetBackIs, ServiceBack, MeetBack' = MeetBack, Len(ServiceEnd.hops)' = Len(ServiceEnd.hops),
         Len(ServiceEnd.hops) > 0 => ServiceLayers'[1].bn = ServiceLayers[1].bn, MeetBackStill
  PROVE  ServiceBack'
<1>1. ASSUME Len(ServiceEnd.hops) > 0
      PROVE  BackLine(MeetBack, 1, ServiceLayers[1].bn, <<>>, <<>>, <<MeetHop'>>, <<backward'[Meet]>>)
  <2>. DEFINE w == ServiceLayers[1].bn
              R == <<MeetHop>>
              P == <<backward[Meet]>>
              R2 == <<MeetHop'>>
              P2 == <<backward'[Meet]>>
  <2>1. BackLine(MeetBack, 1, w, <<>>, <<>>, R, P)
    BY <1>1 DEF ServiceBack
  <2>2. ChainOK(MeetBack) /\ 1 <= Len(MeetBack) /\ 1 \in Nat /\ 1 >= 1
    BY DEF MeetBackIs
  <2>3. R2[1].bn = R[1].bn /\ P2[1] = P[1]
    BY <1>1 DEF MeetBackStill
  <2>4. \A i \in 1..1 : i = 1
    OBVIOUS
  <2>. HIDE DEF w, R, P, R2, P2
  <2>5. \A i \in 1..1 : R2[i].bn = R[i].bn /\ P2[i] = P[i]
    BY <2>3, <2>4
  <2>6. BackLine(MeetBack, 1, w, <<>>, <<>>, R2, P2)
    BY <2>1, <2>2, <2>5, BackLineFrame
  <2>. QED
    BY <2>6 DEF w, R2, P2
<1>. QED
  BY <1>1 DEF ServiceBack

PointEstablished == \E q \in 2..Len(RelayHop(PathLen).fd) : RelayHop(PathLen).fd[q][1] = "establish"
ends0 == <<fetching, meeting, intro, rendezvousing>>

LEMMA ControlStays ==
  ASSUME Control, SameClient, SameService, UNCHANGED <<tables, ends0>>,
         cookie # "none" => PointEstablished', cookie = "used" => MeetHop'.fn > 0
  PROVE  Control'
<1>. USE DEF SameClient, SameService, tables, ends0
<1>1. /\ fetching' \in {"start", "build", "established", "introduced"}
      /\ rendezvousing' \in {"idle", "opened", "build", "sent", "installed"}
      /\ cookie' \in {"none", "held", "used"} /\ bridged' = (cookie' = "used")
      /\ fetching' = "start" => Known' = 0 /\ ClientEnd'.pending = NoKey
      /\ fetching' \in {"established", "introduced"} => Known' = PathLen
      /\ rendezvousing' \in {"idle", "opened"} => Len(ServiceEnd'.hops) = 0 /\ ServiceEnd'.pending = NoKey
      /\ rendezvousing' \in {"sent", "installed"} => Len(ServiceEnd'.hops) = 1
      /\ rendezvousing' # "idle" => fetching' = "introduced"
      /\ ServiceEnd'.e2e # <<>> <=> rendezvousing' = "installed"
  BY DEF Control
<1>2. /\ meeting' = (IF ClientEnd'.e2e = <<>> /\ fetching' \in {"established", "introduced"} THEN Meeting ELSE NoKey)
      /\ ClientEnd'.e2e # <<>> => fetching' = "introduced"
      /\ intro' = (IF fetching' = "introduced" THEN Meeting ELSE NoKey)
      /\ Known' > 0 /\ Read' > PathLen => ClientEnd'.e2e # <<>>
      /\ ServiceEnd'.e2e # <<>> /\ ServiceEnd'.e2e[1].fn > 0 => cookie' = "used"
  BY DEF Control
<1>3. cookie' # "none" => Known' = PathLen /\ PointEstablished'
  BY DEF Control
<1>4. cookie' = "used" => Len(ServiceEnd'.hops) = 1 /\ MeetHop'.fn > 0
  BY DEF Control
<1>. QED
  BY <1>1, <1>2, <1>3, <1>4 DEF Control, PointEstablished, Meeting

LEMMA ContentsStays ==
  ASSUME Contents, SameClient, SameService, UNCHANGED ends0
  PROVE  Contents'
<1>. USE DEF SameClient, SameService, ends0
<1>1. \A i \in 1..Known' : /\ \A q \in 2..Len(ClientLayers'[i].fd) : ExtendSaid(i, ClientLayers[i].fd[q])'
                           /\ EstablishSaid(ClientLayers[i].fd)'
  <2>1. \A i \in 1..Known : /\ \A q \in 2..Len(ClientLayers[i].fd) : ExtendSaid(i, ClientLayers[i].fd[q])
                            /\ EstablishSaid(ClientLayers[i].fd)
    BY DEF Contents
  <2>2. \A i, m : ExtendSaid(i, m)' <=> ExtendSaid(i, m)
    BY DEF ExtendSaid
  <2>3. \A s : EstablishSaid(s)' <=> EstablishSaid(s)
    BY DEF EstablishSaid
  <2>. QED
    BY <2>1, <2>2, <2>3 DEF ExtendSaid, EstablishSaid
<1>2. /\ Len(ServiceEnd'.hops) = 1 =>
           ServiceEnd'.hops[1].fd = IF rendezvousing' \in {"sent", "installed"} THEN <<FK(Meet), Rendezvous1>> ELSE <<FK(Meet)>>
      /\ ServiceEnd'.e2e # <<>> =>
           /\ ServiceEnd'.e2e[1].fd[1] = H2C
           /\ \A q \in 2..Len(ServiceEnd'.e2e[1].fd) : ServiceEnd'.e2e[1].fd[q][1] = "answer"
      /\ ClientEnd'.e2e # <<>> => ClientEnd'.e2e[1].fd[1] = C2H
  BY DEF Contents
<1>. QED
  BY <1>1, <1>2 DEF Contents, FK, Meet, Rendezvous1, H2C, C2H, Auth, ServiceKey, Meeting

LEMMA TimelyStays ==
  ASSUME Timely, ServiceEnd' = ServiceEnd, ServiceLayers' = ServiceLayers, ClientEnd'.e2e = ClientEnd.e2e, MeetBack' = MeetBack,
         UNCHANGED ghosts
  PROVE  Timely'
BY DEF Timely, ghosts, C2H, Meeting, ServiceKey

-----------------------------------------------------------------------------
(* What the operators of the handlers do. *)

\* A table of queues with a cell more on one leg, a cell less, or a cell moved on.
Gains(path, new, leg, c) ==
  /\ new = [l \in Leg |-> new[l]] /\ new[leg] = Append(path[leg], c)
  /\ \A l \in Leg : l # leg => new[l] = path[l]
Loses(path, new, leg) ==
  /\ new = [l \in Leg |-> new[l]] /\ new[leg] = Tail(path[leg])
  /\ \A l \in Leg : l # leg => new[l] = path[l]
Moves(path, new, from, to, c) ==
  /\ new = [l \in Leg |-> new[l]] /\ new[from] = Tail(path[from]) /\ new[to] = Append(path[to], c)
  /\ \A l \in Leg : l # from /\ l # to => new[l] = path[l]

LEMMA OnIs ==
  ASSUME NEW path, path = [l \in Leg |-> path[l]], NEW leg \in Leg, NEW c, NEW new, new = On(path, leg, c)
  PROVE  Gains(path, new, leg, c)
BY DEF On, Gains
LEMMA OffIs ==
  ASSUME NEW path, path = [l \in Leg |-> path[l]], NEW leg \in Leg, NEW new, new = Off(path, leg)
  PROVE  Loses(path, new, leg)
BY DEF Off, Loses
LEMMA OffOnIs ==
  ASSUME NEW path, path = [l \in Leg |-> path[l]], NEW from \in Leg, NEW to \in Leg, from # to,
         NEW c, NEW new, new = On(Off(path, from), to, c)
  PROVE  Moves(path, new, from, to, c)
<1>1. PICK mid : mid = Off(path, from)
  OBVIOUS
<1>2. Loses(path, mid, from)
  BY <1>1, OffIs
<1>3. mid = [l \in Leg |-> mid[l]]
  BY <1>2 DEF Loses
<1>4. Gains(mid, new, to, c)
  BY <1>1, <1>3, OnIs
<1>. QED
  BY <1>2, <1>4 DEF Moves, Loses, Gains

\* A hop after a cell.
HopAfter(h, h2, fn, fd, bn, bd) ==
  /\ IsHop(h2) /\ h2.fk = h.fk /\ h2.bk = h.bk /\ h2.fn = fn /\ h2.fd = fd /\ h2.bn = bn /\ h2.bd = bd

LEMMA HopMade ==
  ASSUME NEW h, IsHop(h), NEW fn \in Nat, NEW bn \in Nat, NEW fd, NEW bd, IsSeq(fd), IsSeq(bd), NEW h2,
         h2 = [fk |-> h.fk, bk |-> h.bk, fn |-> fn, bn |-> bn, fd |-> fd, bd |-> bd]
  PROVE  HopAfter(h, h2, fn, fd, bn, bd)
<1>1. h2.fk = h.fk /\ h2.bk = h.bk /\ h2.fn = fn /\ h2.fd = fd /\ h2.bn = bn /\ h2.bd = bd
  OBVIOUS
<1>2. h2 = [fk |-> h2.fk, bk |-> h2.bk, fn |-> h2.fn, bn |-> h2.bn, fd |-> h2.fd, bd |-> h2.bd]
  BY <1>1
<1>. QED
  BY <1>1, <1>2 DEF HopAfter, IsHop
BackTicked(hop) == [hop EXCEPT !.bn = @ + 1]

LEMMA HopSteps ==
  ASSUME NEW h, IsHop(h), NEW c
  PROVE  /\ HopAfter(h, Ticked(h), h.fn + 1, h.fd, h.bn, h.bd)
         /\ HopAfter(h, Absorbed(h, c), h.fn + 1, Append(h.fd, c), h.bn, h.bd)
         /\ HopAfter(h, AfterBackward(h, c), h.fn, h.fd, h.bn + 1, Append(h.bd, c))
         /\ HopAfter(h, BackTicked(h), h.fn, h.fd, h.bn + 1, h.bd)
<1>1. /\ h = [fk |-> h.fk, bk |-> h.bk, fn |-> h.fn, bn |-> h.bn, fd |-> h.fd, bd |-> h.bd]
      /\ h.fn \in Nat /\ h.bn \in Nat /\ IsSeq(h.fd) /\ IsSeq(h.bd)
  BY DEF IsHop
<1>2. h.fn + 1 \in Nat /\ h.bn + 1 \in Nat /\ IsSeq(Append(h.fd, c)) /\ IsSeq(Append(h.bd, c))
  BY <1>1, AppendIs
<1>3. Ticked(h) = [fk |-> h.fk, bk |-> h.bk, fn |-> h.fn + 1, bn |-> h.bn, fd |-> h.fd, bd |-> h.bd]
  BY <1>1 DEF Ticked
<1>4. Absorbed(h, c) = [fk |-> h.fk, bk |-> h.bk, fn |-> h.fn + 1, bn |-> h.bn, fd |-> Append(h.fd, c), bd |-> h.bd]
  <2>1. PICK w : w = Absorbed(h, c)
    OBVIOUS
  <2>2. w = [h EXCEPT !.fn = @ + 1, !.fd = Append(@, c)]
    BY <2>1 DEF Absorbed
  <2>3. w = [fk |-> h.fk, bk |-> h.bk, fn |-> h.fn + 1, bn |-> h.bn, fd |-> Append(h.fd, c), bd |-> h.bd]
    BY <1>1, <2>2
  <2>. QED
    BY <2>1, <2>3
<1>5. AfterBackward(h, c) = [fk |-> h.fk, bk |-> h.bk, fn |-> h.fn, bn |-> h.bn + 1, fd |-> h.fd, bd |-> Append(h.bd, c)]
  <2>1. PICK w : w = AfterBackward(h, c)
    OBVIOUS
  <2>2. w = [h EXCEPT !.bn = @ + 1, !.bd = Append(@, c)]
    BY <2>1 DEF AfterBackward
  <2>3. w = [fk |-> h.fk, bk |-> h.bk, fn |-> h.fn, bn |-> h.bn + 1, fd |-> h.fd, bd |-> Append(h.bd, c)]
    BY <1>1, <2>2
  <2>. QED
    BY <2>1, <2>3
<1>6. BackTicked(h) = [fk |-> h.fk, bk |-> h.bk, fn |-> h.fn, bn |-> h.bn + 1, fd |-> h.fd, bd |-> h.bd]
  BY <1>1 DEF BackTicked
<1>7. HopAfter(h, Ticked(h), h.fn + 1, h.fd, h.bn, h.bd)
  BY <1>1, <1>2, <1>3, HopMade
<1>8. HopAfter(h, Absorbed(h, c), h.fn + 1, Append(h.fd, c), h.bn, h.bd)
  BY <1>1, <1>2, <1>4, HopMade
<1>9. HopAfter(h, AfterBackward(h, c), h.fn, h.fd, h.bn + 1, Append(h.bd, c))
  BY <1>1, <1>2, <1>5, HopMade
<1>10. HopAfter(h, BackTicked(h), h.fn, h.fd, h.bn + 1, h.bd)
  BY <1>1, <1>2, <1>6, HopMade
<1>. QED
  BY <1>7, <1>8, <1>9, <1>10

\* The table of relays, with another hop at one leg, or at two.
HopAt(leg, h) ==
  relays'[leg] = [hop |-> h, next |-> relays[leg].next, awaiting |-> relays[leg].awaiting]

LEMMA StepsOne ==
  ASSUME Shape, NEW leg \in DOMAIN relays, NEW h, NEW n, NEW a, IsHop(h), h.fk = FK(leg), h.bk = BK(leg),
         relays' = [relays EXCEPT ![leg] = [hop |-> h, next |-> n, awaiting |-> a]]
  PROVE  /\ Steps({leg}) /\ relays'[leg].hop = h /\ relays'[leg].next = n /\ relays'[leg].awaiting = a
         /\ \A l \in DOMAIN relays : l # leg => relays'[l] = relays[l]
<1>1. relays = [l \in DOMAIN relays |-> relays[l]] /\ \A l \in DOMAIN relays : RelayOK(l)
  BY DEF Shape
<1>2. /\ DOMAIN relays' = DOMAIN relays /\ relays' = [l \in DOMAIN relays |-> relays'[l]]
      /\ relays'[leg] = [hop |-> h, next |-> n, awaiting |-> a]
      /\ \A l \in DOMAIN relays : l # leg => relays'[l] = relays[l]
  BY <1>1
<1>3. relays'[leg].hop = h /\ relays'[leg].next = n /\ relays'[leg].awaiting = a
  BY <1>2
<1>4. RelayOK(leg)'
  BY <1>2, <1>3 DEF RelayOK
<1>5. \A l \in DOMAIN relays : l # leg => RelayOK(l)'
  BY <1>1, <1>2 DEF RelayOK
<1>. QED
  BY <1>2, <1>3, <1>4, <1>5 DEF Steps

LEMMA StepsHop ==
  ASSUME Shape, NEW leg \in DOMAIN relays, NEW h, IsHop(h), h.fk = FK(leg), h.bk = BK(leg),
         relays' = [relays EXCEPT ![leg].hop = h]
  PROVE  /\ Steps({leg}) /\ StagesStay /\ relays'[leg].hop = h
         /\ \A l \in DOMAIN relays : l # leg => relays'[l] = relays[l]
<1>1. relays = [l \in DOMAIN relays |-> relays[l]]
  BY DEF Shape
<1>2. relays[leg] = [hop |-> relays[leg].hop, next |-> relays[leg].next, awaiting |-> relays[leg].awaiting]
  BY RelayIs
<1>3. [relays[leg] EXCEPT !.hop = h] = [hop |-> h, next |-> relays[leg].next, awaiting |-> relays[leg].awaiting]
  BY <1>2
<1>4. relays' = [relays EXCEPT ![leg] = [relays[leg] EXCEPT !.hop = h]]
  OBVIOUS
<1>5. relays' = [relays EXCEPT ![leg] = [hop |-> h, next |-> relays[leg].next, awaiting |-> relays[leg].awaiting]]
  BY <1>3, <1>4
<1>6. /\ Steps({leg}) /\ relays'[leg].hop = h /\ relays'[leg].next = relays[leg].next
      /\ relays'[leg].awaiting = relays[leg].awaiting
      /\ \A l \in DOMAIN relays : l # leg => relays'[l] = relays[l]
  <2>1. PICK n, a : n = relays[leg].next /\ a = relays[leg].awaiting
    OBVIOUS
  <2>2. relays' = [relays EXCEPT ![leg] = [hop |-> h, next |-> n, awaiting |-> a]]
    BY <1>5, <2>1
  <2>3. /\ Steps({leg}) /\ relays'[leg].hop = h /\ relays'[leg].next = n /\ relays'[leg].awaiting = a
        /\ \A l \in DOMAIN relays : l # leg => relays'[l] = relays[l]
    BY <2>2, StepsOne
  <2>. QED
    BY <2>1, <2>3
<1>. QED
  BY <1>6 DEF StagesStay

LEMMA StepsTwo ==
  ASSUME Shape, NEW a \in DOMAIN relays, NEW b \in DOMAIN relays, a # b, NEW g, NEW h,
         IsHop(g), g.fk = FK(a), g.bk = BK(a), IsHop(h), h.fk = FK(b), h.bk = BK(b),
         relays' = [relays EXCEPT ![a].hop = g, ![b].hop = h]
  PROVE  /\ Steps({a, b}) /\ StagesStay /\ relays'[a].hop = g /\ relays'[b].hop = h
         /\ \A l \in DOMAIN relays : l # a /\ l # b => relays'[l] = relays[l]
<1>1. relays = [l \in DOMAIN relays |-> relays[l]] /\ \A l \in DOMAIN relays : RelayOK(l)
  BY DEF Shape
<1>2. /\ DOMAIN relays' = DOMAIN relays /\ relays' = [l \in DOMAIN relays |-> relays'[l]]
      /\ relays'[a] = [relays[a] EXCEPT !.hop = g] /\ relays'[b] = [relays[b] EXCEPT !.hop = h]
      /\ \A l \in DOMAIN relays : l # a /\ l # b => relays'[l] = relays[l]
  BY <1>1
<1>3. /\ relays[a] = [hop |-> relays[a].hop, next |-> relays[a].next, awaiting |-> relays[a].awaiting]
      /\ relays[b] = [hop |-> relays[b].hop, next |-> relays[b].next, awaiting |-> relays[b].awaiting]
  BY RelayIs
<1>4. /\ relays'[a] = [hop |-> g, next |-> relays[a].next, awaiting |-> relays[a].awaiting]
      /\ relays'[b] = [hop |-> h, next |-> relays[b].next, awaiting |-> relays[b].awaiting]
  BY <1>2, <1>3
<1>5. /\ relays'[a].hop = g /\ relays'[a].next = relays[a].next /\ relays'[a].awaiting = relays[a].awaiting
      /\ relays'[b].hop = h /\ relays'[b].next = relays[b].next /\ relays'[b].awaiting = relays[b].awaiting
  BY <1>4
<1>6. RelayOK(a)' /\ RelayOK(b)'
  BY <1>4, <1>5 DEF RelayOK
<1>7. \A l \in DOMAIN relays : l # a /\ l # b => RelayOK(l)'
  BY <1>1, <1>2 DEF RelayOK
<1>. QED
  BY <1>2, <1>5, <1>6, <1>7 DEF Steps, StagesStay

-----------------------------------------------------------------------------
(* A relay takes up the next cell of a way. *)

TakenUp(G, c, i, T, P, hop) ==
  /\ T \in Nat /\ G[i].o \in Nat /\ T = hop.fn + G[i].o /\ T - G[i].o = hop.fn /\ hop.fn \in Nat
  /\ CellOK(G, c, i, T) /\ c.kind = "relay"
  /\ MineNow(G, P, i, T, hop.fd) \/ NotMine(G, P, i, T, hop.fd)

LEMMA WayTake ==
  ASSUME NEW G, NEW m \in Nat, NEW N \in Nat, NEW x, NEW y, NEW R, NEW Q, NEW i \in 1..m, NEW T, NEW P,
         ChainOK(G), LogsFull(G), m <= Len(G), OutLine(G, m, N, x, y, R, Q), Q[i] # <<>>,
         T = R[i].fn + G[i].o, P = Crypt(Head(Q[i]), Coat(G, i, T))
  PROVE  TakenUp(G, Head(Q[i]), i, T, P, R[i]) /\ T < N
<1>. DEFINE top == N - One(x) - One(y)
<1>1. OutWay(G, m, N, top, R, Q)
  BY LineTop
<1>. HIDE DEF top
<1>2. /\ OutTurn(G, top, R, i - 1) \in Nat /\ OutTurn(G, top, R, i) \in Nat /\ OutHop(G, N, top, R, Q, i)
      /\ OutTurn(G, top, R, i - 1) <= N /\ G[i].o \in Nat /\ OutTurn(G, top, R, i) = T
  <2>1. i - 1 \in 0..m /\ i \in 0..m
    OBVIOUS
  <2>. QED
    BY <1>1, <2>1, OutTurns
<1>3. Run(G, Q[i], i, T, OutTurn(G, top, R, i - 1)) /\ R[i].fn \in Nat /\ Heard(G, i, R[i].fn, R[i].fd)
  BY <1>2 DEF OutHop
<1>4. T < OutTurn(G, top, R, i - 1) /\ CellOK(G, Head(Q[i]), i, T)
  <2>1. T \in Int /\ OutTurn(G, top, R, i - 1) \in Int
    BY <1>2
  <2>. QED
    BY <2>1, <1>3, RunPop
<1>5. T - G[i].o = R[i].fn /\ T \in Int /\ T \in Nat /\ T < N
  BY <1>2, <1>3, <1>4
<1>6. i \in 1..Len(G)
  <2>1. Len(G) \in Nat
    BY IsSeqShape DEF ChainOK
  <2>. QED
    BY <2>1
<1>7. Heard(G, i, T - G[i].o, R[i].fd)
  BY <1>3, <1>5
<1>8. MineNow(G, P, i, T, R[i].fd) \/ NotMine(G, P, i, T, R[i].fd)
  BY <1>4, <1>5, <1>6, <1>7, RelayStep
<1>. QED
  BY <1>2, <1>3, <1>4, <1>5, <1>8, CellKind DEF TakenUp

LEMMA TakeAt ==
  ASSUME Shape, ClientOut, NEW i \in 1..Known, forward[LegTo(i)] # <<>>
  PROVE  /\ TakenUp(ChainOut, Head(forward[LegTo(i)]), i, Passed(i), Peel(LegTo(i)), RelayHop(i))
         /\ Passed(i) < Sent /\ Sent \in Nat
<1>1. Known \in Nat /\ Known > 0 /\ LegTo(i) \in DOMAIN relays
  BY KnownIs
<1>2. ChainIsFor(ClientLayers, Known) /\ ClientIs
  BY <1>1, ChainsAre, EndsAre DEF ClientChain
<1>3. /\ ChainOK(ChainOut) /\ LogsFull(ChainOut) /\ Known <= Len(ChainOut) /\ Sent \in Nat
      /\ \A j \in 1..Len(ClientLayers) : ChainOut[j].k = ClientLayers[j].fk /\ ChainOut[j].o \in Nat
      /\ Known <= Len(ClientLayers) /\ Len(ClientLayers) \in Nat
  BY <1>2 DEF ChainIsFor, ChainOut, Sent
<1>4. i \in 1..Len(ClientLayers)
  BY <1>1, <1>3
<1>5. ChainOut[i].k = FK(LegTo(i)) /\ ChainOut[i].o \in Nat
  BY <1>2, <1>3, <1>4 DEF ClientIs, EndLayers, ClientLayers, LegTo
<1>6. relays[LegTo(i)].hop.fk = FK(LegTo(i)) /\ IsHop(relays[LegTo(i)].hop) /\ relays[LegTo(i)].hop.fn \in Nat
  BY <1>1, RelayIs DEF IsHop
<1>7. OutQueues[i] = forward[LegTo(i)] /\ Relayed[i] = RelayHop(i)
  BY RelayedIs
<1>. DEFINE T == RelayHop(i).fn + ChainOut[i].o
<1>8. T - ChainOut[i].o = RelayHop(i).fn
  BY <1>5, <1>6 DEF RelayHop
<1>9. Peel(LegTo(i)) = Crypt(Head(OutQueues[i]), Coat(ChainOut, i, T))
  BY <1>5, <1>6, <1>7, <1>8 DEF Peel, Coat, RelayHop
<1>10. OutLine(ChainOut, Known, Sent, held["fetch"], held["pump"], Relayed, OutQueues)
  BY <1>1 DEF ClientOut
<1>11. OutQueues[i] # <<>> /\ T = Relayed[i].fn + ChainOut[i].o /\ T = Passed(i)
  BY <1>7 DEF Passed
<1>. HIDE DEF T
<1>12. TakenUp(ChainOut, Head(OutQueues[i]), i, T, Peel(LegTo(i)), Relayed[i]) /\ T < Sent
  BY <1>1, <1>3, <1>9, <1>10, <1>11, WayTake
<1>. QED
  BY <1>3, <1>7, <1>11, <1>12

LEMMA TakeMeet ==
  ASSUME Shape, ServiceWayOut, Len(ServiceEnd.hops) = 1, forward[Meet] # <<>>
  PROVE  /\ TakenUp(ServiceOut, Head(forward[Meet]), 1, MeetHop.fn, Peel(Meet), MeetHop)
         /\ MeetHop.fn < ServiceLayers[1].fn /\ ServiceLayers[1].fn \in Nat /\ ServiceOut[1].o = 0
<1>1. Meet \in DOMAIN relays /\ Len(ServiceEnd.hops) > 0
  BY KnownIs
<1>2. ChainIsFor(ServiceLayers, 1) /\ ServiceIs
  BY <1>1, ChainsAre, EndsAre DEF ServiceChain
<1>. DEFINE N == ServiceLayers[1].fn
            R == <<MeetHop>>
            P == <<forward[Meet]>>
<1>3. /\ ChainOK(ServiceOut) /\ LogsFull(ServiceOut) /\ 1 <= Len(ServiceOut) /\ N \in Nat
      /\ \A j \in 1..Len(ServiceLayers) : ServiceOut[j].k = ServiceLayers[j].fk
      /\ 1 <= Len(ServiceLayers) /\ Len(ServiceLayers) \in Nat /\ ServiceOut[1].o = 0
  BY <1>2 DEF ChainIsFor, ServiceOut
<1>4. 1 \in 1..Len(ServiceLayers) /\ 1 \in 1..1 /\ 1 \in Nat
  BY <1>3
<1>5. ServiceOut[1].k = FK(Meet)
  <2>1. \A j \in 1..1 : ServiceLayers[j].fk = FK(<<"service", j>>)
    BY <1>2 DEF ServiceIs, EndLayers, ServiceLayers
  <2>. QED
    BY <1>3, <1>4, <2>1 DEF Meet
<1>6. relays[Meet].hop.fk = FK(Meet) /\ IsHop(relays[Meet].hop) /\ relays[Meet].hop.fn \in Nat
  BY <1>1, RelayIs DEF IsHop
<1>7. P[1] = forward[Meet] /\ R[1] = MeetHop
  OBVIOUS
<1>8. MeetHop.fn - ServiceOut[1].o = MeetHop.fn /\ MeetHop.fn = R[1].fn + ServiceOut[1].o
  BY <1>3, <1>6, <1>7 DEF MeetHop
<1>9. Peel(Meet) = Crypt(Head(P[1]), Coat(ServiceOut, 1, MeetHop.fn))
  BY <1>5, <1>6, <1>7, <1>8 DEF Peel, Coat, MeetHop
<1>10. OutLine(ServiceOut, 1, N, <<>>, <<>>, R, P)
  BY <1>1 DEF ServiceWayOut
<1>11. P[1] # <<>>
  BY <1>7
<1>. HIDE DEF N, R, P
<1>12. TakenUp(ServiceOut, Head(P[1]), 1, MeetHop.fn, Peel(Meet), R[1]) /\ MeetHop.fn < N
  BY <1>3, <1>4, <1>8, <1>9, <1>10, <1>11, WayTake
<1>. QED
  BY <1>3, <1>7, <1>12 DEF N

TakesAt(i) ==
  /\ RelayHop(i)'.fn = RelayHop(i).fn + 1 /\ Heard(ChainOut, i, RelayHop(i).fn + 1, RelayHop(i)'.fd)
  /\ forward'[LegTo(i)] = Tail(forward[LegTo(i)])
  /\ \A j \in 1..Known : j # i => RelayHop(j)'.fn = RelayHop(j).fn /\ RelayHop(j)'.fd = RelayHop(j).fd
  /\ \A j \in 1..Known : j # i /\ j # i + 1 => forward'[LegTo(j)] = forward[LegTo(j)]
  /\ i < Known => \/ /\ Passed(i) < ChainOut[i + 1].o
                     /\ forward'[LegTo(i + 1)] = forward[LegTo(i + 1)]
                  \/ /\ ChainOut[i + 1].o <= Passed(i)
                     /\ \E P : CellOK(ChainOut, P, i + 1, Passed(i)) /\ forward'[LegTo(i + 1)] = Append(forward[LegTo(i + 1)], P)

LEMMA ClientOutTakes ==
  ASSUME Shape, ClientOut, SameClient, held'["fetch"] = held["fetch"], held'["pump"] = held["pump"],
         NEW i \in 1..Known, forward[LegTo(i)] # <<>>, TakesAt(i)
  PROVE  ClientOut'
<1>1. Known \in Nat /\ Known > 0
  BY KnownIs
<1>2. Known' = Known /\ ChainOut' = ChainOut /\ Sent' = Sent /\ ClientLayers' = ClientLayers
  BY DEF SameClient
<1>3. ChainOK(ChainOut) /\ Known <= Len(ChainOut) /\ Sent \in Nat
  BY <1>1, ChainsAre DEF ClientChain, ChainIsFor, ChainOut, Sent
<1>4. OutLine(ChainOut, Known, Sent, held["fetch"], held["pump"], Relayed, OutQueues)
  BY <1>1 DEF ClientOut
<1>5. /\ \A j \in 1..Known : Relayed[j] = RelayHop(j) /\ OutQueues[j] = forward[LegTo(j)]
      /\ \A j \in 1..Known : Relayed'[j] = RelayHop(j)' /\ OutQueues'[j] = forward'[LegTo(j)]
  BY <1>2, RelayedIs
<1>6. i < Known => i + 1 \in 1..Known
  BY <1>1
<1>. DEFINE T == Relayed[i].fn + ChainOut[i].o
<1>7. T = Passed(i)
  BY <1>5 DEF Passed
<1>8. OutTaken(ChainOut, Known, Relayed, OutQueues, Relayed', OutQueues', i, T)
  <2>1. /\ Relayed'[i].fn = Relayed[i].fn + 1 /\ Heard(ChainOut, i, Relayed[i].fn + 1, Relayed'[i].fd)
        /\ OutQueues'[i] = Tail(OutQueues[i])
    BY <1>5 DEF TakesAt
  <2>2. /\ \A j \in 1..Known : j # i => Relayed'[j].fn = Relayed[j].fn /\ Relayed'[j].fd = Relayed[j].fd
        /\ \A j \in 1..Known : j # i /\ j # i + 1 => OutQueues'[j] = OutQueues[j]
    BY <1>5 DEF TakesAt
  <2>3. i < Known => \/ T < ChainOut[i + 1].o /\ OutQueues'[i + 1] = OutQueues[i + 1]
                     \/ /\ ChainOut[i + 1].o <= T
                        /\ \E P : CellOK(ChainOut, P, i + 1, T) /\ OutQueues'[i + 1] = Append(OutQueues[i + 1], P)
    BY <1>5, <1>6, <1>7 DEF TakesAt
  <2>. QED
    BY <2>1, <2>2, <2>3 DEF OutTaken
<1>9. OutQueues[i] # <<>>
  BY <1>5
<1>. HIDE DEF T
<1>10. OutLine(ChainOut, Known, Sent, held["fetch"], held["pump"], Relayed', OutQueues')
  <2>1. T = Relayed[i].fn + ChainOut[i].o
    BY DEF T
  <2>. QED
    <3>1. PICK G, m, N, x, y, R, Q, R2, Q2 :
             /\ G = ChainOut /\ m = Known /\ N = Sent /\ x = held["fetch"] /\ y = held["pump"]
             /\ R = Relayed /\ Q = OutQueues /\ R2 = Relayed' /\ Q2 = OutQueues'
      OBVIOUS
    <3>2. /\ ChainOK(G) /\ m \in Nat /\ m <= Len(G) /\ N \in Nat /\ i \in 1..m /\ Q[i] # <<>>
          /\ OutLine(G, m, N, x, y, R, Q) /\ T = R[i].fn + G[i].o
          /\ OutTaken(G, m, R, Q, R2, Q2, i, T)
      BY <1>1, <1>3, <1>4, <1>8, <1>9, <2>1, <3>1
    <3>3. OutLine(G, m, N, x, y, R2, Q2)
      BY ONLY <3>2, LineTake
    <3>. QED
      BY <3>1, <3>3
<1>11. LayersOK(ClientLayers) /\ (Known = 0 => Free("fetch") /\ Free("pump"))
  BY DEF ClientOut
<1>. QED
  BY <1>2, <1>10, <1>11 DEF ClientOut, Free

LEMMA ServiceOutTakes ==
  ASSUME Shape, ServiceWayOut, SameService, Len(ServiceEnd.hops) = 1, forward[Meet] # <<>>,
         MeetHop'.fn = MeetHop.fn + 1, Heard(ServiceOut, 1, MeetHop.fn + 1, MeetHop'.fd), forward'[Meet] = Tail(forward[Meet])
  PROVE  ServiceWayOut'
<1>1. ServiceEnd' = ServiceEnd /\ ServiceLayers' = ServiceLayers /\ ServiceOut' = ServiceOut /\ Len(ServiceEnd.hops) > 0
  BY DEF SameService
<1>. DEFINE N == ServiceLayers[1].fn
            R == <<MeetHop>>
            Q == <<forward[Meet]>>
            R2 == <<MeetHop'>>
            Q2 == <<forward'[Meet]>>
            T == R[1].fn + ServiceOut[1].o
<1>2. ChainOK(ServiceOut) /\ 1 <= Len(ServiceOut) /\ N \in Nat
  BY <1>1, ChainsAre DEF ServiceChain, ChainIsFor, ServiceOut
<1>3. OutLine(ServiceOut, 1, N, <<>>, <<>>, R, Q)
  BY <1>1 DEF ServiceWayOut
<1>4. \A j \in 1..1 : j = 1
  OBVIOUS
<1>5. /\ R2[1].fn = R[1].fn + 1 /\ Heard(ServiceOut, 1, R[1].fn + 1, R2[1].fd) /\ Q2[1] = Tail(Q[1]) /\ Q[1] # <<>>
      /\ T = R[1].fn + ServiceOut[1].o /\ 1 \in 1..1 /\ 1 \in Nat /\ ~(1 < 1)
  OBVIOUS
<1>. HIDE DEF N, R, Q, R2, Q2, T
<1>6. OutTaken(ServiceOut, 1, R, Q, R2, Q2, 1, T)
  BY <1>4, <1>5 DEF OutTaken
<1>7. OutLine(ServiceOut, 1, N, <<>>, <<>>, R2, Q2)
  BY <1>2, <1>3, <1>5, <1>6, LineTake
<1>8. LayersOK(ServiceLayers)
  BY DEF ServiceWayOut
<1>. QED
  BY <1>1, <1>7, <1>8 DEF ServiceWayOut, N, R2, Q2

\* A cell that ends at the point does not cross the bridge.
LEMMA BridgedMine ==
  ASSUME Shape, ClientOut, Bridged, SameClient, NEW i \in 1..Known, NEW P, NEW fd, MineNow(ChainOut, P, i, Passed(i), fd),
         Passed(i) \in Nat, RelayHop(i).fn \in Nat, ChainOut[i].o \in Nat,
         RelayHop(i)'.fn = RelayHop(i).fn + 1, i # PathLen /\ ClientEnd.e2e # <<>> => RelayHop(PathLen)'.fn = RelayHop(PathLen).fn,
         Meet \in DOMAIN relays' => Meet \in DOMAIN relays /\ MeetHop'.bn = MeetHop.bn
  PROVE  Bridged'
<1>1. CASE i # PathLen
  BY <1>1, BridgedStays
<1>2. CASE i = PathLen
  <2>1. Passed(PathLen)' = Passed(PathLen) + 1
    BY <1>2 DEF Passed, SameClient
  <2>2. ASSUME ClientEnd.e2e # <<>> PROVE Passed(PathLen) < ChainOut[PathLen + 1].o /\ ChainOut[PathLen + 1].o \in Nat
    <3>1. ClientIs /\ Known > 0 /\ Known \in Nat
      BY EndsAre, KnownIs
    <3>2. Len(ClientLayers) = Known + 1 /\ Known = PathLen
      BY <2>2, <3>1 DEF ClientIs, EndLayers, ClientLayers, Hops
    <3>3. Len(ChainOut) = Len(ClientLayers) /\ ChainOK(ChainOut)
      BY <3>1, ChainsAre DEF ClientChain, ChainIsFor, ChainOut
    <3>4. i < Len(ChainOut) /\ PathLen + 1 \in 1..Len(ChainOut)
      BY <3>1, <3>2, <3>3, <1>2
    <3>. QED
      BY <3>3, <3>4, <1>2 DEF MineNow, EndsAt, ChainOK
  <2>3. ASSUME ClientEnd.e2e # <<>>
        PROVE  ~(Passed(PathLen) > ChainOut[PathLen + 1].o) /\ ~(Passed(PathLen) + 1 > ChainOut[PathLen + 1].o)
    <3>1. Passed(PathLen) \in Nat
      BY <1>2
    <3>. QED
      BY <3>1, <2>2, <2>3
  <2>. QED
    BY <2>1, <2>3 DEF Bridged, SameClient
<1>. QED
  BY <1>1, <1>2

LEMMA EstablishedStays ==
  ASSUME PointEstablished, NEW fd, NEW c, IsSeq(RelayHop(PathLen).fd),
         RelayHop(PathLen)'.fd = RelayHop(PathLen).fd \/ RelayHop(PathLen)'.fd = Append(RelayHop(PathLen).fd, c)
  PROVE  PointEstablished'
<1>. DEFINE s == RelayHop(PathLen).fd
            t == RelayHop(PathLen)'.fd
<1>1. PICK q \in 2..Len(s) : s[q][1] = "establish"
  BY DEF PointEstablished
<1>2. Len(s) \in Nat
  BY IsSeqShape
<1>3. t = s \/ (Len(t) = Len(s) + 1 /\ \A i \in 1..Len(s) : t[i] = s[i])
  BY AppendIs
<1>. HIDE DEF s, t
<1>4. q \in 2..Len(t) /\ t[q] = s[q]
  BY <1>2, <1>3
<1>. QED
  BY <1>1, <1>4 DEF PointEstablished, t

-----------------------------------------------------------------------------
(* A relay of the client's circuit takes up a cell of its own. *)

ForwardTook(i) ==
  /\ forward' = [l \in Leg |-> forward'[l]] /\ forward'[LegTo(i)] = Tail(forward[LegTo(i)])
  /\ \A j \in 1..Known : j # i => forward'[LegTo(j)] = forward[LegTo(j)]
  /\ forward'[Meet] = forward[Meet]
\* All but the stages of building and what the relays have said.
AllBut == /\ Shape /\ ClientOut /\ ServiceWayOut /\ ClientHears /\ ClientBack
          /\ Bridged /\ ServiceBack /\ Control /\ Contents /\ Timely

\* What a step of one relay of the client's circuit leaves of the others.
LEMMA OthersStill ==
  ASSUME Good, NEW i \in 1..Known, Steps({LegTo(i)})
  PROVE  /\ \A j \in 1..Known : j # i => RelayHop(j)' = RelayHop(j)
         /\ Meet \in DOMAIN relays => MeetHop' = MeetHop
         /\ Len(ServiceEnd.hops) > 0 => MeetHop' = MeetHop
         /\ cookie = "used" => MeetHop' = MeetHop
         /\ Meet \in DOMAIN relays' => Meet \in DOMAIN relays
         /\ (ClientEnd.e2e # <<>> \/ cookie # "none") => Known = PathLen /\ PathLen \in 1..Known
<1>1. Shape /\ Control
  BY DEF Good
<1>2. /\ Known \in Nat /\ PathLen >= 1 /\ PathLen \in Nat /\ Len(ServiceEnd.hops) \in 0..1
      /\ \A j \in 1..Known : LegTo(j) \in DOMAIN relays /\ j \in Int
      /\ (Len(ServiceEnd.hops) = 1 => Meet \in DOMAIN relays)
  BY <1>1, KnownIs
<1>3. DOMAIN relays' = DOMAIN relays /\ \A l \in DOMAIN relays : l # LegTo(i) => relays'[l] = relays[l]
  BY DEF Steps
<1>4. ASSUME NEW j \in 1..Known, j # i PROVE RelayHop(j)' = RelayHop(j)
  <2>1. LegTo(j) # LegTo(i)
    BY <1>2, <1>4, LegApart
  <2>2. relays'[LegTo(j)] = relays[LegTo(j)]
    BY <1>2, <1>3, <2>1
  <2>. QED
    BY <2>2 DEF RelayHop, LegTo
<1>5. Meet # LegTo(i)
  BY <1>2, LegApart
<1>6. Meet \in DOMAIN relays => MeetHop' = MeetHop
  BY <1>3, <1>5 DEF MeetHop, Meet
<1>7. cookie = "used" => Len(ServiceEnd.hops) = 1
  BY <1>1 DEF Control
<1>8. Len(ServiceEnd.hops) > 0 => Len(ServiceEnd.hops) = 1
  BY <1>2
<1>9. ClientEnd.e2e # <<>> \/ cookie # "none" => Known = PathLen
  BY <1>1 DEF Control
<1>. QED
  BY <1>2, <1>3, <1>4, <1>6, <1>7, <1>8, <1>9

LEMMA RelayMine ==
  ASSUME Good, NEW i \in 1..Known, forward[LegTo(i)] # <<>>, IsRecognizedAt(Peel(LegTo(i)), RelayHop(i).fd), NEW c, c = Peel(LegTo(i)).cell,
         HopAfter(RelayHop(i), RelayHop(i)', RelayHop(i).fn + 1, Append(RelayHop(i).fd, c), RelayHop(i).bn, RelayHop(i).bd),
         Steps({LegTo(i)}), UNCHANGED <<origin, backward, held, tables, ends, ghosts>>, ForwardTook(i)
  PROVE  AllBut' /\ SaidStill /\ SameClient /\ SameService
<1>1. /\ Shape /\ ClientOut /\ ServiceWayOut /\ ClientHears /\ ClientBack
      /\ Bridged /\ ServiceBack /\ Control /\ Contents /\ Timely
  BY DEF Good
<1>2. ClientIs /\ ServiceIs /\ ClientChain /\ ServiceChain /\ BackIs /\ MeetBackIs
  BY GoodFacts DEF Facts
<1>3. SameClient /\ SameService
  BY SameEnds
<1>4. /\ \A j \in 1..Known : j # i => RelayHop(j)' = RelayHop(j)
      /\ Meet \in DOMAIN relays => MeetHop' = MeetHop
      /\ Len(ServiceEnd.hops) > 0 => MeetHop' = MeetHop
      /\ cookie = "used" => MeetHop' = MeetHop
      /\ Meet \in DOMAIN relays' => Meet \in DOMAIN relays
      /\ (ClientEnd.e2e # <<>> \/ cookie # "none") => Known = PathLen /\ PathLen \in 1..Known
  BY OthersStill
<1>5. /\ RelayHop(i)'.fn = RelayHop(i).fn + 1 /\ RelayHop(i)'.fd = Append(RelayHop(i).fd, c)
      /\ RelayHop(i)'.bn = RelayHop(i).bn /\ RelayHop(i)'.bd = RelayHop(i).bd
  BY DEF HopAfter
<1>6. /\ TakenUp(ChainOut, Head(forward[LegTo(i)]), i, Passed(i), Peel(LegTo(i)), RelayHop(i))
      /\ Passed(i) < Sent /\ Sent \in Nat
  BY <1>1, TakeAt
<1>7. MineNow(ChainOut, Peel(LegTo(i)), i, Passed(i), RelayHop(i).fd)
  BY <1>6 DEF TakenUp, NotMine
<1>8. /\ Passed(i) \in Nat /\ ChainOut[i].o \in Nat /\ Passed(i) - ChainOut[i].o = RelayHop(i).fn
      /\ Heard(ChainOut, i, RelayHop(i).fn + 1, Append(RelayHop(i).fd, c))
      /\ EndsAt(ChainOut, i, Passed(i)) /\ RelayHop(i).fn \in Nat
  BY <1>6, <1>7 DEF TakenUp, MineNow
<1>9. Known \in Nat /\ Known > 0
  BY <1>1, KnownIs
<1>10. Shape'
  <2>1. Tables'
    BY <1>1 DEF Shape, Tables, ForwardTook
  <2>. QED
    BY <1>1, <2>1, ShapeStays
<1>11. ClientOut'
  <2>1. i < Known => Passed(i) < ChainOut[i + 1].o /\ i + 1 \in 1..Known
    <3>1. ChainIsFor(ClientLayers, Known)
      BY <1>2, <1>9 DEF ClientChain
    <3>2. Known <= Len(ChainOut) /\ Len(ChainOut) \in Nat
      BY <3>1 DEF ChainIsFor, ChainOut
    <3>3. i < Known => i < Len(ChainOut)
      BY <1>9, <3>2
    <3>. QED
      BY <1>8, <1>9, <3>3 DEF EndsAt
  <2>2. TakesAt(i)
    <3>1. \A j \in 1..Known : j # i => RelayHop(j)'.fn = RelayHop(j).fn /\ RelayHop(j)'.fd = RelayHop(j).fd
      BY <1>4
    <3>2. i < Known => forward'[LegTo(i + 1)] = forward[LegTo(i + 1)]
      BY <2>1, <1>9 DEF ForwardTook
    <3>. QED
      BY <1>5, <1>8, <2>1, <3>1, <3>2 DEF TakesAt, ForwardTook
  <2>3. held'["fetch"] = held["fetch"] /\ held'["pump"] = held["pump"]
    OBVIOUS
  <2>. QED
    BY <1>1, <1>3, <2>2, <2>3, ClientOutTakes
<1>12. ServiceWayOut'
  <2>1. MeetOutStill
    BY <1>4 DEF MeetOutStill, ForwardTook
  <2>. QED
    BY <1>1, <1>2, <1>3, <2>1, ServiceWayOutStays
<1>13. SaidStill
  BY <1>4, <1>5 DEF SaidStill
<1>14. ChainBack' = ChainBack
  BY <1>3, <1>13, ChainBackStays DEF SameClient, SameService
<1>15. ClientHears'
  BY <1>1, <1>3, <1>14, ClientHearsStays DEF SameClient
<1>16. ClientBack'
  <2>1. BackHopsStill
    BY <1>4, <1>5 DEF BackHopsStill
  <2>2. Known' = Known /\ Read' = Read
    BY <1>3 DEF SameClient
  <2>3. held'["clientReader"] = held["clientReader"] /\ held'["serviceReader"] = held["serviceReader"]
    OBVIOUS
  <2>. QED
    BY <1>1, <1>2, <1>14, <2>1, <2>2, <2>3, ClientBackStays
<1>17. Bridged'
  <2>1. Meet \in DOMAIN relays' => Meet \in DOMAIN relays /\ MeetHop'.bn = MeetHop.bn
    BY <1>4
  <2>2. i # PathLen /\ ClientEnd.e2e # <<>> => RelayHop(PathLen)'.fn = RelayHop(PathLen).fn
    BY <1>4
  <2>3. RelayHop(i)'.fn = RelayHop(i).fn + 1
    BY <1>5
  <2>. QED
    BY <1>1, <1>3, <1>7, <1>8, <2>1, <2>2, <2>3, BridgedMine
<1>18. ServiceBack'
  <2>1. MeetBackStill
    BY <1>4 DEF MeetBackStill
  <2>2. MeetBack' = MeetBack /\ Len(ServiceEnd.hops)' = Len(ServiceEnd.hops) /\ ServiceLayers' = ServiceLayers
    BY <1>3 DEF SameClient, SameService
  <2>3. Len(ServiceEnd.hops) > 0 => ServiceLayers'[1].bn = ServiceLayers[1].bn
    BY <2>2
  <2>. QED
    BY <1>1, <1>2, <2>1, <2>2, <2>3, ServiceBackStays
<1>19. Control'
  <2>1. cookie # "none" => PointEstablished'
    <3>1. SUFFICES ASSUME cookie # "none" PROVE PointEstablished'
      OBVIOUS
    <3>2. PointEstablished /\ PathLen \in 1..Known
      BY <1>1, <1>4, <3>1 DEF Control, PointEstablished
    <3>3. RelayHop(PathLen)'.fd = RelayHop(PathLen).fd \/ RelayHop(PathLen)'.fd = Append(RelayHop(PathLen).fd, c)
      BY <1>4, <1>5, <3>2
    <3>4. IsSeq(RelayHop(PathLen).fd)
      BY <1>1, <3>2, RelayIs, KnownIs DEF RelayHop, IsHop
    <3>. QED
      BY <3>2, <3>3, <3>4, EstablishedStays
  <2>2. cookie = "used" => MeetHop'.fn > 0
    BY <1>1, <1>4 DEF Control
  <2>3. UNCHANGED <<tables, ends0>>
    BY DEF ends, ends0
  <2>. QED
    BY <1>1, <1>3, <2>1, <2>2, <2>3, ControlStays
<1>20. Contents'
  <2>1. UNCHANGED ends0
    BY DEF ends, ends0
  <2>. QED
    BY <1>1, <1>3, <2>1, ContentsStays
<1>21. Timely'
  BY <1>1, <1>3, TimelyStays DEF SameClient, SameService
<1>. QED
  BY <1>3, <1>10, <1>11, <1>12, <1>13, <1>15, <1>16, <1>17, <1>18, <1>19, <1>20, <1>21 DEF AllBut

\* Where a cell is recognised, and what it then says.
LEMMA RelayLegs ==
  ASSUME Good, NEW leg \in Leg, CellArrives(forward, leg, "relay")
  PROVE  (\E i \in 1..Known : leg = LegTo(i)) \/ (leg = Meet /\ Len(ServiceEnd.hops) = 1)
<1>1. Places
  BY GoodFacts DEF Facts
<1>2. leg = Meet \/ \E i \in 1..PathLen : leg = LegTo(i)
  BY LegIs
<1>. QED
  BY <1>1, <1>2 DEF Places

LEMMA RelaySays ==
  ASSUME Good, NEW i \in 1..Known, forward[LegTo(i)] # <<>>, IsRecognizedAt(Peel(LegTo(i)), RelayHop(i).fd)
  PROVE  \E q \in 2..Len(ClientLayers[i].fd) : Peel(LegTo(i)).cell = ClientLayers[i].fd[q] /\ ExtendSaid(i, ClientLayers[i].fd[q])
<1>1. Shape /\ ClientOut /\ Contents
  BY DEF Good
<1>2. TakenUp(ChainOut, Head(forward[LegTo(i)]), i, Passed(i), Peel(LegTo(i)), RelayHop(i))
  BY <1>1, TakeAt
<1>3. MineNow(ChainOut, Peel(LegTo(i)), i, Passed(i), RelayHop(i).fd)
  BY <1>2 DEF TakenUp, NotMine
<1>4. Known \in Nat /\ Known > 0
  BY <1>1, KnownIs
<1>5. ChainIsFor(ClientLayers, Known)
  BY <1>1, <1>4, ChainsAre DEF ClientChain
<1>6. ChainOut[i].d = ClientLayers[i].fd
  <2>1. i \in 1..Len(ClientLayers)
    BY <1>4, <1>5 DEF ChainIsFor
  <2>. QED
    BY <1>5, <2>1 DEF ChainIsFor, ChainOut
<1>7. PICK q : q = Passed(i) - ChainOut[i].o + 2
  OBVIOUS
<1>8. q \in 2..Len(ClientLayers[i].fd) /\ Peel(LegTo(i)).cell = ClientLayers[i].fd[q]
  BY <1>3, <1>6, <1>7 DEF MineNow
<1>9. ExtendSaid(i, ClientLayers[i].fd[q])
  BY <1>1, <1>8 DEF Contents
<1>. QED
  BY <1>8, <1>9

LEMMA MeetSays ==
  ASSUME Good, Len(ServiceEnd.hops) = 1, forward[Meet] # <<>>, IsRecognizedAt(Peel(Meet), MeetHop.fd)
  PROVE  /\ Peel(Meet).cell = Rendezvous1 /\ MeetHop.fn = 0 /\ rendezvousing \in {"sent", "installed"}
         /\ MineNow(ServiceOut, Peel(Meet), 1, MeetHop.fn, MeetHop.fd)
<1>1. Shape /\ ServiceWayOut /\ Contents
  BY DEF Good
<1>2. /\ TakenUp(ServiceOut, Head(forward[Meet]), 1, MeetHop.fn, Peel(Meet), MeetHop)
      /\ ServiceOut[1].o = 0
  BY <1>1, TakeMeet
<1>3. MineNow(ServiceOut, Peel(Meet), 1, MeetHop.fn, MeetHop.fd) /\ MeetHop.fn \in Nat
  BY <1>2 DEF TakenUp, NotMine
<1>4. Len(ServiceEnd.hops) > 0
  BY <1>1
<1>5. ChainIsFor(ServiceLayers, 1) /\ ServiceIs
  BY <1>1, <1>4, ChainsAre, EndsAre DEF ServiceChain
<1>6. ServiceOut[1].d = ServiceEnd.hops[1].fd
  <2>1. 1 \in 1..Len(ServiceLayers) /\ 1 \in 1..1
    BY <1>5 DEF ChainIsFor
  <2>2. ServiceOut[1].d = ServiceLayers[1].fd
    BY <1>5, <2>1 DEF ChainIsFor, ServiceOut
  <2>3. \A j \in 1..1 : ServiceLayers[j] = ServiceEnd.hops[j]
    BY <1>5 DEF ServiceIs, EndLayers, ServiceLayers
  <2>. QED
    BY <2>1, <2>2, <2>3
<1>. DEFINE d == ServiceEnd.hops[1].fd
            n == MeetHop.fn
<1>7. n - 0 + 2 \in 2..Len(d) /\ Peel(Meet).cell = d[n - 0 + 2] /\ n \in Nat
  BY <1>2, <1>3, <1>6 DEF MineNow
<1>8. d = IF rendezvousing \in {"sent", "installed"} THEN <<FK(Meet), Rendezvous1>> ELSE <<FK(Meet)>>
  BY <1>1 DEF Contents
<1>9. CASE rendezvousing \in {"sent", "installed"}
  <2>1. IsSeq(d) /\ Len(d) = 2 /\ d[2] = Rendezvous1
    BY <1>8, <1>9, TwoIs
  <2>2. n = 0 /\ n - 0 + 2 = 2
    <3>. HIDE DEF d, n
    <3>. QED
      BY <1>7, <2>1
  <2>. QED
    BY <1>3, <1>7, <1>9, <2>1, <2>2
<1>10. CASE rendezvousing \notin {"sent", "installed"}
  <2>1. Len(d) = 1
    BY <1>8, <1>10, OneIs
  <2>2. FALSE
    <3>. HIDE DEF d, n
    <3>. QED
      BY <1>7, <2>1
  <2>. QED
    BY <2>2
<1>. QED
  BY <1>9, <1>10

\* The stages of building, when only those of the next hop may move.
LEMMA BuildingExtends ==
  ASSUME Shape, Building, Known \in 1..(PathLen - 1), CircuitsStay,
         \A i \in 1..(Known - 1) : relays'[LegTo(i)].next = relays[LegTo(i)].next /\ relays'[LegTo(i)].awaiting = relays[LegTo(i)].awaiting,
         \A i \in 1..PathLen : i > Known + 1 => Quiet(LegTo(i))',
         forward'[Meet] = forward[Meet], backward'[Meet] = backward[Meet], Meet \in DOMAIN relays' <=> Meet \in DOMAIN relays,
         Meet \in DOMAIN relays => relays'[Meet] = relays[Meet], Extending'
  PROVE  Building'
<1>1. /\ Len(origin'["client"].hops) = Known /\ Known' = Known /\ ClientEnd'.pending = ClientEnd.pending
      /\ Len(ServiceEnd'.hops) = Len(ServiceEnd.hops) /\ ServiceEnd'.pending = ServiceEnd.pending
  BY DEF CircuitsStay, OriginEnd, Known, ClientEnd, ServiceEnd
<1>2. Known # 0 /\ Known # PathLen /\ PathLen \in Nat /\ Known \in Nat /\ (Len(ServiceEnd.hops) = 1 => Meet \in DOMAIN relays)
  BY KnownIs
<1>3. Begun("client")'
  BY <1>1, <1>2 DEF Begun
<1>4. Begun("service")'
  <2>1. Begun("service") /\ Len(origin'["service"].hops) = Len(origin["service"].hops) /\ origin'["service"].pending = origin["service"].pending
    BY DEF Building, OriginEnd, CircuitsStay
  <2>2. /\ Absent(Meet)' <=> Absent(Meet)
        /\ Fresh(Meet)' <=> Fresh(Meet)
    BY DEF Absent, Fresh, Meet, FK, BK
  <2>3. /\ Quiet(Meet)' <=> Quiet(Meet)
        /\ Answered(Meet)' <=> Answered(Meet)
    BY <2>2 DEF Quiet, Answered, Meet, CreatedBy, Auth
  <2>. QED
    BY <2>1, <2>2, <2>3 DEF Begun, Meet
<1>5. \A i \in 1..(Known - 1) : Joined(relays'[LegTo(i)])
  <2>1. \A i \in 1..(Known - 1) : Joined(relays[LegTo(i)])
    BY DEF Building
  <2>. QED
    BY <2>1 DEF Joined
<1>6. Len(ServiceEnd'.hops) = 1 => ServiceEnd'.pending = NoKey /\ Idle(relays'[Meet])
  <2>1. Len(ServiceEnd.hops) = 1 => ServiceEnd.pending = NoKey /\ Idle(relays[Meet])
    BY DEF Building
  <2>. QED
    BY <2>1, <1>1, <1>2 DEF Idle
<1>. QED
  BY <1>1, <1>2, <1>3, <1>4, <1>5, <1>6 DEF Building, OriginEnd

LEMMA HandleDropGood == ASSUME Good, NEW leg \in Leg, HandleDrop(leg) PROVE Good'
<1>1. /\ Shape /\ Building /\ RelaysSaid /\ Control
      /\ ClientIs
  BY GoodFacts DEF Good, Facts
<1>. DEFINE cell == Peel(leg).cell
<1>2. /\ CellArrives(forward, leg, "relay") /\ leg \in DOMAIN relays /\ forward[leg] # <<>>
      /\ IsRecognizedAt(Peel(leg), relays[leg].hop.fd) /\ cell[1] = "drop"
      /\ relays' = [relays EXCEPT ![leg].hop = Absorbed(@, cell)]
      /\ forward' = Off(forward, leg) /\ UNCHANGED <<origin, backward, held, tables, ends, ghosts>>
  BY DEF HandleDrop, ForUs, Comes, CellArrives
<1>3. PICK c : c = cell
  OBVIOUS
<1>4. ASSUME leg = Meet, Len(ServiceEnd.hops) = 1 PROVE FALSE
  <2>1. Peel(Meet).cell = Rendezvous1
    BY <1>2, <1>4, MeetSays DEF MeetHop
  <2>2. Rendezvous1[1] = "rendezvous1"
    BY DEF Rendezvous1
  <2>. QED
    BY <1>2, <1>4, <2>1, <2>2
<1>5. ASSUME NEW i \in 1..Known, leg = LegTo(i) PROVE Good'
  <2>1. IsHop(RelayHop(i)) /\ RelayHop(i).fk = FK(leg) /\ RelayHop(i).bk = BK(leg) /\ RelayHop(i) = relays[leg].hop
    BY <1>1, <1>2, <1>5, RelayIs DEF RelayHop
  <2>2. PICK h : h = Absorbed(RelayHop(i), c)
    OBVIOUS
  <2>3. HopAfter(RelayHop(i), h, RelayHop(i).fn + 1, Append(RelayHop(i).fd, c), RelayHop(i).bn, RelayHop(i).bd)
    BY <2>1, <2>2, HopSteps
  <2>4. relays' = [relays EXCEPT ![leg].hop = h]
    BY <1>2, <1>3, <2>1, <2>2
  <2>5. Steps({leg}) /\ StagesStay /\ relays'[leg].hop = h
    <3>1. IsHop(h) /\ h.fk = FK(leg) /\ h.bk = BK(leg) /\ leg \in DOMAIN relays
      BY <1>2, <2>1, <2>3 DEF HopAfter
    <3>. QED
      BY ONLY <1>1, <2>4, <3>1, StepsHop
  <2>6. RelayHop(i)' = h
    BY <1>5, <2>5 DEF RelayHop, LegTo
  <2>7. Known \in Nat /\ Known <= PathLen /\ \A j \in 1..Known : LegTo(j) \in Leg /\ j \in Int
    BY <1>1, KnownIs
  <2>8. Loses(forward, forward', leg)
    BY <1>1, <1>2, OffIs DEF Shape
  <2>9. ForwardTook(i)
    <3>1. \A j \in 1..Known : j # i => LegTo(j) # leg /\ LegTo(j) \in Leg
      BY <1>5, <2>7, LegApart
    <3>2. Meet # leg /\ Meet \in Leg
      BY <1>5, <2>7, LegApart, LegIs
    <3>. QED
      BY <1>5, <2>8, <3>1, <3>2 DEF ForwardTook, Loses
  <2>10. AllBut' /\ SaidStill /\ SameClient /\ SameService
    BY <1>2, <1>3, <1>5, <2>1, <2>3, <2>5, <2>6, <2>9, RelayMine
  <2>11. Building'
    <3>1. CircuitsStay
      BY <1>2 DEF CircuitsStay
    <3>2. TouchOnly({leg})
      BY <1>2, <2>8 DEF TouchOnly, Loses
    <3>3. Near({leg})
      <4>1. \A j \in 1..PathLen : LegTo(j) = LegTo(i) => j = i
        BY <2>7, LegApart, LegIs
      <4>2. Meet # LegTo(i)
        BY <2>7, LegApart
      <4>. QED
        BY <1>5, <2>7, <4>1, <4>2 DEF Near
    <3>. QED
      BY <1>1, <2>5, <3>1, <3>2, <3>3, BuildingStays
  <2>12. RelaysSaid'
    <3>1. /\ \A j \in 1..Known : j # i => RelayHop(j)' = RelayHop(j)
          /\ cookie = "used" => MeetHop' = MeetHop
      BY <1>5, <2>5, OthersStill
    <3>2. Known' = Known /\ cookie' = cookie
      BY <1>2, <2>10 DEF SameClient, tables
    <3>3. \A j \in 1..Known : RelayHop(j)'.bn = RelayHop(j).bn
      BY <2>3, <2>6, <3>1 DEF HopAfter
    <3>4. Known > 0 => RelayHop(Known)'.bn = RelayHop(Known).bn
      <4>1. PICK k : k = Known
        OBVIOUS
      <4>2. k > 0 => k \in 1..Known
        BY <2>7, <4>1
      <4>3. k > 0 => RelayHop(k)'.bn = RelayHop(k).bn
        BY <4>2, <3>3
      <4>4. RelayHop(Known)' = RelayHop(k)' /\ RelayHop(Known) = RelayHop(k)
        BY <4>1, <3>2 DEF RelayHop, LegTo
      <4>. QED
        BY <4>1, <4>3, <4>4
    <3>. QED
      BY <1>1, <2>5, <2>10, <3>1, <3>2, <3>4, RelaysSaidStays
  <2>. QED
    BY <2>10, <2>11, <2>12 DEF Good, AllBut
<1>. QED
  BY <1>2, <1>4, <1>5, RelayLegs

\* The last hop that the client knows is asked for the next: nothing has come of it yet.
LEMMA ExtendAsked ==
  ASSUME Good, NEW i \in 1..Known, forward[LegTo(i)] # <<>>, IsRecognizedAt(Peel(LegTo(i)), RelayHop(i).fd),
         Peel(LegTo(i)).cell[1] = "extend2", ~relays[LegTo(i)].next
  PROVE  /\ i = Known /\ Known \in 1..(PathLen - 1) /\ ClientEnd.pending = LegTo(Known + 1) /\ ClientEnd.pending # NoKey
         /\ Quiet(LegTo(Known + 1)) /\ Idle(LastRelay) /\ Peel(LegTo(i)).cell[2] = LegTo(Known + 1)
         /\ Peel(LegTo(i)).cell[3] \in LinkSpecs
<1>1. Shape /\ Building
  BY DEF Good
<1>2. Known \in Nat /\ Known <= PathLen /\ PathLen \in Nat /\ Known > 0
  BY <1>1, KnownIs
<1>3. /\ i < PathLen /\ Peel(LegTo(i)).cell[2] = LegTo(i + 1) /\ Peel(LegTo(i)).cell[3] \in LinkSpecs
      /\ (i = Known => ClientEnd.pending # NoKey)
  BY RelaySays DEF ExtendSaid
<1>4. i = Known
  <2>1. i < Known => i \in 1..(Known - 1)
    BY <1>2
  <2>2. i < Known => relays[LegTo(i)].next = TRUE
    BY <1>1, <2>1 DEF Building, Joined
  <2>. QED
    BY <1>2, <2>2
<1>5. Known \in 1..(PathLen - 1)
  BY <1>2, <1>3, <1>4
<1>6. ~LastRelay.next
  BY <1>4 DEF LastRelay
<1>7. ClientEnd.pending = LegTo(Known + 1) /\ Quiet(LegTo(Known + 1)) /\ Idle(LastRelay)
  BY <1>1, <1>3, <1>4, <1>5, <1>6 DEF Building, Extending, Waiting, Joined
<1>. QED
  BY <1>3, <1>4, <1>5, <1>7

LEMMA HandleExtendGood == ASSUME Good, NEW leg \in Leg, HandleExtend(leg) PROVE Good'
<1>1. /\ Shape /\ Building /\ RelaysSaid /\ Control
      /\ ClientIs
  BY GoodFacts DEF Good, Facts
<1>. DEFINE cell == Peel(leg).cell
<1>2. /\ CellArrives(forward, leg, "relay") /\ leg \in DOMAIN relays /\ forward[leg] # <<>>
      /\ IsRecognizedAt(Peel(leg), relays[leg].hop.fd) /\ cell[1] = "extend2" /\ ~relays[leg].next
      /\ relays' = [relays EXCEPT ![leg] = [hop |-> Absorbed(@.hop, cell), next |-> TRUE, awaiting |-> TRUE]]
      /\ UNCHANGED <<origin, backward, held, tables, ends, ghosts>>
  BY DEF HandleExtend, ForUs, Comes, CellArrives
<1>3. PICK c : c = cell
  OBVIOUS
<1>4. ASSUME leg = Meet, Len(ServiceEnd.hops) = 1 PROVE FALSE
  <2>1. Peel(Meet).cell = Rendezvous1
    BY <1>2, <1>4, MeetSays DEF MeetHop
  <2>2. Rendezvous1[1] = "rendezvous1"
    BY DEF Rendezvous1
  <2>. QED
    BY <1>2, <1>4, <2>1, <2>2
<1>5. ASSUME NEW i \in 1..Known, leg = LegTo(i) PROVE Good'
  <2>0. /\ i = Known /\ Known \in 1..(PathLen - 1) /\ ClientEnd.pending = LegTo(Known + 1) /\ ClientEnd.pending # NoKey
        /\ Quiet(LegTo(Known + 1)) /\ Idle(LastRelay) /\ c[2] = LegTo(Known + 1) /\ c[3] \in LinkSpecs
    BY <1>2, <1>3, <1>5, ExtendAsked DEF RelayHop
  <2>1. IsHop(RelayHop(i)) /\ RelayHop(i).fk = FK(leg) /\ RelayHop(i).bk = BK(leg) /\ RelayHop(i) = relays[leg].hop
    BY <1>1, <1>2, <1>5, RelayIs DEF RelayHop
  <2>2. PICK h : h = Absorbed(RelayHop(i), c)
    OBVIOUS
  <2>3. HopAfter(RelayHop(i), h, RelayHop(i).fn + 1, Append(RelayHop(i).fd, c), RelayHop(i).bn, RelayHop(i).bd)
    BY <2>1, <2>2, HopSteps
  <2>4. relays' = [relays EXCEPT ![leg] = [hop |-> h, next |-> TRUE, awaiting |-> TRUE]]
    BY <1>2, <1>3, <2>1, <2>2
  <2>5. Steps({leg}) /\ relays'[leg].hop = h /\ relays'[leg].next = TRUE /\ relays'[leg].awaiting = TRUE
    <3>1. IsHop(h) /\ h.fk = FK(leg) /\ h.bk = BK(leg) /\ leg \in DOMAIN relays
      BY <1>2, <2>1, <2>3 DEF HopAfter
    <3>. QED
      BY ONLY <1>1, <2>4, <3>1, StepsOne
  <2>6. RelayHop(i)' = h
    BY <1>5, <2>5 DEF RelayHop, LegTo
  <2>7. Known \in Nat /\ Known <= PathLen /\ PathLen \in Nat /\ \A j \in 1..Known : LegTo(j) \in Leg /\ j \in Int
    BY <1>1, KnownIs
  <2>8. PICK next : next = LegTo(Known + 1)
    OBVIOUS
  <2>9. next \in Leg /\ next # leg /\ next # Meet /\ (\A j \in 1..Known : LegTo(j) # next) /\ <<leg[1], leg[2] + 1>> = next
        /\ Meet # leg /\ Meet \in Leg /\ \A j \in 1..PathLen : j > Known + 1 => LegTo(j) \in Leg /\ LegTo(j) # next /\ LegTo(j) # leg
    <3>1. Known + 1 \in 1..PathLen
      BY <2>0, <2>7
    <3>2. \A j \in 1..Known : j # Known + 1
      BY <2>7
    <3>3. \A j \in 1..PathLen : j \in Int
      OBVIOUS
    <3>4. \A j \in 1..PathLen : j > Known + 1 => j # Known + 1 /\ j # Known
      BY <2>7
    <3>5. Known + 1 \in Int /\ Known \in Int /\ i \in Int /\ Known # Known + 1
      BY <2>7
    <3>6. <<leg[1], leg[2] + 1>> = next
      BY <1>5, <2>0, <2>8 DEF LegTo
    <3>7. next \in Leg /\ Meet \in Leg /\ \A j \in 1..PathLen : LegTo(j) \in Leg
      BY <2>8, <3>1, LegIs
    <3>8. next # leg /\ next # Meet /\ Meet # leg
      BY <1>5, <2>0, <2>8, <3>5, LegApart
    <3>9. \A j \in 1..Known : LegTo(j) # next
      BY <2>7, <2>8, <3>2, <3>5, LegApart
    <3>10. \A j \in 1..PathLen : j > Known + 1 => LegTo(j) # next /\ LegTo(j) # leg
      BY <1>5, <2>0, <2>8, <3>3, <3>4, <3>5, LegApart
    <3>. QED
      BY <3>6, <3>7, <3>8, <3>9, <3>10
  <2>10. /\ forward' = [l \in Leg |-> forward'[l]] /\ forward'[leg] = Tail(forward[leg])
         /\ \A l \in Leg : l # leg /\ l # next => forward'[l] = forward[l]
         /\ Quiet(next) /\ (forward'[next] = <<>> \/ \E to \in LinkSpecs : forward'[next] = <<CreateFor(next, to)>>)
    <3>0. Quiet(next) /\ forward[next] = <<>>
      BY <2>0, <2>8 DEF Quiet
    <3>1. CASE cell[3] = "unreachable"
      <4>1. forward' = Off(forward, leg)
        BY <1>2, <3>1 DEF HandleExtend
      <4>2. Loses(forward, forward', leg)
        BY <1>1, <4>1, OffIs DEF Shape
      <4>. QED
        BY <3>0, <4>2, <2>9 DEF Loses
    <3>2. CASE cell[3] # "unreachable"
      <4>1. forward' = On(Off(forward, leg), next, CreateFor(next, cell[3]))
        BY <1>2, <1>3, <2>0, <2>8, <2>9, <3>2 DEF HandleExtend, CreateFor
      <4>2. PICK m : m = CreateFor(next, cell[3])
        OBVIOUS
      <4>3. Moves(forward, forward', leg, next, m)
        <5>1. forward' = On(Off(forward, leg), next, m) /\ forward = [l \in Leg |-> forward[l]]
          BY <1>1, <4>1, <4>2 DEF Shape
        <5>. QED
          BY <5>1, <2>9, OffOnIs
      <4>4. Append(<<>>, m) = <<m>>
        OBVIOUS
      <4>5. forward'[next] = <<CreateFor(next, cell[3])>> /\ cell[3] \in LinkSpecs
        BY <1>3, <2>0, <3>0, <4>2, <4>3, <4>4 DEF Moves
      <4>. QED
        BY <3>0, <4>3, <4>5 DEF Moves
    <3>. QED
      BY <3>1, <3>2
  <2>11. ForwardTook(i)
    <3>1. \A j \in 1..Known : j # i => LegTo(j) # leg /\ LegTo(j) \in Leg
      BY <1>5, <2>7, LegApart
    <3>. QED
      BY <1>5, <2>9, <2>10, <3>1 DEF ForwardTook
  <2>12. AllBut' /\ SaidStill /\ SameClient /\ SameService
    BY <1>2, <1>3, <1>5, <2>1, <2>3, <2>5, <2>6, <2>11, RelayMine
  <2>13. \A l \in DOMAIN relays : l # leg => relays'[l] = relays[l]
    BY <2>5 DEF Steps
  <2>14. DOMAIN relays' = DOMAIN relays /\ backward' = backward /\ Known' = Known /\ ClientEnd' = ClientEnd
    BY <1>2, <2>5, <2>12 DEF Steps, SameClient
  <2>15. Building'
    <3>1. CircuitsStay
      BY <1>2 DEF CircuitsStay
    <3>2. \A j \in 1..(Known - 1) : relays'[LegTo(j)].next = relays[LegTo(j)].next /\ relays'[LegTo(j)].awaiting = relays[LegTo(j)].awaiting
      <4>1. \A j \in 1..(Known - 1) : j \in 1..Known /\ j # i /\ j \in Int
        BY <2>0, <2>7
      <4>2. \A j \in 1..(Known - 1) : LegTo(j) # leg /\ LegTo(j) \in DOMAIN relays
        BY <1>1, <1>5, <2>7, <4>1, LegApart, KnownIs
      <4>. QED
        BY <2>13, <4>2
    <3>3. \A j \in 1..PathLen : j > Known + 1 => Quiet(LegTo(j))'
      <4>1. \A j \in 1..PathLen : j > Known + 1 => Quiet(LegTo(j))
        BY <1>1 DEF Building
      <4>2. \A j \in 1..PathLen : j > Known + 1 => forward'[LegTo(j)] = forward[LegTo(j)]
        BY <2>9, <2>10
      <4>. QED
        BY <4>1, <4>2, <2>14 DEF Quiet, Absent, LegTo
    <3>4. forward'[Meet] = forward[Meet] /\ (Meet \in DOMAIN relays => relays'[Meet] = relays[Meet])
      BY <2>9, <2>10, <2>13
    <3>5. Extending'
      <4>1. Quiet(next)' \/ Asked(next)'
        BY <2>10, <2>14 DEF Quiet, Absent, Asked, CreateFor
      <4>2. Waiting(LastRelay)'
        BY <1>5, <2>0, <2>5, <2>14 DEF Waiting, LastRelay
      <4>3. LegTo(Known + 1)' = next
        BY <2>8, <2>14 DEF LegTo
      <4>4. ClientEnd'.pending = next /\ ClientEnd'.pending # NoKey
        BY <2>0, <2>8, <2>14
      <4>. QED
        BY <4>1, <4>2, <4>3, <4>4 DEF Extending, NoKey
    <3>6. Meet \in DOMAIN relays' <=> Meet \in DOMAIN relays
      BY <2>14
    <3>. QED
      BY <1>1, <2>0, <2>14, <3>1, <3>2, <3>3, <3>4, <3>5, <3>6, BuildingExtends
  <2>16. RelaysSaid'
    <3>1. Known # PathLen /\ cookie = "none" /\ cookie' = "none"
      BY <1>1, <1>2, <2>0, <2>7 DEF Control, tables
    <3>2. \A j \in 1..Known : SaidAt(j)' = SaidAt(j)
      <4>1. LegTo(Known + 1) \notin DOMAIN relays
        BY <2>0 DEF Quiet, Absent
      <4>2. \A j \in 1..Known : j < Known \/ (j = Known /\ ~(j < Known) /\ j < PathLen)
        BY <2>0, <2>7
      <4>. QED
        BY <2>14, <3>1, <4>1, <4>2 DEF SaidAt, BK, LegTo, Extended2, Auth
    <3>3. \A j \in 1..Known : RelayHop(j)'.bd = SaidAt(j)
      BY <1>1, <2>12 DEF RelaysSaid, SaidStill
    <3>4. RelayHop(Known)' = h /\ RelayHop(Known) = RelayHop(i)
      BY <2>0, <2>6, <2>14 DEF RelayHop, LegTo
    <3>5. Known > 0 => RelayHop(Known)'.bn + 1 = Len(RelayHop(Known)'.bd)
      BY <1>1, <2>3, <3>1, <3>4 DEF RelaysSaid, HopAfter
    <3>. QED
      BY <2>14, <3>1, <3>2, <3>3, <3>5 DEF RelaysSaid, RelayHop, LegTo
  <2>. QED
    BY <2>12, <2>15, <2>16 DEF Good, AllBut
<1>. QED
  BY <1>2, <1>4, <1>5, RelayLegs

-----------------------------------------------------------------------------
(* A cell that is not for the relay it came to. *)

\* The client has its end-to-end layer from RENDEZVOUS2 only, which the point sends
\* when it uses the cookie.
LEMMA E2EUsed ==
  ASSUME Good, ClientEnd.e2e # <<>>
  PROVE  cookie = "used" /\ Known = PathLen /\ bridged
<1>1. Shape /\ ClientHears /\ RelaysSaid /\ ClientBack /\ Control
  BY DEF Good
<1>2. ClientIs /\ BackIs
  BY GoodFacts DEF Facts
<1>3. Known = PathLen /\ PathLen \in Nat /\ PathLen >= 1 /\ Known > 0
  BY <1>1, KnownIs DEF Control
<1>4. Len(ClientLayers) = PathLen + 1
  BY <1>2, <1>3 DEF ClientIs, EndLayers, ClientLayers
<1>5. PICK G, m, w, x, y, R, Q, b :
         /\ G = ChainBack /\ m = Known /\ w = Read /\ x = held["clientReader"] /\ y = held["serviceReader"]
         /\ R = Relayed /\ Q = BackQueues /\ b = BackTurn(G, w, R, m)
  OBVIOUS
<1>6. ChainOK(G) /\ m \in Nat /\ m >= 1 /\ m <= Len(G) /\ BackLine(G, m, w, x, y, R, Q)
  BY <1>1, <1>2, <1>3, <1>5 DEF BackIs, ClientBack
<1>7. PICK top : top = b - One(x) - One(y)
  OBVIOUS
<1>8. b \in Nat /\ w \in Nat /\ BackWay(G, m, w, top, R, Q)
  BY <1>5, <1>6, <1>7, BackLineTop DEF BackLineOK
<1>9. w <= b
  <2>1. BackTurn(G, w, R, 0) = w
    BY <1>6, <1>8, BackTurns
  <2>2. 0 \in 0..m /\ m \in 0..m /\ 0 <= m
    BY <1>6
  <2>3. BackTurn(G, w, R, 0) <= BackTurn(G, w, R, m)
    BY ONLY <1>6, <1>8, <2>2, BackClimbs
  <2>. QED
    BY <1>5, <2>1, <2>3
<1>10. b = RelayHop(PathLen).bn + PathLen - 1 /\ RelayHop(PathLen).bn \in Nat
  <2>1. R[m].bn \in Nat /\ b = R[m].bn + G[m].o
    <3>1. m \in 1..m
      BY <1>6
    <3>. QED
      BY <1>5, <1>6, <1>8, <3>1, BackTurns DEF BackHop
  <2>2. R[m] = RelayHop(PathLen) /\ G[m].o = PathLen - 1
    BY <1>2, <1>3, <1>5, <1>6, RelayedIs DEF BackIs
  <2>. QED
    BY <2>1, <2>2, <1>3
<1>11. w >= PathLen + 1
  <2>1. ClientHeard(PathLen + 1)
    BY <1>1, <1>3, <1>4 DEF ClientHears
  <2>2. ClientLayers[PathLen + 1].bn + (PathLen + 1) = w
    BY <1>3, <1>5, <2>1 DEF ClientHeard, Starts, Read
  <2>3. ClientLayers[PathLen + 1].bn \in Nat
    <3>1. ChainIsFor(ClientLayers, Known)
      BY <1>3, GoodFacts DEF Facts, ClientChain
    <3>2. PathLen + 1 \in 1..Len(ClientLayers)
      BY <1>3, <1>4
    <3>. QED
      BY <3>1, <3>2 DEF ChainIsFor, IsHop
  <2>. QED
    BY <1>3, <2>2, <2>3
<1>12. cookie = "used"
  <2>1. SUFFICES ASSUME cookie # "used" PROVE FALSE
    OBVIOUS
  <2>2. RelayHop(PathLen).bn + 1 = Len(SaidAt(PathLen))
    BY <1>1, <1>3, <2>1 DEF RelaysSaid
  <2>3. SaidAt(PathLen) = <<BK(LegTo(PathLen))>> \/ SaidAt(PathLen) = <<BK(LegTo(PathLen)), Established>>
    BY <1>1, <1>3, <2>1 DEF SaidAt, Control
  <2>4. Len(SaidAt(PathLen)) <= 2 /\ Len(SaidAt(PathLen)) \in Nat
    <3>1. ASSUME NEW a, NEW d PROVE Len(<<a>>) = 1 /\ Len(<<a, d>>) = 2
      BY OneIs, TwoIs
    <3>2. CASE SaidAt(PathLen) = <<BK(LegTo(PathLen))>>
      BY <3>1, <3>2
    <3>3. CASE SaidAt(PathLen) = <<BK(LegTo(PathLen)), Established>>
      BY <3>1, <3>3
    <3>. QED
      BY <2>3, <3>2, <3>3
  <2>. QED
    <3>1. PICK z : z = RelayHop(PathLen).bn
      OBVIOUS
    <3>2. z \in Nat /\ z + 1 <= 2 /\ b = z + PathLen - 1 /\ w <= b
      BY <1>9, <1>10, <2>2, <2>4, <3>1
    <3>. QED
      BY ONLY <1>3, <1>8, <1>11, <3>2
<1>. QED
  BY <1>1, <1>3, <1>12 DEF Control

LEMMA RelayNot ==
  ASSUME Good, NEW i \in 1..Known, forward[LegTo(i)] # <<>>, ~IsRecognizedAt(Peel(LegTo(i)), RelayHop(i).fd)
  PROVE  /\ NotMine(ChainOut, Peel(LegTo(i)), i, Passed(i), RelayHop(i).fd)
         /\ ChainOut[i + 1].o <= Passed(i) /\ Passed(i) \in Nat /\ RelayHop(i).fn \in Nat /\ ChainOut[i].o \in Nat
         /\ CellOK(ChainOut, Peel(LegTo(i)), i + 1, Passed(i)) /\ Heard(ChainOut, i, RelayHop(i).fn + 1, RelayHop(i).fd)
         /\ (i = Known => ClientEnd.e2e # <<>> /\ cookie = "used" /\ bridged /\ Known = PathLen)
         /\ (i < Known => relays[LegTo(i)].next = TRUE) /\ (i = Known => relays[LegTo(i)].next = FALSE)
<1>1. Shape /\ ClientOut /\ Building
  BY DEF Good
<1>2. ClientIs /\ ClientChain
  BY GoodFacts DEF Facts
<1>3. Known \in Nat /\ Known <= PathLen /\ PathLen \in Nat /\ Known > 0
  BY <1>1, KnownIs
<1>4. TakenUp(ChainOut, Head(forward[LegTo(i)]), i, Passed(i), Peel(LegTo(i)), RelayHop(i))
  BY <1>1, TakeAt
<1>5. NotMine(ChainOut, Peel(LegTo(i)), i, Passed(i), RelayHop(i).fd)
  BY <1>4 DEF TakenUp, MineNow
<1>6. Passed(i) - ChainOut[i].o = RelayHop(i).fn
  BY <1>4 DEF TakenUp
<1>7. i = Known => ClientEnd.e2e # <<>>
  <2>1. i < Len(ChainOut) /\ Len(ChainOut) = Len(ClientLayers)
    BY <1>2, <1>3, <1>5 DEF NotMine, ClientChain, ChainIsFor, ChainOut
  <2>2. ClientEnd.e2e = <<>> => Len(ClientLayers) = Known
    BY <1>2, <1>3 DEF ClientIs, EndLayers, ClientLayers
  <2>. QED
    BY <1>3, <2>1, <2>2
<1>8. i < Known => relays[LegTo(i)].next = TRUE
  <2>1. i < Known => i \in 1..(Known - 1)
    BY <1>3
  <2>. QED
    BY <1>1, <2>1 DEF Building, Joined
<1>9. i = Known => cookie = "used" /\ bridged /\ Known = PathLen /\ relays[LegTo(i)].next = FALSE
  <2>1. i = Known => cookie = "used" /\ bridged /\ Known = PathLen
    BY <1>7, E2EUsed
  <2>. QED
    BY <1>1, <2>1 DEF Building, Idle, LastRelay
<1>. QED
  BY <1>4, <1>5, <1>6, <1>7, <1>8, <1>9 DEF NotMine, TakenUp

\* The service sends to the point, which is the end of its circuit.
LEMMA MeetEnds == Good /\ Len(ServiceEnd.hops) = 1 => Meet \in DOMAIN relays /\ relays[Meet].next = FALSE /\ relays[Meet].awaiting = FALSE
<1>1. Good => Shape /\ Building
  BY DEF Good
<1>2. Building /\ Len(ServiceEnd.hops) = 1 => relays[Meet].next = FALSE /\ relays[Meet].awaiting = FALSE
  BY DEF Building, Idle
<1>. QED
  BY <1>1, <1>2, KnownIs

LEMMA AtKnown ==
  ASSUME Known' = Known, NEW k, k = Known
  PROVE  RelayHop(Known)' = RelayHop(k)' /\ RelayHop(Known) = RelayHop(k)
BY DEF RelayHop, LegTo

LEMMA ForwardOnGood == ASSUME Good, NEW leg \in Leg, ForwardOn(leg) PROVE Good'
<1>1. /\ Shape /\ Building /\ ClientOut /\ ServiceWayOut /\ RelaysSaid /\ ClientHears /\ ClientBack
      /\ Bridged /\ ServiceBack /\ Control /\ Contents /\ Timely
  BY DEF Good
<1>2. ClientIs /\ ServiceIs /\ ClientChain /\ ServiceChain /\ BackIs /\ MeetBackIs
  BY GoodFacts DEF Facts
<1>3. /\ CellArrives(forward, leg, "relay") /\ leg \in DOMAIN relays /\ forward[leg] # <<>> /\ relays[leg].next
      /\ ~IsRecognizedAt(Peel(leg), relays[leg].hop.fd)
      /\ relays' = [relays EXCEPT ![leg].hop = Ticked(@)]
      /\ forward' = On(Off(forward, leg), <<leg[1], leg[2] + 1>>, Peel(leg))
      /\ UNCHANGED <<origin, backward, held, tables, ends, ghosts>>
  BY DEF ForwardOn, Passing, Comes, CellArrives
<1>4. ~(leg = Meet /\ Len(ServiceEnd.hops) = 1)
  BY <1>3, MeetEnds
<1>5. PICK i \in 1..Known : leg = LegTo(i)
  BY <1>3, <1>4, RelayLegs
<1>6. /\ ChainOut[i + 1].o <= Passed(i) /\ Passed(i) \in Nat /\ RelayHop(i).fn \in Nat /\ ChainOut[i].o \in Nat
      /\ CellOK(ChainOut, Peel(leg), i + 1, Passed(i)) /\ Heard(ChainOut, i, RelayHop(i).fn + 1, RelayHop(i).fd)
      /\ i # Known
  BY <1>3, <1>5, RelayNot DEF RelayHop
<1>7. /\ Known \in Nat /\ Known <= PathLen /\ i < Known /\ i + 1 \in 1..Known /\ i # PathLen /\ i + 1 # i
      /\ \A j \in 1..Known : LegTo(j) \in Leg /\ j \in Int
  BY <1>1, <1>6, KnownIs
<1>8. IsHop(RelayHop(i)) /\ RelayHop(i).fk = FK(leg) /\ RelayHop(i).bk = BK(leg) /\ RelayHop(i) = relays[leg].hop
  BY <1>1, <1>3, <1>5, RelayIs DEF RelayHop
<1>9. PICK h : h = Ticked(RelayHop(i))
  OBVIOUS
<1>10. HopAfter(RelayHop(i), h, RelayHop(i).fn + 1, RelayHop(i).fd, RelayHop(i).bn, RelayHop(i).bd)
  BY <1>8, <1>9, HopSteps
<1>11. Steps({leg}) /\ StagesStay /\ relays'[leg].hop = h
  <2>1. IsHop(h) /\ h.fk = FK(leg) /\ h.bk = BK(leg) /\ leg \in DOMAIN relays
    BY <1>3, <1>8, <1>10 DEF HopAfter
  <2>2. relays' = [relays EXCEPT ![leg].hop = h]
    BY <1>3, <1>8, <1>9
  <2>. QED
    BY ONLY <1>1, <2>1, <2>2, StepsHop
<1>12. RelayHop(i)' = h
  BY <1>5, <1>11 DEF RelayHop, LegTo
<1>13. PICK next : next = LegTo(i + 1)
  OBVIOUS
<1>14. /\ next \in Leg /\ next # leg /\ next # Meet /\ Meet # leg /\ Meet \in Leg /\ <<leg[1], leg[2] + 1>> = next
       /\ \A j \in 1..Known : j # i => LegTo(j) # leg
       /\ \A j \in 1..Known : j # i + 1 => LegTo(j) # next
  <2>1. next \in Leg /\ Meet \in Leg
    BY <1>7, <1>13, LegIs
  <2>2. next # leg /\ next # Meet /\ Meet # leg
    BY <1>5, <1>7, <1>13, LegApart
  <2>3. <<leg[1], leg[2] + 1>> = next
    BY <1>5, <1>13 DEF LegTo
  <2>4. \A j \in 1..Known : (j # i => LegTo(j) # leg) /\ (j # i + 1 => LegTo(j) # next)
    BY <1>5, <1>7, <1>13, LegApart
  <2>. QED
    BY <2>1, <2>2, <2>3, <2>4
<1>15. PICK P : P = Peel(leg)
  OBVIOUS
<1>16. Moves(forward, forward', leg, next, P)
  <2>1. forward' = On(Off(forward, leg), next, P) /\ forward = [l \in Leg |-> forward[l]]
    BY <1>1, <1>3, <1>14, <1>15 DEF Shape
  <2>. QED
    BY <2>1, <1>14, OffOnIs
<1>17. SameClient /\ SameService
  BY <1>3, SameEnds
<1>18. /\ \A j \in 1..Known : j # i => RelayHop(j)' = RelayHop(j)
       /\ Meet \in DOMAIN relays => MeetHop' = MeetHop
       /\ Len(ServiceEnd.hops) > 0 => MeetHop' = MeetHop
       /\ cookie = "used" => MeetHop' = MeetHop
       /\ Meet \in DOMAIN relays' => Meet \in DOMAIN relays
       /\ (ClientEnd.e2e # <<>> \/ cookie # "none") => Known = PathLen /\ PathLen \in 1..Known
  BY <1>5, <1>11, OthersStill
<1>19. /\ RelayHop(i)'.fn = RelayHop(i).fn + 1 /\ RelayHop(i)'.fd = RelayHop(i).fd
       /\ RelayHop(i)'.bn = RelayHop(i).bn /\ RelayHop(i)'.bd = RelayHop(i).bd
  BY <1>10, <1>12 DEF HopAfter
<1>20. Shape'
  <2>1. Tables'
    BY <1>1, <1>3, <1>16 DEF Shape, Tables, Moves
  <2>. QED
    BY <1>1, <1>3, <1>11, <2>1, ShapeStays
<1>21. Building'
  <2>1. CircuitsStay
    BY <1>3 DEF CircuitsStay
  <2>2. PICK Z : Z = {leg, next}
    OBVIOUS
  <2>3. TouchOnly(Z)
    BY <1>3, <1>16, <2>2 DEF TouchOnly, Moves
  <2>4. Near(Z)
    <3>1. \A j \in 1..PathLen : (LegTo(j) = leg => j = i) /\ (LegTo(j) = next => j = i + 1)
      BY <1>5, <1>7, <1>13, LegApart, LegIs
    <3>. QED
      BY <1>7, <1>14, <2>2, <3>1 DEF Near
  <2>5. Steps(Z)
    BY <1>11, <2>2 DEF Steps
  <2>. QED
    BY <1>1, <1>11, <2>1, <2>3, <2>4, <2>5, BuildingStays
<1>22. ClientOut'
  <2>1. \A j \in 1..Known : j # i => RelayHop(j)'.fn = RelayHop(j).fn /\ RelayHop(j)'.fd = RelayHop(j).fd
    BY <1>18
  <2>2. forward'[LegTo(i)] = Tail(forward[LegTo(i)]) /\ forward'[LegTo(i + 1)] = Append(forward[LegTo(i + 1)], P)
    BY <1>5, <1>13, <1>16 DEF Moves
  <2>3. \A j \in 1..Known : j # i /\ j # i + 1 => forward'[LegTo(j)] = forward[LegTo(j)]
    BY <1>7, <1>14, <1>16 DEF Moves
  <2>4. TakesAt(i)
    BY <1>6, <1>15, <1>19, <2>1, <2>2, <2>3 DEF TakesAt
  <2>5. held'["fetch"] = held["fetch"] /\ held'["pump"] = held["pump"] /\ forward[LegTo(i)] # <<>>
    BY <1>3, <1>5
  <2>. QED
    BY <1>1, <1>17, <2>4, <2>5, ClientOutTakes
<1>23. ServiceWayOut'
  <2>1. MeetOutStill
    BY <1>14, <1>16, <1>18 DEF MeetOutStill, Moves
  <2>. QED
    BY <1>1, <1>2, <1>17, <2>1, ServiceWayOutStays
<1>24. SaidStill /\ BackHopsStill
  BY <1>3, <1>18, <1>19 DEF SaidStill, BackHopsStill
<1>25. RelaysSaid'
  <2>1. Known' = Known /\ cookie' = cookie
    BY <1>3, <1>17 DEF SameClient, tables
  <2>2. Known > 0 => RelayHop(Known)'.bn = RelayHop(Known).bn
    <3>1. PICK k : k = Known
      OBVIOUS
    <3>2. RelayHop(k)' = RelayHop(k)
      BY <1>6, <1>7, <1>18, <3>1
    <3>. QED
      BY <2>1, <3>1, <3>2, AtKnown
  <2>. QED
    BY <1>1, <1>2, <1>11, <1>18, <1>24, <2>1, <2>2, RelaysSaidStays
<1>26. ChainBack' = ChainBack
  BY <1>17, <1>24, ChainBackStays DEF SameClient, SameService
<1>27. ClientHears'
  BY <1>1, <1>17, <1>26, ClientHearsStays DEF SameClient
<1>28. ClientBack'
  <2>1. Known' = Known /\ Read' = Read
    BY <1>17 DEF SameClient
  <2>2. held'["clientReader"] = held["clientReader"] /\ held'["serviceReader"] = held["serviceReader"]
    BY <1>3
  <2>. QED
    BY <1>1, <1>2, <1>24, <1>26, <2>1, <2>2, ClientBackStays
<1>29. Bridged'
  <2>1. ClientEnd.e2e # <<>> => RelayHop(PathLen)'.fn = RelayHop(PathLen).fn
    BY <1>7, <1>18
  <2>. QED
    BY <1>1, <1>17, <1>18, <2>1, BridgedStays
<1>30. ServiceBack'
  <2>1. MeetBackStill
    BY <1>3, <1>18 DEF MeetBackStill
  <2>2. MeetBack' = MeetBack /\ Len(ServiceEnd.hops)' = Len(ServiceEnd.hops) /\ ServiceLayers' = ServiceLayers
    BY <1>17 DEF SameClient, SameService
  <2>3. Len(ServiceEnd.hops) > 0 => ServiceLayers'[1].bn = ServiceLayers[1].bn
    BY <2>2
  <2>. QED
    BY <1>1, <1>2, <2>1, <2>2, <2>3, ServiceBackStays
<1>31. Control'
  <2>1. cookie # "none" => PointEstablished'
    <3>1. SUFFICES ASSUME cookie # "none" PROVE PointEstablished'
      OBVIOUS
    <3>2. PointEstablished /\ PathLen \in 1..Known
      BY <1>1, <1>18, <3>1 DEF Control, PointEstablished
    <3>3. RelayHop(PathLen)'.fd = RelayHop(PathLen).fd
      BY <1>7, <1>18, <3>2
    <3>4. IsSeq(RelayHop(PathLen).fd)
      BY <1>1, <3>2, RelayIs, KnownIs DEF RelayHop, IsHop
    <3>. QED
      BY <3>2, <3>3, <3>4, EstablishedStays
  <2>2. cookie = "used" => MeetHop'.fn > 0
    BY <1>1, <1>18 DEF Control
  <2>3. UNCHANGED <<tables, ends0>>
    BY <1>3 DEF ends, ends0
  <2>. QED
    BY <1>1, <1>17, <2>1, <2>2, <2>3, ControlStays
<1>32. Contents' /\ Timely'
  <2>1. UNCHANGED ends0 /\ UNCHANGED ghosts
    BY <1>3 DEF ends, ends0
  <2>. QED
    BY <1>1, <1>17, <2>1, ContentsStays, TimelyStays DEF SameClient, SameService
<1>. QED
  BY <1>20, <1>21, <1>22, <1>23, <1>25, <1>27, <1>28, <1>29, <1>30, <1>31, <1>32 DEF Good

\* What the point has not recognised on the service's leg is from end to end, and by
\* then the legs are bridged.
LEMMA MeetNot ==
  ASSUME Good, Len(ServiceEnd.hops) = 1, forward[Meet] # <<>>, ~IsRecognizedAt(Peel(Meet), MeetHop.fd)
  PROVE  /\ CellOK(ServiceOut, Peel(Meet), 2, MeetHop.fn) /\ Heard(ServiceOut, 1, MeetHop.fn + 1, MeetHop.fd)
         /\ MeetHop.fn \in Nat /\ ServiceOut[2].o = 1 /\ 1 <= MeetHop.fn /\ Len(ServiceOut) = 2
         /\ ServiceEnd.e2e # <<>> /\ cookie = "used" /\ bridged /\ Known = PathLen
<1>1. Shape /\ ServiceWayOut /\ Control /\ Contents
  BY DEF Good
<1>2. ServiceIs /\ ServiceChain
  BY GoodFacts DEF Facts
<1>3. /\ TakenUp(ServiceOut, Head(forward[Meet]), 1, MeetHop.fn, Peel(Meet), MeetHop)
      /\ MeetHop.fn < ServiceLayers[1].fn /\ ServiceLayers[1].fn \in Nat /\ ServiceOut[1].o = 0
  BY <1>1, TakeMeet
<1>4. /\ CellOK(ServiceOut, Peel(Meet), 2, MeetHop.fn) /\ Heard(ServiceOut, 1, MeetHop.fn + 1, MeetHop.fd)
      /\ 1 < Len(ServiceOut) /\ ServiceOut[2].o <= MeetHop.fn /\ MeetHop.fn \in Nat
  BY <1>3 DEF TakenUp, NotMine, MineNow
<1>5. ChainIsFor(ServiceLayers, 1) /\ LayersOK(ServiceLayers)
  BY <1>2 DEF ServiceChain, ChainIsFor
<1>6. Len(ServiceLayers) = Len(ServiceOut) /\ Len(ServiceLayers) = 1 + Len(ServiceEnd.e2e) /\ Len(ServiceEnd.e2e) \in 0..1
  BY <1>2, <1>5 DEF ChainIsFor, ServiceOut, ServiceIs, EndLayers, ServiceLayers
<1>7. ServiceEnd.e2e # <<>> /\ Len(ServiceOut) = 2
  <2>1. PICK n : n = Len(ServiceEnd.e2e)
    OBVIOUS
  <2>2. n \in 0..1 /\ 1 < 1 + n /\ Len(ServiceOut) = 1 + n
    BY <1>4, <1>6, <2>1
  <2>3. n = 1
    BY ONLY <2>2
  <2>4. ServiceEnd.e2e # <<>>
    BY <1>2, <2>1, <2>3 DEF ServiceIs, EndLayers
  <2>. QED
    BY <2>2, <2>3, <2>4
<1>8. ServiceLayers[2] = ServiceEnd.e2e[1] /\ ServiceLayers[1] = ServiceEnd.hops[1]
  BY <1>2, <1>7 DEF ServiceIs, EndLayers, ServiceLayers
<1>9. /\ ServiceOut[2].o = ServiceLayers[1].fn - ServiceLayers[2].fn /\ ServiceLayers[2].fn \in Nat
      /\ Len(ServiceLayers[1].fd) = ServiceLayers[1].fn - ServiceLayers[2].fn + 1
  <2>1. PICK ls : ls = ServiceLayers
    OBVIOUS
  <2>2. Len(ls) = 2 /\ ChainIsFor(ls, 1) /\ LayersOK(ls) /\ ServiceOut = Chain(ls)
    BY <1>5, <1>6, <1>7, <2>1 DEF ServiceOut
  <2>3. 1 \in 1..Len(ls) /\ 2 \in 1..Len(ls) /\ 1 < Len(ls)
    BY <2>2
  <2>4. Chain(ls)[2].o = ls[1].fn - ls[2].fn
    BY ONLY <2>2, <2>3 DEF ChainIsFor
  <2>5. ls[2].fn \in Nat
    BY ONLY <2>2, <2>3, LayersNat
  <2>6. Len(ls[1].fd) = (IF 1 < Len(ls) THEN ls[1].fn - ls[1 + 1].fn ELSE ls[1].fn) + 1
    BY ONLY <2>2, <2>3 DEF LayersOK
  <2>. QED
    BY <2>1, <2>2, <2>3, <2>4, <2>5, <2>6
<1>10. Len(ServiceLayers[1].fd) = 2
  <2>1. rendezvousing = "installed"
    BY <1>1, <1>7 DEF Control
  <2>2. ServiceEnd.hops[1].fd = <<FK(Meet), Rendezvous1>>
    BY <1>1, <2>1 DEF Contents
  <2>. QED
    BY <1>8, <2>2, TwoIs
<1>11. ServiceOut[2].o = 1 /\ ServiceLayers[2].fn > 0
  <2>1. PICK a, b, o, f : a = ServiceLayers[1].fn /\ b = ServiceLayers[2].fn /\ o = ServiceOut[2].o /\ f = MeetHop.fn
    OBVIOUS
  <2>2. a \in Nat /\ b \in Nat /\ f \in Nat /\ o = a - b /\ a - b + 1 = 2 /\ f < a /\ o <= f
    BY <1>3, <1>4, <1>9, <1>10, <2>1
  <2>3. o = 1 /\ b > 0
    BY ONLY <2>2
  <2>. QED
    BY <2>1, <2>3
<1>12. cookie = "used" /\ bridged /\ Known = PathLen
  BY <1>1, <1>7, <1>8, <1>11 DEF Control
<1>. QED
  BY <1>4, <1>7, <1>11, <1>12

\* No cell comes to a relay that can neither use it nor pass it on.
LEMMA UndeliverableGood == ASSUME Good, NEW leg \in Leg, Undeliverable(leg) PROVE Good'
<1>1. /\ CellArrives(forward, leg, "relay") /\ leg \in DOMAIN relays /\ forward[leg] # <<>> /\ ~relays[leg].next
      /\ ~IsRecognizedAt(Peel(leg), relays[leg].hop.fd) /\ (leg \in {Point, Meet} => ~bridged)
  BY DEF Undeliverable, Passing, Comes, CellArrives
<1>2. ASSUME leg = Meet, Len(ServiceEnd.hops) = 1 PROVE FALSE
  BY <1>1, <1>2, MeetNot DEF MeetHop
<1>3. ASSUME NEW i \in 1..Known, leg = LegTo(i) PROVE FALSE
  <2>1. /\ i = Known => bridged /\ Known = PathLen
        /\ i < Known => relays[LegTo(i)].next = TRUE
    BY <1>1, <1>3, RelayNot DEF RelayHop
  <2>2. Known \in Nat
    BY KnownIs DEF Good
  <2>3. i = Known /\ leg = Point
    BY <1>1, <1>3, <2>1, <2>2 DEF Point, LegTo
  <2>. QED
    BY <1>1, <2>1, <2>3
<1>. QED
  BY <1>1, <1>2, <1>3, RelayLegs

-----------------------------------------------------------------------------
(* Towards the origin. *)

\* Relay i of the client's circuit passes on what comes from the next.
LEMMA BackwardAt ==
  ASSUME Good, NEW leg \in Leg, leg \in DOMAIN relays, NEW next, next = <<leg[1], leg[2] + 1>>, next \in Leg,
         CellArrives(backward, next, "relay")
  PROVE  \E i \in 1..Known : leg = LegTo(i) /\ next = LegTo(i + 1) /\ i + 1 \in 1..Known
<1>1. Shape /\ Places
  BY GoodFacts DEF Good, Facts
<1>2. PathLen \in Nat /\ Known \in Nat
  BY <1>1, KnownIs
<1>3. leg # Meet
  <2>1. leg = Meet => next = <<"service", 2>>
    BY DEF Meet
  <2>2. <<"service", 2>> \notin Leg
    BY DEF Leg, OriginEnd, Hops
  <2>. QED
    BY <2>1, <2>2
<1>4. PICK i \in 1..PathLen : leg = LegTo(i)
  BY <1>3, LegIs
<1>5. next = LegTo(i + 1)
  BY <1>4 DEF LegTo
<1>6. next # Meet
  BY <1>2, <1>5, LegApart
<1>7. PICK j \in 1..PathLen : next = LegTo(j)
  BY <1>6, LegIs
<1>8. j = i + 1
  BY <1>2, <1>5, <1>7, LegApart
<1>9. j \in 1..Known
  BY <1>1, <1>7 DEF Places
<1>. QED
  BY <1>2, <1>4, <1>5, <1>8, <1>9

LEMMA BackwardOnGood == ASSUME Good, NEW leg \in Leg, BackwardOn(leg) PROVE Good'
<1>1. /\ Shape /\ Building /\ ClientOut /\ ServiceWayOut /\ RelaysSaid /\ ClientHears /\ ClientBack
      /\ Bridged /\ ServiceBack /\ Control /\ Contents /\ Timely
  BY DEF Good
<1>2. ClientIs /\ ServiceIs /\ ClientChain /\ ServiceChain /\ BackIs /\ MeetBackIs
  BY GoodFacts DEF Facts
<1>3. PICK next : next = <<leg[1], leg[2] + 1>>
  OBVIOUS
<1>4. /\ CellArrives(backward, next, "relay") /\ leg \in DOMAIN relays /\ next \in Leg /\ backward[next] # <<>>
      /\ relays' = [relays EXCEPT ![leg].hop.bn = @ + 1]
      /\ backward' = On(Off(backward, next), leg, Wrapped(relays[leg].hop, Head(backward[next])))
      /\ UNCHANGED <<origin, forward, held, tables, ends, ghosts>>
  BY <1>3 DEF BackwardOn, CellArrives
<1>5. PICK i \in 1..Known : leg = LegTo(i) /\ next = LegTo(i + 1) /\ i + 1 \in 1..Known
  BY <1>3, <1>4, BackwardAt
<1>6. /\ Known \in Nat /\ Known <= PathLen /\ i < Known /\ i # Known /\ i + 1 # i /\ i \in Nat /\ i # PathLen
      /\ \A j \in 1..Known : LegTo(j) \in Leg /\ j \in Int
  BY <1>1, <1>5, KnownIs
<1>7. IsHop(RelayHop(i)) /\ RelayHop(i).fk = FK(leg) /\ RelayHop(i).bk = BK(leg) /\ RelayHop(i) = relays[leg].hop
  BY <1>1, <1>4, <1>5, RelayIs DEF RelayHop
<1>8. PICK h : h = BackTicked(RelayHop(i))
  OBVIOUS
<1>9. HopAfter(RelayHop(i), h, RelayHop(i).fn, RelayHop(i).fd, RelayHop(i).bn + 1, RelayHop(i).bd)
  BY <1>7, <1>8, HopSteps
<1>10. Steps({leg}) /\ StagesStay /\ relays'[leg].hop = h
  <2>1. IsHop(h) /\ h.fk = FK(leg) /\ h.bk = BK(leg) /\ leg \in DOMAIN relays
    BY <1>4, <1>7, <1>9 DEF HopAfter
  <2>2. relays' = [relays EXCEPT ![leg].hop = h]
    BY <1>4, <1>7, <1>8 DEF BackTicked
  <2>. QED
    BY ONLY <1>1, <2>1, <2>2, StepsHop
<1>11. RelayHop(i)' = h
  BY <1>5, <1>10 DEF RelayHop, LegTo
<1>12. /\ next # leg /\ next # Meet /\ Meet # leg /\ Meet \in Leg
       /\ \A j \in 1..Known : j # i => LegTo(j) # leg
       /\ \A j \in 1..Known : j # i + 1 => LegTo(j) # next
  <2>1. Meet \in Leg
    BY LegIs
  <2>2. next # leg /\ next # Meet /\ Meet # leg
    BY <1>5, <1>6, LegApart
  <2>3. \A j \in 1..Known : (j # i => LegTo(j) # leg) /\ (j # i + 1 => LegTo(j) # next)
    BY <1>5, <1>6, LegApart
  <2>. QED
    BY <2>1, <2>2, <2>3
<1>13. PICK P : P = Wrapped(relays[leg].hop, Head(backward[next]))
  OBVIOUS
<1>14. Moves(backward, backward', next, leg, P)
  <2>1. backward' = On(Off(backward, next), leg, P) /\ backward = [l \in Leg |-> backward[l]]
    BY <1>1, <1>4, <1>13 DEF Shape
  <2>. QED
    BY <2>1, <1>4, <1>12, OffOnIs
<1>15. SameClient /\ SameService
  BY <1>4, SameEnds
<1>16. /\ \A j \in 1..Known : j # i => RelayHop(j)' = RelayHop(j)
       /\ Meet \in DOMAIN relays => MeetHop' = MeetHop
       /\ Len(ServiceEnd.hops) > 0 => MeetHop' = MeetHop
       /\ cookie = "used" => MeetHop' = MeetHop
       /\ Meet \in DOMAIN relays' => Meet \in DOMAIN relays
       /\ (ClientEnd.e2e # <<>> \/ cookie # "none") => Known = PathLen /\ PathLen \in 1..Known
  BY <1>5, <1>10, OthersStill
<1>17. /\ RelayHop(i)'.fn = RelayHop(i).fn /\ RelayHop(i)'.fd = RelayHop(i).fd
       /\ RelayHop(i)'.bn = RelayHop(i).bn + 1 /\ RelayHop(i)'.bd = RelayHop(i).bd
  BY <1>9, <1>11 DEF HopAfter
<1>18. OutHopsStill /\ SaidStill
  BY <1>4, <1>16, <1>17 DEF OutHopsStill, SaidStill
<1>19. Shape'
  <2>1. Tables'
    BY <1>1, <1>4, <1>14 DEF Shape, Tables, Moves
  <2>. QED
    BY <1>1, <1>4, <1>10, <2>1, ShapeStays
<1>20. Building'
  <2>1. CircuitsStay
    BY <1>4 DEF CircuitsStay
  <2>2. PICK Z : Z = {leg, next}
    OBVIOUS
  <2>3. TouchOnly(Z)
    BY <1>4, <1>14, <2>2 DEF TouchOnly, Moves
  <2>4. Near(Z)
    <3>1. \A j \in 1..PathLen : (LegTo(j) = leg => j = i) /\ (LegTo(j) = next => j = i + 1)
      BY <1>5, <1>6, LegApart, LegIs
    <3>. QED
      BY <1>5, <1>6, <1>12, <2>2, <3>1 DEF Near
  <2>5. Steps(Z)
    BY <1>10, <2>2 DEF Steps
  <2>. QED
    BY <1>1, <1>10, <2>1, <2>3, <2>4, <2>5, BuildingStays
<1>21. ClientOut'
  <2>1. held'["fetch"] = held["fetch"] /\ held'["pump"] = held["pump"]
    BY <1>4
  <2>. QED
    BY <1>1, <1>2, <1>15, <1>18, <2>1, ClientOutStays
<1>22. ServiceWayOut'
  <2>1. MeetOutStill
    BY <1>4, <1>16 DEF MeetOutStill
  <2>. QED
    BY <1>1, <1>2, <1>15, <2>1, ServiceWayOutStays
<1>23. RelaysSaid'
  <2>1. Known' = Known /\ cookie' = cookie
    BY <1>4, <1>15 DEF SameClient, tables
  <2>2. Known > 0 => RelayHop(Known)'.bn = RelayHop(Known).bn
    <3>1. PICK k : k = Known
      OBVIOUS
    <3>2. RelayHop(k)' = RelayHop(k)
      BY <1>5, <1>6, <1>16, <3>1
    <3>. QED
      BY <2>1, <3>1, <3>2, AtKnown
  <2>. QED
    BY <1>1, <1>2, <1>10, <1>16, <1>18, <2>1, <2>2, RelaysSaidStays
<1>24. ChainBack' = ChainBack
  BY <1>15, <1>18, ChainBackStays DEF SameClient, SameService
<1>25. ClientHears'
  BY <1>1, <1>15, <1>24, ClientHearsStays DEF SameClient
<1>26. ClientBack'
  <2>1. PICK G, m, w, x, y, R, Q, R2, Q2 :
          /\ G = ChainBack /\ m = Known /\ w = Read /\ x = held["clientReader"] /\ y = held["serviceReader"]
          /\ R = Relayed /\ Q = BackQueues /\ R2 = Relayed' /\ Q2 = BackQueues'
    OBVIOUS
  <2>2. ChainOK(G) /\ m \in Nat /\ m >= 1 /\ m <= Len(G) /\ BackLine(G, m, w, x, y, R, Q) /\ i \in 1..m /\ i < m
    BY <1>1, <1>2, <1>6, <2>1 DEF BackIs, ClientBack
  <2>3. Known' = Known
    BY <1>15 DEF SameClient
  <2>4. /\ \A j \in 1..m : /\ R[j] = RelayHop(j) /\ Q[j] = backward[LegTo(j)]
                           /\ R2[j] = RelayHop(j)' /\ Q2[j] = backward'[LegTo(j)]
    BY <2>1, <2>3, RelayedIs
  <2>5. /\ Q[i + 1] = backward[next] /\ Q2[i + 1] = Tail(Q[i + 1]) /\ Q2[i] = Append(Q[i], P)
        /\ \A j \in 1..m : j # i /\ j # i + 1 => Q2[j] = Q[j]
    <3>1. \A j \in 1..Known : j # i /\ j # i + 1 => backward'[LegTo(j)] = backward[LegTo(j)]
      BY <1>6, <1>12, <1>14 DEF Moves
    <3>. QED
      BY <1>5, <1>14, <2>1, <2>4, <3>1 DEF Moves
  <2>6. \A j \in 1..m : R2[j].bn = IF j = i THEN R[j].bn + 1 ELSE R[j].bn
    BY <1>16, <1>17, <2>1, <2>4
  <2>7. Q[i + 1] # <<>> /\ i + 1 \in 1..m
    BY <1>4, <1>5, <2>1, <2>5
  <2>8. PICK T : T = BackTurn(G, w, R, i)
    OBVIOUS
  <2>9. CellOK(G, Head(Q[i + 1]), i + 1, T)
    <3>1. (i + 1) - 1 = i
      BY <1>6
    <3>2. PICK j \in 1..m : j = i + 1
      BY <2>7
    <3>3. CellOK(G, Head(Q[j]), j, BackTurn(G, w, R, j - 1))
      BY ONLY <2>2, <2>7, <3>2, BackKind
    <3>. QED
      BY <2>8, <3>1, <3>2, <3>3
  <2>10. P = Crypt(Head(Q[i + 1]), Coat(G, i, T))
    <3>1. T - G[i].o = RelayHop(i).bn
      <4>1. T = R[i].bn + G[i].o
        BY <1>6, <2>2, <2>8 DEF BackTurn
      <4>2. R[i].bn = RelayHop(i).bn /\ RelayHop(i).bn \in Nat /\ G[i].o \in Nat
        BY <1>7, <2>2, <2>4 DEF IsHop, ChainOK
      <4>. QED
        BY <4>1, <4>2
    <3>2. G[i].k = RelayHop(i).bk
      BY <1>2, <1>5, <1>7, <2>1 DEF BackIs
    <3>. QED
      BY <1>7, <1>13, <2>5, <3>1, <3>2 DEF Wrapped, Coat
  <2>11. CellOK(G, P, i, T)
    <3>1. i \in 1..Len(G)
      BY <2>2, <1>2, <2>1, <1>6 DEF BackIs
    <3>2. PICK c : c = Head(Q[i + 1])
      OBVIOUS
    <3>3. CellOK(G, c, i + 1, T) /\ P = Crypt(c, Coat(G, i, T))
      BY <2>9, <2>10, <3>2
    <3>. QED
      BY ONLY <2>2, <3>1, <3>3, WrapOK
  <2>12. BackLine(G, m, w, x, y, R2, Q2)
    <3>1. CellOK(G, P, i, BackTurn(G, w, R, i))
      BY <2>8, <2>11
    <3>. QED
      BY ONLY <2>2, <2>5, <2>6, <2>7, <3>1, BackLinePass
  <2>13. ChainBack' = G /\ Known' = m /\ Read' = w /\ held' = held /\ Known' > 0
    BY <1>4, <1>6, <1>15, <1>24, <2>1 DEF SameClient
  <2>14. Known' < PathLen => Free("clientReader")' /\ Free("serviceReader")'
    BY <1>1, <1>4, <2>3 DEF ClientBack, Free
  <2>. QED
    BY <2>1, <2>12, <2>13, <2>14 DEF ClientBack
<1>27. Bridged'
  <2>1. ClientEnd.e2e # <<>> => RelayHop(PathLen)'.fn = RelayHop(PathLen).fn
    BY <1>6, <1>16
  <2>. QED
    BY <1>1, <1>15, <1>16, <2>1, BridgedStays
<1>28. ServiceBack'
  <2>1. MeetBackStill
    BY <1>12, <1>14, <1>16 DEF MeetBackStill, Moves
  <2>2. MeetBack' = MeetBack /\ Len(ServiceEnd.hops)' = Len(ServiceEnd.hops) /\ ServiceLayers' = ServiceLayers
    BY <1>15 DEF SameClient, SameService
  <2>3. Len(ServiceEnd.hops) > 0 => ServiceLayers'[1].bn = ServiceLayers[1].bn
    BY <2>2
  <2>. QED
    BY <1>1, <1>2, <2>1, <2>2, <2>3, ServiceBackStays
<1>29. Control'
  <2>1. cookie # "none" => PointEstablished'
    <3>1. SUFFICES ASSUME cookie # "none" PROVE PointEstablished'
      OBVIOUS
    <3>2. PointEstablished /\ PathLen \in 1..Known
      BY <1>1, <1>16, <3>1 DEF Control, PointEstablished
    <3>3. RelayHop(PathLen)'.fd = RelayHop(PathLen).fd
      BY <1>6, <1>16, <3>2
    <3>4. IsSeq(RelayHop(PathLen).fd)
      BY <1>1, <3>2, RelayIs, KnownIs DEF RelayHop, IsHop
    <3>. QED
      BY <3>2, <3>3, <3>4, EstablishedStays
  <2>2. cookie = "used" => MeetHop'.fn > 0
    BY <1>1, <1>16 DEF Control
  <2>3. UNCHANGED <<tables, ends0>>
    BY <1>4 DEF ends, ends0
  <2>. QED
    BY <1>1, <1>15, <2>1, <2>2, <2>3, ControlStays
<1>30. Contents' /\ Timely'
  <2>1. UNCHANGED ends0 /\ UNCHANGED ghosts
    BY <1>4 DEF ends, ends0
  <2>. QED
    BY <1>1, <1>15, <2>1, ContentsStays, TimelyStays DEF SameClient, SameService
<1>. QED
  BY <1>19, <1>20, <1>21, <1>22, <1>23, <1>25, <1>26, <1>27, <1>28, <1>29, <1>30 DEF Good

-----------------------------------------------------------------------------
(* Steps that leave the circuits and the relays as they are. *)

LEMMA RelaysRest ==
  ASSUME Good, UNCHANGED <<origin, relays, tables, ends0, ghosts>>, Tables'
  PROVE  /\ Shape' /\ RelaysSaid' /\ ClientHears' /\ Bridged' /\ Control' /\ Contents' /\ Timely'
         /\ SameClient /\ SameService /\ Steps({}) /\ StagesStay /\ CircuitsStay /\ ChainBack' = ChainBack
         /\ \A i \in 1..Known : RelayHop(i)' = RelayHop(i)
<1>1. /\ Shape /\ RelaysSaid /\ ClientHears /\ Bridged /\ Control /\ Contents /\ Timely
  BY DEF Good
<1>2. ClientIs
  BY GoodFacts DEF Facts
<1>3. SameClient /\ SameService
  BY SameEnds
<1>4. Known' = Known /\ ServiceEnd' = ServiceEnd /\ cookie' = cookie
  BY <1>3 DEF SameClient, SameService, tables
<1>5. Steps({}) /\ StagesStay /\ CircuitsStay
  <2>1. \A l \in DOMAIN relays : RelayOK(l)'
    BY <1>1 DEF Shape, RelayOK
  <2>. QED
    BY <1>1, <2>1 DEF Shape, Steps, StagesStay, CircuitsStay
<1>6. \A i \in 1..Known : RelayHop(i)' = RelayHop(i)
  BY DEF RelayHop, LegTo
<1>7. MeetHop' = MeetHop
  BY DEF MeetHop, Meet
<1>8. RelayHop(Known)' = RelayHop(Known)
  BY <1>4 DEF RelayHop, LegTo
<1>9. RelayHop(PathLen)' = RelayHop(PathLen)
  BY DEF RelayHop, LegTo
<1>10. SaidStill
  BY <1>6 DEF SaidStill
<1>11. Shape'
  BY <1>1, <1>5, ShapeStays
<1>12. RelaysSaid'
  BY <1>1, <1>2, <1>4, <1>5, <1>7, <1>8, <1>10, RelaysSaidStays
<1>13. ChainBack' = ChainBack
  BY <1>4, <1>10, ChainBackStays
<1>14. ClientHears'
  BY <1>1, <1>3, <1>13, ClientHearsStays DEF SameClient
<1>15. Bridged'
  BY <1>1, <1>3, <1>7, <1>9, BridgedStays
<1>16. Control'
  <2>1. cookie # "none" => PointEstablished'
    BY <1>1, <1>9 DEF Control, PointEstablished
  <2>2. cookie = "used" => MeetHop'.fn > 0
    BY <1>1, <1>7 DEF Control
  <2>. QED
    BY <1>1, <1>3, <2>1, <2>2, ControlStays
<1>17. Contents' /\ Timely'
  BY <1>1, <1>3, ContentsStays, TimelyStays DEF SameClient, SameService
<1>. QED
  BY <1>3, <1>5, <1>6, <1>11, <1>12, <1>13, <1>14, <1>15, <1>16, <1>17

\* What queuing does, when no task queues before one that encrypted earlier.
LEMMA QueuedParts ==
  ASSUME Shape, NEW t \in OnionTask, Queued(t), "overtaken" \notin excuses'
  PROVE  /\ held[t] # <<>> /\ UNCHANGED <<origin, relays, tables, ends0, ghosts>>
         /\ held' = [u \in OnionTask |-> held'[u]]
         /\ held'[t] = <<>> /\ \A u \in OnionTask : u # t => held'[u] = held[u]
         /\ \A u \in OnionTask : u # t /\ (t \in FromClient) = (u \in FromClient) /\ held[u] # <<>> =>
              ~(held[u][1].turn < held[t][1].turn)
         /\ t \in FromClient => forward' = On(forward, Client, held[t][1].cell) /\ backward' = backward
         /\ t \notin FromClient => backward' = On(backward, Point, held[t][1].cell) /\ forward' = forward
<1>1. held = [u \in OnionTask |-> held[u]]
  BY DEF Shape
<1>2. held' = [held EXCEPT ![t] = <<>>]
  BY DEF Queued
<1>3. held' = [u \in OnionTask |-> held'[u]] /\ held'[t] = <<>> /\ \A u \in OnionTask : u # t => held'[u] = held[u]
  BY <1>1, <1>2
<1>4. held[t] # <<>> /\ UNCHANGED <<origin, relays, tables, ends0, lost>>
  BY DEF Queued, Free, ends, ends0
<1>. DEFINE Over == \E u \in OnionTask \ {t} : /\ ~Free(u) /\ (t \in FromClient) = (u \in FromClient)
                                               /\ held[u][1].turn < held[t][1].turn
<1>5. excuses' = IF Over THEN excuses \union {"overtaken"} ELSE excuses
  BY DEF Queued
<1>6. ~Over /\ excuses' = excuses
  <2>. HIDE DEF Over
  <2>. QED
    BY <1>5
<1>7. \A u \in OnionTask : u # t /\ (t \in FromClient) = (u \in FromClient) /\ held[u] # <<>> =>
        ~(held[u][1].turn < held[t][1].turn)
  BY <1>6 DEF Free
<1>8. /\ t \in FromClient => forward' = On(forward, Client, held[t][1].cell) /\ backward' = backward
      /\ t \notin FromClient => backward' = On(backward, Point, held[t][1].cell) /\ forward' = forward
  BY DEF Queued
<1>. QED
  BY <1>3, <1>4, <1>6, <1>7, <1>8 DEF ghosts

\* The line with one task's cell queued, whichever of the two it was.
LEMMA OneQueued ==
  ASSUME NEW G, NEW m \in Nat, m >= 1, NEW N \in Nat, NEW x, NEW y, NEW R, NEW Q, NEW Q2,
         ChainOK(G), m <= Len(G), G[1].o = 0, OutLine(G, m, N, x, y, R, Q),
         x # <<>>, ~(y # <<>> /\ y[1].turn < x[1].turn),
         Q2[1] = Append(Q[1], x[1].cell), \A i \in 2..m : Q2[i] = Q[i]
  PROVE  OutLine(G, m, N, <<>>, y, R, Q2) /\ OutLine(G, m, N, y, <<>>, R, Q2)
<1>1. OutLine(G, m, N, <<>>, y, R, Q2)
  BY LineQueue
<1>2. PICK e : e = <<>>
  OBVIOUS
<1>3. OutLine(G, m, N, e, y, R, Q2)
  BY <1>1, <1>2
<1>4. OutLine(G, m, N, y, e, R, Q2)
  BY ONLY <1>3, m \in Nat, N \in Nat, LineSwap
<1>. QED
  BY <1>1, <1>2, <1>4
LEMMA OneAnswered ==
  ASSUME NEW G, NEW m \in Nat, m >= 1, NEW w, NEW x, NEW y, NEW R, NEW Q, NEW Q2,
         ChainOK(G), m <= Len(G), BackLine(G, m, w, x, y, R, Q),
         x # <<>>, ~(y # <<>> /\ y[1].turn < x[1].turn),
         Q2[m] = Append(Q[m], x[1].cell), \A i \in 1..m : i # m => Q2[i] = Q[i]
  PROVE  BackLine(G, m, w, <<>>, y, R, Q2) /\ BackLine(G, m, w, y, <<>>, R, Q2)
<1>1. BackLine(G, m, w, <<>>, y, R, Q2)
  BY BackLineQueue
<1>2. PICK e : e = <<>>
  OBVIOUS
<1>3. BackLine(G, m, w, e, y, R, Q2)
  BY <1>1, <1>2
<1>4. BackLine(G, m, w, y, e, R, Q2)
  BY ONLY <1>3, m \in Nat, m >= 1, ChainOK(G), m <= Len(G), BackLineSwap
<1>. QED
  BY <1>1, <1>2, <1>4

\* t has what one of two tasks holds, u what the other does.
Pair(t, u, a, b) == (t = a /\ u = b) \/ (t = b /\ u = a)

LEMMA QueuedOut ==
  ASSUME Good, NEW t \in FromClient, Queued(t), "overtaken" \notin excuses'
  PROVE  Good'
<1>1. /\ Shape /\ Building /\ ClientOut /\ ServiceWayOut /\ ClientBack /\ ServiceBack
  BY DEF Good
<1>2. ClientIs /\ ServiceIs /\ ClientChain /\ ServiceChain /\ BackIs /\ MeetBackIs
  BY GoodFacts DEF Facts
<1>3. t \in OnionTask
  BY DEF OnionTask
<1>4. /\ held[t] # <<>> /\ UNCHANGED <<origin, relays, tables, ends0, ghosts>>
      /\ held' = [u \in OnionTask |-> held'[u]]
      /\ held'[t] = <<>> /\ \A u \in OnionTask : u # t => held'[u] = held[u]
      /\ \A u \in OnionTask : u # t /\ (t \in FromClient) = (u \in FromClient) /\ held[u] # <<>> =>
           ~(held[u][1].turn < held[t][1].turn)
      /\ forward' = On(forward, Client, held[t][1].cell) /\ backward' = backward
  BY <1>1, <1>3, QueuedParts
<1>5. PICK u \in FromClient : Pair(t, u, "fetch", "pump")
  BY DEF FromClient, Pair
<1>6. /\ u # t /\ u \in OnionTask /\ ~(held[u] # <<>> /\ held[u][1].turn < held[t][1].turn)
      /\ held'[u] = held[u] /\ held'["clientReader"] = held["clientReader"] /\ held'["serviceReader"] = held["serviceReader"]
  <2>1. u # t /\ u \in OnionTask
    BY <1>5 DEF Pair, OnionTask
  <2>2. /\ "clientReader" \in OnionTask /\ "serviceReader" \in OnionTask /\ "clientReader" # t /\ "serviceReader" # t
    BY DEF OnionTask, FromClient, AtPoint
  <2>. QED
    BY <1>4, <2>1, <2>2
<1>7. Known \in Nat /\ Known >= 1 /\ \A i \in 1..Known : LegTo(i) \in Leg /\ i \in Int
  <2>1. Known # 0
    BY <1>1, <1>4, <1>5 DEF ClientOut, Free, Pair
  <2>. QED
    BY <1>1, <2>1, KnownIs
<1>8. Client = LegTo(1) /\ 1 \in 1..Known /\ Client \in Leg /\ Meet # Client /\ Meet \in Leg
  BY <1>7, LegApart, LegIs
<1>9. PICK c : c = held[t][1].cell
  OBVIOUS
<1>10. Gains(forward, forward', Client, c)
  <2>1. forward' = On(forward, Client, c) /\ forward = [l \in Leg |-> forward[l]]
    BY <1>1, <1>4, <1>9 DEF Shape
  <2>. QED
    BY <1>8, <2>1, OnIs
<1>11. Tables'
  BY <1>1, <1>4, <1>10 DEF Shape, Tables, Gains
<1>12. /\ Shape' /\ RelaysSaid' /\ ClientHears' /\ Bridged' /\ Control' /\ Contents' /\ Timely'
       /\ SameClient /\ SameService /\ Steps({}) /\ StagesStay /\ CircuitsStay /\ ChainBack' = ChainBack
       /\ \A i \in 1..Known : RelayHop(i)' = RelayHop(i)
  BY <1>4, <1>11, RelaysRest
<1>13. Building'
  <2>1. PICK Z : Z = {Client}
    OBVIOUS
  <2>2. TouchOnly(Z)
    BY <1>4, <1>10, <2>1 DEF TouchOnly, Gains
  <2>3. Near(Z)
    <3>1. \A j \in 1..PathLen : LegTo(j) = Client => j <= Known
      BY <1>7, <1>8, LegApart, LegIs
    <3>. QED
      BY <1>8, <2>1, <3>1 DEF Near
  <2>4. Steps(Z)
    BY <1>12 DEF Steps
  <2>. QED
    BY <1>1, <1>12, <2>2, <2>3, <2>4, BuildingStays
<1>14. ClientOut'
  <2>1. PICK G, m, N, x, y, R, Q, Q2 :
          /\ G = ChainOut /\ m = Known /\ N = Sent /\ x = held[t] /\ y = held[u]
          /\ R = Relayed /\ Q = OutQueues /\ Q2 = OutQueues'
    OBVIOUS
  <2>2. ChainOK(G) /\ m \in Nat /\ m >= 1 /\ m <= Len(G) /\ G[1].o = 0 /\ N \in Nat
    BY <1>2, <1>7, <2>1 DEF ClientChain, ChainIsFor, ChainOut, Sent
  <2>3. OutLine(G, m, N, x, y, R, Q)
    <3>1. PICK f, p : f = held["fetch"] /\ p = held["pump"]
      OBVIOUS
    <3>2. OutLine(G, m, N, f, p, R, Q)
      BY <1>1, <1>7, <2>1, <3>1 DEF ClientOut
    <3>3. OutLine(G, m, N, p, f, R, Q)
      BY ONLY <2>2, <3>2, LineSwap
    <3>. QED
      BY <1>5, <2>1, <3>1, <3>2, <3>3 DEF Pair
  <2>4. Known' = Known /\ ChainOut' = G /\ Sent' = N /\ ClientLayers' = ClientLayers
    BY <1>12, <2>1 DEF SameClient
  <2>5. Q2[1] = Append(Q[1], x[1].cell) /\ \A i \in 2..m : Q2[i] = Q[i]
    <3>1. \A i \in 1..m : Q[i] = forward[LegTo(i)] /\ Q2[i] = forward'[LegTo(i)]
      BY <2>1, <2>4, RelayedIs
    <3>2. \A i \in 2..m : i \in 1..m /\ LegTo(i) # Client /\ LegTo(i) \in Leg
      <4>1. \A i \in 2..m : i \in 1..m /\ i \in Int /\ i # 1
        BY <2>2
      <4>. QED
        BY <1>7, <1>8, <2>1, <4>1, LegApart
    <3>3. Q2[1] = Append(Q[1], x[1].cell)
      BY <1>8, <1>9, <1>10, <2>1, <3>1 DEF Gains
    <3>. QED
      BY <1>10, <3>1, <3>2, <3>3 DEF Gains
  <2>6. x # <<>> /\ ~(y # <<>> /\ y[1].turn < x[1].turn)
    BY <1>4, <1>6, <2>1
  <2>7. OutLine(G, m, N, <<>>, y, R, Q2) /\ OutLine(G, m, N, y, <<>>, R, Q2)
    BY ONLY <2>2, <2>3, <2>5, <2>6, OneQueued
  <2>8. OutLine(G, m, N, held'["fetch"], held'["pump"], R, Q2)
    BY <1>4, <1>5, <1>6, <2>1, <2>7 DEF Pair
  <2>9. Relayed' = R
    BY <1>4, <2>1, <2>4 DEF Relayed, RelayHop, LegTo
  <2>10. OutLine(ChainOut', Known', Sent', held'["fetch"], held'["pump"], Relayed', OutQueues')
    BY <2>1, <2>4, <2>8, <2>9
  <2>11. LayersOK(ClientLayers)' /\ Known' # 0
    BY <1>1, <1>7, <2>4 DEF ClientOut
  <2>. QED
    BY <2>10, <2>11 DEF ClientOut
<1>15. ServiceWayOut'
  <2>1. MeetOutStill
    BY <1>4, <1>8, <1>10 DEF MeetOutStill, MeetHop, Meet, Gains
  <2>. QED
    BY <1>1, <1>2, <1>12, <2>1, ServiceWayOutStays
<1>16. ClientBack'
  <2>1. BackHopsStill
    BY <1>4, <1>12 DEF BackHopsStill
  <2>2. Known' = Known /\ Read' = Read
    BY <1>12 DEF SameClient
  <2>. QED
    BY <1>1, <1>2, <1>6, <1>12, <2>1, <2>2, ClientBackStays
<1>17. ServiceBack'
  <2>1. MeetBackStill
    BY <1>4 DEF MeetBackStill, MeetHop, Meet
  <2>2. MeetBack' = MeetBack /\ Len(ServiceEnd.hops)' = Len(ServiceEnd.hops) /\ ServiceLayers' = ServiceLayers
    BY <1>12 DEF SameClient, SameService
  <2>3. Len(ServiceEnd.hops) > 0 => ServiceLayers'[1].bn = ServiceLayers[1].bn
    BY <2>2
  <2>. QED
    BY <1>1, <1>2, <2>1, <2>2, <2>3, ServiceBackStays
<1>. QED
  BY <1>12, <1>13, <1>14, <1>15, <1>16, <1>17 DEF Good

LEMMA QueuedBack ==
  ASSUME Good, NEW t \in AtPoint, Queued(t), "overtaken" \notin excuses'
  PROVE  Good'
<1>1. /\ Shape /\ Building /\ ClientOut /\ ServiceWayOut /\ ClientBack /\ ServiceBack
  BY DEF Good
<1>2. ClientIs /\ ServiceIs /\ ClientChain /\ ServiceChain /\ BackIs /\ MeetBackIs
  BY GoodFacts DEF Facts
<1>3. t \in OnionTask /\ t \notin FromClient
  BY DEF OnionTask, AtPoint, FromClient
<1>4. /\ held[t] # <<>> /\ UNCHANGED <<origin, relays, tables, ends0, ghosts>>
      /\ held' = [u \in OnionTask |-> held'[u]]
      /\ held'[t] = <<>> /\ \A u \in OnionTask : u # t => held'[u] = held[u]
      /\ \A u \in OnionTask : u # t /\ (t \in FromClient) = (u \in FromClient) /\ held[u] # <<>> =>
           ~(held[u][1].turn < held[t][1].turn)
      /\ backward' = On(backward, Point, held[t][1].cell) /\ forward' = forward
  BY <1>1, <1>3, QueuedParts
<1>5. PICK u \in AtPoint : Pair(t, u, "clientReader", "serviceReader")
  BY DEF AtPoint, Pair
<1>6. /\ u # t /\ u \in OnionTask /\ ~(held[u] # <<>> /\ held[u][1].turn < held[t][1].turn)
      /\ held'[u] = held[u] /\ held'["fetch"] = held["fetch"] /\ held'["pump"] = held["pump"]
  <2>1. u # t /\ u \in OnionTask /\ u \notin FromClient
    BY <1>5 DEF Pair, OnionTask, AtPoint, FromClient
  <2>2. /\ "fetch" \in OnionTask /\ "pump" \in OnionTask /\ "fetch" # t /\ "pump" # t
    BY <1>3 DEF OnionTask, FromClient
  <2>. QED
    BY <1>3, <1>4, <2>1, <2>2
<1>7. Known \in Nat /\ Known >= 1 /\ Known = PathLen /\ \A i \in 1..Known : LegTo(i) \in Leg /\ i \in Int
  <2>1. ~(Known < PathLen)
    BY <1>1, <1>4, <1>5 DEF ClientBack, Free, Pair
  <2>. QED
    BY <1>1, <2>1, KnownIs
<1>8. Point = LegTo(Known) /\ Known \in 1..Known /\ Point \in Leg /\ Meet # Point /\ Meet \in Leg
  BY <1>7, LegApart, LegIs
<1>9. PICK c : c = held[t][1].cell
  OBVIOUS
<1>10. Gains(backward, backward', Point, c)
  <2>1. backward' = On(backward, Point, c) /\ backward = [l \in Leg |-> backward[l]]
    BY <1>1, <1>4, <1>9 DEF Shape
  <2>. QED
    BY <1>8, <2>1, OnIs
<1>11. Tables'
  BY <1>1, <1>4, <1>10 DEF Shape, Tables, Gains
<1>12. /\ Shape' /\ RelaysSaid' /\ ClientHears' /\ Bridged' /\ Control' /\ Contents' /\ Timely'
       /\ SameClient /\ SameService /\ Steps({}) /\ StagesStay /\ CircuitsStay /\ ChainBack' = ChainBack
       /\ \A i \in 1..Known : RelayHop(i)' = RelayHop(i)
  BY <1>4, <1>11, RelaysRest
<1>13. Building'
  <2>1. PICK Z : Z = {Point}
    OBVIOUS
  <2>2. TouchOnly(Z)
    BY <1>4, <1>10, <2>1 DEF TouchOnly, Gains
  <2>3. Near(Z)
    <3>1. \A j \in 1..PathLen : j <= Known
      BY <1>7
    <3>. QED
      BY <1>8, <2>1, <3>1 DEF Near
  <2>4. Steps(Z)
    BY <1>12 DEF Steps
  <2>. QED
    BY <1>1, <1>12, <2>2, <2>3, <2>4, BuildingStays
<1>14. ClientBack'
  <2>1. PICK G, m, w, x, y, R, Q, Q2 :
          /\ G = ChainBack /\ m = Known /\ w = Read /\ x = held[t] /\ y = held[u]
          /\ R = Relayed /\ Q = BackQueues /\ Q2 = BackQueues'
    OBVIOUS
  <2>2. ChainOK(G) /\ m \in Nat /\ m >= 1 /\ m <= Len(G)
    BY <1>2, <1>7, <2>1 DEF BackIs
  <2>3. BackLine(G, m, w, x, y, R, Q)
    <3>1. PICK f, p : f = held["clientReader"] /\ p = held["serviceReader"]
      OBVIOUS
    <3>2. BackLine(G, m, w, f, p, R, Q)
      BY <1>1, <1>7, <2>1, <3>1 DEF ClientBack
    <3>3. BackLine(G, m, w, p, f, R, Q)
      BY ONLY <2>2, <3>2, BackLineSwap
    <3>. QED
      BY <1>5, <2>1, <3>1, <3>2, <3>3 DEF Pair
  <2>4. Known' = Known /\ ChainBack' = G /\ Read' = w
    BY <1>12, <2>1 DEF SameClient
  <2>5. Q2[m] = Append(Q[m], x[1].cell) /\ \A i \in 1..m : i # m => Q2[i] = Q[i]
    <3>1. \A i \in 1..m : Q[i] = backward[LegTo(i)] /\ Q2[i] = backward'[LegTo(i)]
      BY <2>1, <2>4, RelayedIs
    <3>2. \A i \in 1..m : i # m => LegTo(i) # Point /\ LegTo(i) \in Leg
      BY <1>7, <1>8, <2>1, LegApart
    <3>3. Q2[m] = Append(Q[m], x[1].cell)
      BY <1>8, <1>9, <1>10, <2>1, <3>1 DEF Gains
    <3>. QED
      BY <1>10, <3>1, <3>2, <3>3 DEF Gains
  <2>6. x # <<>> /\ ~(y # <<>> /\ y[1].turn < x[1].turn)
    BY <1>4, <1>6, <2>1
  <2>7. BackLine(G, m, w, <<>>, y, R, Q2) /\ BackLine(G, m, w, y, <<>>, R, Q2)
    BY ONLY <2>2, <2>3, <2>5, <2>6, OneAnswered
  <2>8. BackLine(G, m, w, held'["clientReader"], held'["serviceReader"], R, Q2)
    BY <1>4, <1>5, <1>6, <2>1, <2>7 DEF Pair
  <2>9. Relayed' = R
    BY <1>4, <2>1, <2>4 DEF Relayed, RelayHop, LegTo
  <2>10. BackLine(ChainBack', Known', Read', held'["clientReader"], held'["serviceReader"], Relayed', BackQueues')
    BY <2>1, <2>4, <2>8, <2>9
  <2>11. ~(Known' < PathLen)
    BY <1>7, <2>4
  <2>. QED
    BY <2>10, <2>11 DEF ClientBack
<1>15. ServiceWayOut'
  <2>1. MeetOutStill
    BY <1>4 DEF MeetOutStill, MeetHop, Meet
  <2>. QED
    BY <1>1, <1>2, <1>12, <2>1, ServiceWayOutStays
<1>16. ClientOut'
  <2>1. OutHopsStill
    BY <1>4, <1>12 DEF OutHopsStill
  <2>. QED
    BY <1>1, <1>2, <1>6, <1>12, <2>1, ClientOutStays
<1>17. ServiceBack'
  <2>1. MeetBackStill
    BY <1>4, <1>8, <1>10 DEF MeetBackStill, MeetHop, Meet, Gains
  <2>2. MeetBack' = MeetBack /\ Len(ServiceEnd.hops)' = Len(ServiceEnd.hops) /\ ServiceLayers' = ServiceLayers
    BY <1>12 DEF SameClient, SameService
  <2>3. Len(ServiceEnd.hops) > 0 => ServiceLayers'[1].bn = ServiceLayers[1].bn
    BY <2>2
  <2>. QED
    BY <1>1, <1>2, <2>1, <2>2, <2>3, ServiceBackStays
<1>. QED
  BY <1>12, <1>13, <1>14, <1>15, <1>16, <1>17 DEF Good

LEMMA QueuedGood == ASSUME Good, NEW t \in OnionTask, Queued(t), "overtaken" \notin excuses' PROVE Good'
BY QueuedOut, QueuedBack DEF OnionTask
=============================================================================

----------------------------- MODULE SeqLemmas ------------------------------
(***************************************************************************)
(* Facts about sequences and numbers that the proofs of several components *)
(* use: the least of a set, induction over the naturals, and what Sifting  *)
(* takes of a sequence.                                                    *)
(***************************************************************************)
EXTENDS Sifting, FiniteSetTheorems, WellFoundedInduction, TLAPS

\* A set of naturals that is not empty has a least element.
LEMMA NatMin == ASSUME NEW T \in SUBSET Nat, T # {}
                PROVE \E x \in T : \A y \in T : x <= y
<1> DEFINE W == {1 .. x : x \in T}
<1>1. W \subseteq FiniteSubsetsOf(Nat)
  <2>1. \A x \in T : IsFiniteSet(1 .. x)
    BY FS_Interval
  <2>2. QED BY <2>1 DEF FiniteSubsetsOf
<1>2. W # {}
  OBVIOUS
<1>3. IsWellFoundedOn(StrictSubsetOrdering(Nat), FiniteSubsetsOf(Nat))
  BY FS_StrictSubsetOrderingWellFounded
<1> HIDE DEF W
<1>4. \E U \in W : \A V \in W : ~ (<<V, U>> \in StrictSubsetOrdering(Nat))
  BY <1>1, <1>2, <1>3, WFMin
<1>5. PICK U \in W : \A V \in W : ~ (<<V, U>> \in StrictSubsetOrdering(Nat))
  BY <1>4
<1>6. PICK x \in T : U = 1 .. x
  BY DEF W
<1>7. SUFFICES ASSUME NEW y \in T, y < x PROVE FALSE
  BY SMT
<1>8. 1 .. y \in W
  BY DEF W
<1>9. <<1 .. y, 1 .. x>> \in StrictSubsetOrdering(Nat)
  <2>1. 1 .. y \subseteq 1 .. x /\ x \in 1 .. x /\ x \notin 1 .. y /\ 1 .. x \subseteq Nat
    BY <1>7
  <2>2. QED BY <2>1, Zenon DEF StrictSubsetOrdering
<1>10. QED
  BY <1>5, <1>6, <1>8, <1>9, Zenon

\* Induction over the naturals, for a property given as the set of those that have it.
LEMMA SetInduction == ASSUME NEW S \in SUBSET Nat, 0 \in S, \A n \in S : n + 1 \in S
                      PROVE S = Nat
<1> SUFFICES ASSUME S # Nat PROVE FALSE
  OBVIOUS
<1>1. PICK x \in Nat \ S : \A y \in Nat \ S : x <= y
  <2>1. Nat \ S \in SUBSET Nat /\ Nat \ S # {}
    OBVIOUS
  <2>2. QED BY <2>1, NatMin
<1>2. x # 0 /\ x - 1 \in Nat
  BY <1>1
<1>3. x - 1 \in S
  BY <1>1, <1>2
<1>4. QED
  BY <1>1, <1>2, <1>3

-----------------------------------------------------------------------------
\* A sequence of numbers has a largest.
LEMMA SeqMax ==
    ASSUME NEW s \in Seq(Nat), Len(s) > 0
    PROVE  \E i \in DOMAIN s : \A j \in DOMAIN s : s[j] <= s[i]
<1> DEFINE N == Len(s)
           S == {n \in Nat : n + 1 <= N => \E i \in 1 .. n + 1 : \A j \in 1 .. n + 1 : s[j] <= s[i]}
<1>1. N \in Nat /\ N > 0 /\ DOMAIN s = 1 .. N /\ \A i \in 1 .. N : s[i] \in Nat
  OBVIOUS
<1> HIDE DEF N
<1>2. 0 \in S
  BY <1>1
<1>3. ASSUME NEW n \in S PROVE n + 1 \in S
  <2>1. SUFFICES ASSUME n + 1 + 1 <= N PROVE \E i \in 1 .. n + 1 + 1 : \A j \in 1 .. n + 1 + 1 : s[j] <= s[i]
    OBVIOUS
  <2>2. PICK i \in 1 .. n + 1 : \A j \in 1 .. n + 1 : s[j] <= s[i]
    BY <2>1, <1>1
  <2>3. s[i] \in Nat /\ s[n + 1 + 1] \in Nat /\ i \in 1 .. n + 1 + 1 /\ n + 1 + 1 \in 1 .. n + 1 + 1
    BY <2>1, <1>1
  <2>4. \A j \in 1 .. n + 1 + 1 : s[j] \in Nat /\ (j \in 1 .. n + 1 \/ j = n + 1 + 1)
    BY <2>1, <1>1
  <2>5. CASE s[n + 1 + 1] <= s[i]
    <3>1. \A j \in 1 .. n + 1 + 1 : s[j] <= s[i]
      BY <2>2, <2>4, <2>5
    <3> QED BY <3>1, <2>3
  <2>6. CASE s[i] <= s[n + 1 + 1]
    <3>1. \A j \in 1 .. n + 1 + 1 : s[j] <= s[n + 1 + 1]
      BY <2>2, <2>3, <2>4, <2>6
    <3> QED BY <3>1, <2>3
  <2>7. s[n + 1 + 1] <= s[i] \/ s[i] <= s[n + 1 + 1]
    BY <2>3
  <2> QED BY <2>5, <2>6, <2>7, Zenon
<1>4. N - 1 \in S
  <2>1. S = Nat
    <3> HIDE DEF S
    <3>0. S \in SUBSET Nat
      BY DEF S
    <3> QED BY <1>2, <1>3, <3>0, SetInduction
  <2>2. N - 1 \in Nat
    BY <1>1
  <2> QED BY <2>1, <2>2
<1>5. N - 1 + 1 = N
  BY <1>1
<1>6. \E i \in 1 .. N : \A j \in 1 .. N : s[j] <= s[i]
  BY <1>1, <1>4, <1>5
<1> QED BY <1>1, <1>6, Zenon

-----------------------------------------------------------------------------
\* The loop of SeqAt as a step.
TakeStep(s, I, n, kept) == IF n \in I THEN Append(kept, s[n]) ELSE kept

\* The first n steps of the loop, run to their end.
TakeRuns(T, s, I, n, g) ==
  /\ g \in [0 .. n -> Seq(T)]
  /\ g[0] = <<>>
  /\ \A k \in 1 .. n : g[k] = TakeStep(s, I, k, g[k - 1])

\* The recursive function of SeqAt is such a run.
LEMMA SeqAtRuns ==
  ASSUME NEW T, NEW s \in Seq(T), NEW I \in SUBSET (1 .. Len(s))
  PROVE  \E g : TakeRuns(T, s, I, Len(s), g) /\ SeqAt(s, I) = g[Len(s)]
<1> DEFINE N == Len(s)
           S == {n \in Nat : n <= N => \E g : TakeRuns(T, s, I, n, g)}
<1>1. 0 \in S
  <2>1. TakeRuns(T, s, I, 0, [k \in 0 .. 0 |-> <<>>])
    BY DEF TakeRuns
  <2>2. QED BY <2>1
<1>2. ASSUME NEW n \in S PROVE n + 1 \in S
  <2>1. SUFFICES ASSUME n + 1 <= N PROVE \E g : TakeRuns(T, s, I, n + 1, g)
    OBVIOUS
  <2>2. PICK g : TakeRuns(T, s, I, n, g)
    BY <2>1
  <2> DEFINE h == [k \in 0 .. n + 1 |-> IF k = n + 1 THEN TakeStep(s, I, n + 1, g[n]) ELSE g[k]]
  <2>3. s[n + 1] \in T
    BY <2>1
  <2>4. TakeStep(s, I, n + 1, g[n]) \in Seq(T)
    BY <2>2, <2>3 DEF TakeRuns, TakeStep
  <2>5. h \in [0 .. n + 1 -> Seq(T)]
    BY <2>2, <2>4 DEF TakeRuns
  <2>6. h[0] = <<>>
    BY <2>2 DEF TakeRuns
  <2>7. \A k \in 1 .. n + 1 : h[k] = TakeStep(s, I, k, h[k - 1])
    <3> SUFFICES ASSUME NEW k \in 1 .. n + 1 PROVE h[k] = TakeStep(s, I, k, h[k - 1])
      OBVIOUS
    <3>1. CASE k = n + 1
      <4>1. h[k] = TakeStep(s, I, n + 1, g[n]) /\ h[k - 1] = g[n]
        BY <3>1
      <4>2. QED BY <3>1, <4>1
    <3>2. CASE k # n + 1
      <4>1. k \in 1 .. n /\ h[k] = g[k] /\ h[k - 1] = g[k - 1]
        BY <3>2
      <4>2. QED BY <2>2, <4>1 DEF TakeRuns
    <3> QED BY <3>1, <3>2
  <2>8. TakeRuns(T, s, I, n + 1, h)
    BY <2>5, <2>6, <2>7 DEF TakeRuns
  <2>9. QED BY <2>8
<1>3. N \in S
  <2>1. S \in SUBSET Nat /\ N \in Nat
    OBVIOUS
  <2> HIDE DEF S
  <2>2. S = Nat
    BY <1>1, <1>2, <2>1, SetInduction
  <2>3. QED BY <2>1, <2>2
<1>4. PICK g : TakeRuns(T, s, I, N, g)
  BY <1>3
<1> DEFINE Body(f, n) == IF n = 0 THEN <<>>
                         ELSE IF n \in I THEN Append(f[n - 1], s[n]) ELSE f[n - 1]
           Loops(f) == f = [n \in 0 .. N |-> Body(f, n)]
           keep == CHOOSE f : Loops(f)
<1>5. Loops(g)
  <2>1. \A n \in 0 .. N : g[n] = Body(g, n)
    <3>1. N \in Nat /\ g[0] = <<>> /\ \A n \in 1 .. N : g[n] = TakeStep(s, I, n, g[n - 1])
      BY <1>4 DEF TakeRuns
    <3> HIDE DEF N
    <3>2. QED BY <3>1, SMT DEF TakeStep
  <2>2. g = [n \in 0 .. N |-> g[n]]
    BY <1>4 DEF TakeRuns
  <2> HIDE DEF Body
  <2>3. QED BY <2>1, <2>2
<1>6. Loops(keep)
  <2> HIDE DEF Loops
  <2>1. QED BY <1>5
<1>7. SeqAt(s, I) = keep[N]
  BY DEF SeqAt
<1> HIDE DEF keep
<1>8. keep[0] = <<>> /\ \A k \in 1 .. N : keep[k] = TakeStep(s, I, k, keep[k - 1])
  <2>1. N \in Nat
    OBVIOUS
  <2>2. \A n \in 0 .. N : keep[n] = Body(keep, n)
    <3> HIDE DEF Body
    <3>1. QED BY <1>6
  <2>3. QED BY <2>1, <2>2 DEF TakeStep
<1>9. keep \in [0 .. N -> Seq(T)]
  <2> DEFINE D == {n \in Nat : n <= N => keep[n] \in Seq(T)}
  <2>1. 0 \in D
    <3>1. keep[0] \in Seq(T)
      BY <1>8
    <3>2. QED BY <3>1
  <2>2. ASSUME NEW n \in D PROVE n + 1 \in D
    <3> SUFFICES ASSUME n + 1 <= N PROVE keep[n + 1] \in Seq(T)
      OBVIOUS
    <3>1. n \in Nat /\ n + 1 \in 1 .. N /\ n <= N
      OBVIOUS
    <3>2. keep[n] \in Seq(T) /\ s[n + 1] \in T
      BY <3>1
    <3>3. keep[n + 1] = TakeStep(s, I, n + 1, keep[n])
      BY <1>8, <3>1
    <3>4. QED BY <3>2, <3>3 DEF TakeStep
  <2>3. D \in SUBSET Nat
    OBVIOUS
  <2>4. D = Nat
    <3> HIDE DEF D
    <3> QED BY <2>1, <2>2, <2>3, SetInduction
  <2>5. \A n \in 0 .. N : keep[n] \in Seq(T)
    BY <2>4
  <2>6. keep = [n \in 0 .. N |-> keep[n]]
    <3> HIDE DEF Body
    <3> QED BY <1>6
  <2>7. QED BY <2>5, <2>6
<1>10. QED
  <2>1. TakeRuns(T, s, I, N, keep)
    BY <1>8, <1>9 DEF TakeRuns
  <2>2. QED BY <1>7, <2>1

\* kept is what is taken of the first n of s, each once and in their order: h says where from.
Taken(T, s, I, n, kept) ==
  /\ kept \in Seq(T) /\ Len(kept) <= n
  /\ \E h \in [1 .. Len(kept) -> 1 .. n] :
       /\ \A i, j \in 1 .. Len(kept) : i < j => h[i] < h[j]
       /\ \A i \in 1 .. Len(kept) : kept[i] = s[h[i]] /\ h[i] \in I
       /\ \A k \in 1 .. n : k \in I => \E i \in 1 .. Len(kept) : h[i] = k

\* One step more keeps it.
LEMMA TakenStep ==
  ASSUME NEW T, NEW s \in Seq(T), NEW I \in SUBSET (1 .. Len(s)), NEW n \in Nat, n + 1 <= Len(s),
         NEW kept, Taken(T, s, I, n, kept)
  PROVE  Taken(T, s, I, n + 1, TakeStep(s, I, n + 1, kept))
<1> DEFINE c == s[n + 1]
<1>1. c \in T /\ kept \in Seq(T) /\ Len(kept) \in Nat /\ Len(kept) <= n
  BY DEF Taken
<1>2. PICK h \in [1 .. Len(kept) -> 1 .. n] :
        /\ \A i, j \in 1 .. Len(kept) : i < j => h[i] < h[j]
        /\ \A i \in 1 .. Len(kept) : kept[i] = s[h[i]] /\ h[i] \in I
        /\ \A k \in 1 .. n : k \in I => \E i \in 1 .. Len(kept) : h[i] = k
  BY DEF Taken
<1>3. CASE n + 1 \notin I
  <2>1. TakeStep(s, I, n + 1, kept) = kept /\ h \in [1 .. Len(kept) -> 1 .. n + 1]
    BY <1>3, <1>1 DEF TakeStep
  <2>2. \A k \in 1 .. n + 1 : k \in I => \E i \in 1 .. Len(kept) : h[i] = k
    <3>1. \A k \in 1 .. n + 1 : k = n + 1 \/ k \in 1 .. n
      OBVIOUS
    <3>2. QED BY <1>2, <1>3, <3>1
  <2>3. Len(kept) <= n + 1
    BY <1>1
  <2>4. Taken(T, s, I, n + 1, kept)
    BY <1>1, <1>2, <2>1, <2>2, <2>3, Zenon DEF Taken
  <2>5. QED BY <2>1, <2>4
<1>4. CASE n + 1 \in I
  <2> DEFINE more == Append(kept, c)
             h2 == [i \in 1 .. Len(kept) + 1 |-> IF i = Len(kept) + 1 THEN n + 1 ELSE h[i]]
  <2>1. TakeStep(s, I, n + 1, kept) = more /\ more \in Seq(T) /\ Len(more) = Len(kept) + 1
    BY <1>4, <1>1 DEF TakeStep
  <2>2. \A i \in 1 .. Len(more) : more[i] = IF i = Len(kept) + 1 THEN c ELSE kept[i]
    BY <1>1
  <2>3. h2 \in [1 .. Len(more) -> 1 .. n + 1]
    BY <1>1, <2>1
  <2>4. \A i, j \in 1 .. Len(more) : i < j => h2[i] < h2[j]
    <3> SUFFICES ASSUME NEW i \in 1 .. Len(more), NEW j \in 1 .. Len(more), i < j PROVE h2[i] < h2[j]
      OBVIOUS
    <3>0. i \in 1 .. Len(kept)
      BY <1>1, <2>1
    <3>1. i \in 1 .. Len(kept) /\ h2[i] = h[i] /\ h[i] \in 1 .. n
      <4>1. i # Len(kept) + 1 /\ i \in 1 .. Len(kept) + 1
        BY <3>0, <1>1
      <4>2. h2[i] = h[i]
        BY <4>1
      <4>3. h[i] \in 1 .. n
        BY <3>0, <1>2
      <4> QED BY <3>0, <4>2, <4>3
    <3>2. CASE j = Len(kept) + 1
      <4>1. h2[j] = n + 1
        BY <3>2, <1>1
      <4>2. QED BY <3>1, <4>1
    <3>3. CASE j # Len(kept) + 1
      <4>1. j \in 1 .. Len(kept) /\ h2[j] = h[j]
        BY <3>3, <1>1, <2>1
      <4>2. QED BY <1>2, <3>1, <4>1
    <3> QED BY <3>2, <3>3
  <2>5. \A i \in 1 .. Len(more) : more[i] = s[h2[i]] /\ h2[i] \in I
    <3> SUFFICES ASSUME NEW i \in 1 .. Len(more) PROVE more[i] = s[h2[i]] /\ h2[i] \in I
      OBVIOUS
    <3>1. CASE i = Len(kept) + 1
      <4>1. more[i] = c /\ h2[i] = n + 1
        BY <3>1, <1>1, <2>2
      <4>2. QED BY <4>1, <1>4
    <3>2. CASE i # Len(kept) + 1
      <4>1. i \in 1 .. Len(kept) /\ more[i] = kept[i] /\ h2[i] = h[i]
        BY <3>2, <1>1, <2>1, <2>2
      <4>2. QED BY <4>1, <1>2
    <3> QED BY <3>1, <3>2
  <2>6. \A k \in 1 .. n + 1 : k \in I => \E i \in 1 .. Len(more) : h2[i] = k
    <3> SUFFICES ASSUME NEW k \in 1 .. n + 1, k \in I PROVE \E i \in 1 .. Len(more) : h2[i] = k
      OBVIOUS
    <3>1. CASE k = n + 1
      <4>1. h2[Len(kept) + 1] = k /\ Len(kept) + 1 \in 1 .. Len(more)
        BY <3>1, <1>1, <2>1
      <4>2. QED BY <4>1
    <3>2. CASE k # n + 1
      <4>1. PICK i \in 1 .. Len(kept) : h[i] = k
        BY <3>2, <1>2
      <4>2. i \in 1 .. Len(more) /\ h2[i] = k
        BY <4>1, <1>1, <2>1
      <4>3. QED BY <4>2
    <3> QED BY <3>1, <3>2
  <2>7. Len(more) <= n + 1
    BY <1>1, <2>1
  <2> HIDE DEF more, h2
  <2>8. Taken(T, s, I, n + 1, more)
    BY <2>1, <2>3, <2>4, <2>5, <2>6, <2>7, Zenon DEF Taken
  <2>9. QED BY <2>1, <2>8
<1> QED BY <1>3, <1>4

\* SeqAt takes what stands at the indices in I, each once, and nothing else.
LEMMA SeqAtIsTaken ==
  ASSUME NEW T, NEW s \in Seq(T), NEW I \in SUBSET (1 .. Len(s))
  PROVE  Taken(T, s, I, Len(s), SeqAt(s, I))
<1>1. PICK g : TakeRuns(T, s, I, Len(s), g) /\ SeqAt(s, I) = g[Len(s)]
  BY SeqAtRuns
<1> DEFINE S == {n \in Nat : n <= Len(s) => Taken(T, s, I, n, g[n])}
<1>2. 0 \in S
  <2>1. g[0] = <<>>
    BY <1>1 DEF TakeRuns
  <2>2. <<>> \in Seq(T) /\ Len(<<>>) = 0 /\ <<>> \in [1 .. 0 -> 1 .. 0]
    OBVIOUS
  <2>3. Taken(T, s, I, 0, <<>>)
    <3> DEFINE h == [i \in 1 .. 0 |-> 1]
    <3>1. h \in [1 .. Len(<<>>) -> 1 .. 0] /\ 1 .. Len(<<>>) = {} /\ 1 .. 0 = {}
      OBVIOUS
    <3>2. Len(<<>>) <= 0
      BY <2>2
    <3>3. QED BY <2>2, <3>1, <3>2, Zenon DEF Taken
  <2>4. QED BY <2>1, <2>3
<1>3. ASSUME NEW n \in S PROVE n + 1 \in S
  <2> SUFFICES ASSUME n + 1 <= Len(s) PROVE Taken(T, s, I, n + 1, g[n + 1])
    OBVIOUS
  <2>1. n \in Nat /\ Len(s) \in Nat /\ n + 1 \in 1 .. Len(s)
    OBVIOUS
  <2>2. Taken(T, s, I, n, g[n])
    BY <2>1
  <2>3. g[n + 1] = TakeStep(s, I, n + 1, g[n])
    BY <1>1, <2>1 DEF TakeRuns
  <2>4. QED BY <2>1, <2>2, <2>3, TakenStep
<1>4. S \in SUBSET Nat /\ Len(s) \in Nat
  OBVIOUS
<1>5. S = Nat
  <2> HIDE DEF S
  <2> QED BY <1>2, <1>3, <1>4, SetInduction
<1>6. QED BY <1>1, <1>4, <1>5
=============================================================================

--------------------------- MODULE Tables_proofs ----------------------------
(***************************************************************************)
(* What the tables and files of a node keep, each on its own and for every *)
(* choice of its constants: the admission accounts, the circuit pool, a    *)
(* board, the replay cache, the vanguards, what the authorities commit to  *)
(* and sign, and the circuit tables.                                       *)
(***************************************************************************)
EXTENDS DosGuard, CircuitPool, Board, ReplayCache, HsPaths, Directory, CircuitManager, SeqLemmas

(* The admission accounts. *)

(***************************************************************************)
(* The two accounts of an address.  Its bucket is never fuller than that   *)
(* of an address that is always remembered; and that one has had the time  *)
(* since it was last seen to fill, so that it is full again when the       *)
(* address is forgotten.                                                   *)
(***************************************************************************)
Account == [tokens : Nat, refilled : Nat, conns : Nat, seen : Nat]

BucketHolds(st, full) ==
    /\ st.refilled <= dosNow /\ st.seen <= dosNow
    /\ Least(Ceiling, st.tokens + (dosNow - st.refilled)) <= full
    /\ Least(Ceiling, dosNow - st.seen) <= full

BucketsInv ==
    /\ dosNow \in Nat /\ Known \subseteq Addr
    /\ client \in [Known -> Account]
    /\ ideal \in [Addr -> 0 .. Ceiling]
    /\ \A a \in Known : BucketHolds(client[a], ideal[a])
    /\ \A a \in Addr \ Known : ideal[a] = Ceiling

\* Its connections are charged no more slots than it holds.
SlotsInv ==
    /\ IsFiniteSet(DOMAIN slot)
    /\ NoSlotLeaks

-----------------------------------------------------------------------------
(* Buckets. *)

\* Whoever asks, the account of an address is sound, a new one included.
LEMMA StatsHold ==
    ASSUME BucketsInv, NEW a \in Addr
    PROVE  Stats(a) \in Account /\ BucketHolds(Stats(a), ideal[a])
<1>1. CASE a \in Known
  BY <1>1 DEF BucketsInv, Stats
<1>2. CASE a \notin Known
  BY <1>2, DosAssumption DEF BucketsInv, Stats, Fresh, Account, BucketHolds, Least
<1>. QED BY <1>1, <1>2

\* An account noted, sound under what an ideal bucket holds then.
LEMMA NotedKeeps ==
    ASSUME BucketsInv, NEW a \in Addr, NEW st \in Account, NEW full \in 0 .. Ceiling,
           BucketHolds(st, full), client' = Noted(a, st), ideal' = [ideal EXCEPT ![a] = full],
           UNCHANGED dosNow
    PROVE  BucketsInv'
<1>1. DOMAIN client' = Known \union {a}
  BY DEF Noted
<1>2. \A b \in Known' : client'[b] = IF b = a THEN st ELSE client[b]
  BY DEF Noted, Known
<1>3. client' \in [Known' -> Account]
  BY <1>1, <1>2 DEF Noted, Known, BucketsInv
<1>4. \A b \in Known' : BucketHolds(client[b], ideal[b])'
  BY <1>1, <1>2 DEF BucketsInv, BucketHolds, Known
<1>. QED BY <1>1, <1>3, <1>4 DEF BucketsInv, Known

\* What a refill makes of an account.
LEMMA RefillIs ==
    ASSUME NEW st \in Account
    PROVE  Refilled(st) = [tokens |-> Least(Ceiling, st.tokens + (dosNow - st.refilled)),
                           refilled |-> dosNow, conns |-> st.conns, seen |-> st.seen]
<1>. DEFINE level == Least(Ceiling, st.tokens + (dosNow - st.refilled))
<1>1. Refilled(st) = [st EXCEPT !.tokens = level, !.refilled = dosNow]
  BY DEF Refilled
<1>. HIDE DEF level
<1>2. [st EXCEPT !.tokens = level, !.refilled = dosNow]
        = [tokens |-> level, refilled |-> dosNow, conns |-> st.conns, seen |-> st.seen]
  <2>1. [st EXCEPT !.tokens = level]
          = [tokens |-> level, refilled |-> st.refilled, conns |-> st.conns, seen |-> st.seen]
    BY DEF Account
  <2>2. [[tokens |-> level, refilled |-> st.refilled, conns |-> st.conns, seen |-> st.seen]
           EXCEPT !.refilled = dosNow]
          = [tokens |-> level, refilled |-> dosNow, conns |-> st.conns, seen |-> st.seen]
    OBVIOUS
  <2>. QED BY <2>1, <2>2
<1>. QED BY <1>1, <1>2 DEF level

LEMMA ChargeIs ==
    ASSUME NEW a \in Addr, Stats(a) \in Account, dosNow \in Nat
    PROVE  LET t == Refilled(Stats(a)).tokens IN
           Charged(a) = [tokens |-> IF t >= 1 THEN t - 1 ELSE t,
                         refilled |-> dosNow, conns |-> Stats(a).conns, seen |-> dosNow]
<1>. DEFINE st == Stats(a)
            met == [st EXCEPT !.seen = dosNow]
            t == Least(Ceiling, st.tokens + (dosNow - st.refilled))
            full == [tokens |-> t, refilled |-> dosNow, conns |-> st.conns, seen |-> dosNow]
            left == IF t >= 1 THEN t - 1 ELSE t
<1>1. met = [tokens |-> st.tokens, refilled |-> st.refilled, conns |-> st.conns, seen |-> dosNow]
      /\ met \in Account
  BY DEF Account
<1>2. Refilled(met) = full
  BY <1>1, RefillIs
<1>3. Charged(a) = [Refilled(met) EXCEPT !.tokens = IF @ >= 1 THEN @ - 1 ELSE @]
  BY DEF Charged
<1>4. [full EXCEPT !.tokens = IF @ >= 1 THEN @ - 1 ELSE @] = [full EXCEPT !.tokens = left]
  OBVIOUS
<1>5. [full EXCEPT !.tokens = left]
        = [tokens |-> left, refilled |-> dosNow, conns |-> st.conns, seen |-> dosNow]
  <2>. HIDE DEF t, left, st
  <2>. QED OBVIOUS
<1>6. Refilled(st).tokens = t
  BY RefillIs
<1>. QED BY <1>2, <1>3, <1>4, <1>5, <1>6

LEMMA CreateKeepsBuckets ==
    ASSUME BucketsInv, NEW a \in Addr, CreateArrives(a)
    PROVE  BucketsInv'
<1>. DEFINE t == Refilled(Stats(a)).tokens
            full == IF t >= 1 /\ ideal[a] > 0 THEN ideal[a] - 1 ELSE ideal[a]
            charged == [tokens |-> IF t >= 1 THEN t - 1 ELSE t,
                        refilled |-> dosNow, conns |-> Stats(a).conns, seen |-> dosNow]
<1>1. Stats(a) \in Account /\ BucketHolds(Stats(a), ideal[a]) /\ ideal[a] \in 0 .. Ceiling
      /\ Ceiling \in Nat \ {0} /\ dosNow \in Nat
  BY StatsHold, DosAssumption DEF BucketsInv
<1>2. t \in Nat /\ t <= ideal[a] /\ t <= Ceiling
  BY <1>1, RefillIs DEF BucketHolds, Least, Account
<1>3. full \in 0 .. Ceiling
  BY <1>1, <1>2
<1>4. charged \in Account /\ BucketHolds(charged, full)
  <2>. HIDE DEF t
  <2>1. charged \in Account
    BY <1>1, <1>2 DEF Account
  <2>2. BucketHolds(charged, full)
    BY <1>1, <1>2 DEF BucketHolds, Least
  <2>. QED BY <2>1, <2>2
<1>5. client' = Noted(a, charged) /\ UNCHANGED dosNow
  BY <1>1, ChargeIs DEF CreateArrives
<1>6. ideal' = [ideal EXCEPT ![a] = full]
  BY DEF CreateArrives, AllowsCircuit, BucketsInv
<1>. HIDE DEF charged, full
<1>. QED BY <1>3, <1>4, <1>5, <1>6, NotedKeeps

\* An address seen now, with n slots.
SeenAt(a, n) == [tokens |-> Stats(a).tokens, refilled |-> Stats(a).refilled,
               conns |-> n, seen |-> dosNow]

\* Being seen, or charged or given back a slot, earns an address nothing.
LEMMA SlotsLeaveBuckets ==
    ASSUME BucketsInv, NEW a \in Addr, NEW n \in Nat, client' = Noted(a, SeenAt(a, n)),
           UNCHANGED <<ideal, dosNow>>
    PROVE  BucketsInv'
<1>1. Stats(a) \in Account /\ BucketHolds(Stats(a), ideal[a]) /\ ideal[a] \in 0 .. Ceiling
      /\ Ceiling \in Nat \ {0} /\ dosNow \in Nat
  BY StatsHold, DosAssumption DEF BucketsInv
<1>2. SeenAt(a, n) \in Account /\ BucketHolds(SeenAt(a, n), ideal[a])
  BY <1>1 DEF Account, BucketHolds, Least, SeenAt
<1>3. ideal' = [ideal EXCEPT ![a] = ideal[a]]
  BY DEF BucketsInv
<1>. QED BY <1>1, <1>2, <1>3, NotedKeeps

LEMMA UntouchedBuckets ==
    ASSUME BucketsInv, UNCHANGED <<client, ideal, dosNow>>
    PROVE  BucketsInv'
BY DEF BucketsInv, BucketHolds, Known

\* A forgotten address was idle for as long as a bucket takes to fill.
LEMMA RefreshKeepsBuckets ==
    ASSUME BucketsInv, RefreshGuard
    PROVE  BucketsInv'
<1>1. /\ Known' = {a \in Known : ~Stale(client[a])} /\ UNCHANGED <<ideal, dosNow>>
      /\ \A a \in Known' : client'[a] = client[a]
      /\ client' \in [Known' -> Account]
  BY DEF RefreshGuard, Known, BucketsInv
<1>2. ASSUME NEW a \in Addr \ Known' PROVE ideal[a] = Ceiling
  <2>1. CASE a \notin Known
    BY <2>1 DEF BucketsInv
  <2>2. CASE a \in Known
    <3>1. /\ dosNow - client[a].seen >= StaleAfter /\ BucketHolds(client[a], ideal[a])
          /\ client[a] \in Account /\ ideal[a] \in 0 .. Ceiling /\ dosNow \in Nat
      BY <1>1, <2>2 DEF Stale, BucketsInv
    <3>. QED BY <3>1, DosAssumption DEF BucketHolds, Account, Least
  <2>. QED BY <2>1, <2>2
<1>. QED BY <1>1, <1>2 DEF BucketsInv, BucketHolds

\* Every bucket gains the token of the tick, unless it is full.
LEMMA TickKeepsBuckets ==
    ASSUME BucketsInv, DosTick
    PROVE  BucketsInv'
<1>1. /\ UNCHANGED client /\ dosNow' = dosNow + 1 /\ dosNow \in Nat
      /\ ideal' = [a \in Addr |-> Least(Ceiling, ideal[a] + 1)]
      /\ Ceiling \in Nat
  BY DosAssumption DEF DosTick, BucketsInv
<1>2. ASSUME NEW a \in Known PROVE BucketHolds(client[a], ideal[a])'
  <2>1. /\ client[a] \in Account /\ a \in Addr /\ ideal[a] \in 0 .. Ceiling
        /\ BucketHolds(client[a], ideal[a])
    BY DEF BucketsInv
  <2>2. ideal'[a] = Least(Ceiling, ideal[a] + 1)
    BY <1>1, <2>1
  <2>. QED BY <1>1, <2>1, <2>2 DEF BucketHolds, Account, Least
<1>3. \A a \in Addr : /\ ideal'[a] \in 0 .. Ceiling
                      /\ ideal[a] = Ceiling => ideal'[a] = Ceiling
  BY <1>1 DEF BucketsInv, Least
<1>. QED BY <1>1, <1>2, <1>3 DEF BucketsInv, Known

-----------------------------------------------------------------------------
(* Slots, and what becomes of the accounts with them. *)

LEMMA SeenIs ==
    ASSUME NEW a \in Addr, Stats(a) \in Account, NEW n
    PROVE  /\ [Stats(a) EXCEPT !.seen = dosNow] = SeenAt(a, Stats(a).conns)
           /\ [[Stats(a) EXCEPT !.seen = dosNow] EXCEPT !.conns = n] = SeenAt(a, n)
           /\ [Stats(a) EXCEPT !.conns = n, !.seen = dosNow] = SeenAt(a, n)
<1>. DEFINE st == Stats(a)
            Rec(c, t) == [tokens |-> st.tokens, refilled |-> st.refilled, conns |-> c, seen |-> t]
<1>. HIDE DEF st
<1>1. st = Rec(st.conns, st.seen)
  BY DEF Account, st
<1>2. /\ [Rec(st.conns, st.seen) EXCEPT !.seen = dosNow] = Rec(st.conns, dosNow)
      /\ [Rec(st.conns, dosNow) EXCEPT !.conns = n] = Rec(n, dosNow)
      /\ [Rec(st.conns, st.seen) EXCEPT !.conns = n] = Rec(n, st.seen)
      /\ [Rec(n, st.seen) EXCEPT !.seen = dosNow] = Rec(n, dosNow)
  OBVIOUS
<1>3. /\ SeenAt(a, st.conns) = Rec(st.conns, dosNow) /\ SeenAt(a, n) = Rec(n, dosNow)
  BY DEF SeenAt, st
<1>. HIDE DEF Rec
<1>4. /\ [st EXCEPT !.seen = dosNow] = SeenAt(a, st.conns)
      /\ [[st EXCEPT !.seen = dosNow] EXCEPT !.conns = n] = SeenAt(a, n)
      /\ [[st EXCEPT !.conns = n] EXCEPT !.seen = dosNow] = SeenAt(a, n)
  BY <1>1, <1>2, <1>3
<1>. QED BY <1>4 DEF st

\* An address that holds a connection more.
LEMMA HeldGrows ==
    ASSUME IsFiniteSet(DOMAIN slot), NEW l, l \notin DOMAIN slot, NEW a,
           slot' = [k \in DOMAIN slot \union {l} |-> IF k = l THEN a ELSE slot[k]]
    PROVE  /\ IsFiniteSet(DOMAIN slot')
           /\ \A b : Cardinality(Held(b)') = IF b = a THEN Cardinality(Held(b)) + 1
                                              ELSE Cardinality(Held(b))
<1>1. IsFiniteSet(DOMAIN slot') /\ \A b : IsFiniteSet(Held(b))
  BY FS_AddElement, FS_Subset DEF Held
<1>2. \A b : Held(b)' = IF b = a THEN Held(b) \union {l} ELSE Held(b)
  BY DEF Held
<1>3. \A b : l \notin Held(b)
  BY DEF Held
<1>. QED BY <1>1, <1>2, <1>3, FS_AddElement

\* One that holds one less.
LEMMA HeldShrinks ==
    ASSUME IsFiniteSet(DOMAIN slot), NEW l \in DOMAIN slot,
           slot' = [k \in DOMAIN slot \ {l} |-> slot[k]]
    PROVE  /\ IsFiniteSet(DOMAIN slot')
           /\ \A b : Cardinality(Held(b)') = IF b = slot[l] THEN Cardinality(Held(b)) - 1
                                              ELSE Cardinality(Held(b))
           /\ \A b : Cardinality(Held(b)) \in Nat /\ Cardinality(Held(b)') \in Nat
<1>1. IsFiniteSet(DOMAIN slot') /\ \A b : IsFiniteSet(Held(b)) /\ IsFiniteSet(Held(b)')
  BY FS_RemoveElement, FS_Subset DEF Held
<1>2. \A b : Held(b)' = IF b = slot[l] THEN Held(b) \ {l} ELSE Held(b)
  BY DEF Held
<1>3. l \in Held(slot[l])
  BY DEF Held
<1>. QED BY <1>1, <1>2, <1>3, FS_RemoveElement, FS_CardinalityType

SlotsTyped == \A l \in DOMAIN slot : slot[l] \in Addr
AccountsInv == BucketsInv /\ SlotsInv /\ SlotsTyped

LEMMA IncomingKeeps ==
    ASSUME AccountsInv, NEW l \in Link, NEW a \in Addr, HandleIncoming(l, a)
    PROVE  AccountsInv'
<1>. USE DEF AccountsInv
<1>1. Stats(a) \in Account /\ dosNow \in Nat /\ \A b \in Known : client[b] \in Account
  BY StatsHold DEF BucketsInv
<1>2. Stats(a).conns \in Nat
  BY <1>1 DEF Account
<1>3. l \notin DOMAIN slot /\ UNCHANGED <<ideal, dosNow>>
  BY DEF HandleIncoming, Used
<1>4. Stats(a).conns <= Cardinality(Held(a)) /\ \A b : Cardinality(Held(b)) \in Nat
  <2>1. \A b : Cardinality(Held(b)) \in Nat
    BY FS_Subset, FS_CardinalityType DEF Held, SlotsInv
  <2>. QED BY <2>1 DEF SlotsInv, NoSlotLeaks, Stats, Fresh
<1>5. CASE UNCHANGED slot /\ client' = Noted(a, SeenAt(a, Stats(a).conns))
  <2>1. BucketsInv'
    BY <1>2, <1>3, <1>5, SlotsLeaveBuckets
  <2>2. NoSlotLeaks'
    BY <1>4, <1>5 DEF SlotsInv, NoSlotLeaks, Noted, Known, Held, SeenAt
  <2>. QED BY <1>5, <2>1, <2>2 DEF SlotsInv, SlotsTyped
<1>6. CASE /\ slot' = [k \in DOMAIN slot \union {l} |-> IF k = l THEN a ELSE slot[k]]
           /\ UNCHANGED client \/ client' = Noted(a, SeenAt(a, Stats(a).conns + 1))
  <2>1. BucketsInv'
    BY <1>2, <1>3, <1>6, SlotsLeaveBuckets, UntouchedBuckets
  <2>2. /\ IsFiniteSet(DOMAIN slot')
        /\ \A b : Cardinality(Held(b)') = IF b = a THEN Cardinality(Held(b)) + 1
                                           ELSE Cardinality(Held(b))
    BY <1>3, <1>6, HeldGrows DEF SlotsInv
  <2>3. \A b \in Known : client[b].conns \in Nat /\ client[b].conns <= Cardinality(Held(b))
    BY <1>1 DEF SlotsInv, NoSlotLeaks, Account
  <2>4. NoSlotLeaks'
    BY <1>2, <1>4, <1>6, <2>2, <2>3 DEF NoSlotLeaks, Noted, Known, SeenAt
  <2>. QED BY <1>6, <2>1, <2>2, <2>4 DEF SlotsInv, SlotsTyped
<1>. DEFINE met == [Stats(a) EXCEPT !.seen = dosNow]
<1>7. met = SeenAt(a, Stats(a).conns) /\ met.conns = Stats(a).conns
  BY <1>1, SeenIs DEF SeenAt
<1>8. [met EXCEPT !.conns = Stats(a).conns + 1] = SeenAt(a, Stats(a).conns + 1)
  BY <1>1, SeenIs
<1>9. \/ UNCHANGED slot /\ client' = Noted(a, met)
      \/ /\ slot' = [k \in DOMAIN slot \union {l} |-> IF k = l THEN a ELSE slot[k]]
         /\ UNCHANGED client \/ client' = Noted(a, [met EXCEPT !.conns = met.conns + 1])
  BY DEF HandleIncoming
<1>. HIDE DEF met
<1>. QED BY <1>5, <1>6, <1>7, <1>8, <1>9

\* A slot given back, with the account of its address if it is still known.
LEMMA ReleaseKeeps ==
    ASSUME AccountsInv, NEW l \in DOMAIN slot, client' = Released(l),
           slot' = [k \in DOMAIN slot \ {l} |-> slot[k]], UNCHANGED <<ideal, dosNow>>
    PROVE  AccountsInv'
<1>. USE DEF AccountsInv
<1>. DEFINE a == slot[l]
            n == IF Stats(a).conns > 0 THEN Stats(a).conns - 1 ELSE 0
<1>1. a \in Addr /\ Stats(a) \in Account
  BY StatsHold DEF SlotsTyped
<1>2. n \in Nat /\ Stats(a).conns \in Nat
  BY <1>1 DEF Account
<1>3. \/ UNCHANGED client /\ a \notin Known
      \/ client' = Noted(a, SeenAt(a, n)) /\ a \in Known
  BY <1>1, SeenIs DEF Released, Stats
<1>4. BucketsInv'
  BY <1>1, <1>2, <1>3, SlotsLeaveBuckets, UntouchedBuckets
<1>5. /\ IsFiniteSet(DOMAIN slot')
      /\ \A b : Cardinality(Held(b)') = IF b = a THEN Cardinality(Held(b)) - 1
                                         ELSE Cardinality(Held(b))
      /\ \A b : Cardinality(Held(b)) \in Nat /\ Cardinality(Held(b)') \in Nat
  BY HeldShrinks DEF SlotsInv
<1>6. \A b \in Known : client[b].conns <= Cardinality(Held(b))
  BY DEF SlotsInv, NoSlotLeaks
<1>7. a \in Known => Stats(a).conns <= Cardinality(Held(a))
  BY <1>6 DEF Stats
<1>8. NoSlotLeaks'
  <2>. SUFFICES ASSUME NEW b \in Known' PROVE client'[b].conns <= Cardinality(Held(b)')
    BY DEF NoSlotLeaks
  <2>1. CASE b = a
    <3>1. a \in Known /\ client'[a].conns = n
      BY <1>3, <2>1 DEF Noted, SeenAt, Known
    <3>. QED BY <1>2, <1>5, <1>7, <2>1, <3>1
  <2>2. CASE b # a
    <3>1. b \in Known /\ client'[b] = client[b]
      BY <1>3, <2>2 DEF Noted, Known
    <3>. QED BY <1>5, <1>6, <2>2, <3>1
  <2>. QED BY <2>1, <2>2
<1>. QED BY <1>4, <1>5, <1>8 DEF SlotsInv, SlotsTyped

\* Steps that leave the slots and charge no connection.
LEMMA SlotsUntouched ==
    ASSUME SlotsInv, SlotsTyped, UNCHANGED slot, BucketsInv',
           \A a \in Known' : \/ a \in Known /\ client'[a].conns = client[a].conns
                             \/ client'[a].conns = 0
    PROVE  AccountsInv'
<1>1. \A a : Cardinality(Held(a)) \in Nat
  BY FS_Subset, FS_CardinalityType DEF Held, SlotsInv
<1>2. \A a : Held(a)' = Held(a)
  BY DEF Held
<1>3. NoSlotLeaks'
  BY <1>1, <1>2 DEF SlotsInv, NoSlotLeaks
<1>. QED BY <1>3 DEF AccountsInv, SlotsInv, SlotsTyped

-----------------------------------------------------------------------------
(***************************************************************************)
(* Whatever is exempted, evicted or forgotten (dos.rs, ConnSlot), an       *)
(* address is charged for no connection whose handshake is over, and has   *)
(* no more tokens than one that was never forgotten.                       *)
(***************************************************************************)
THEOREM AccountsAlwaysHold == DosSpec => []AccountsHold
<1>1. DosInit => AccountsInv
  <2>. SUFFICES ASSUME DosInit PROVE AccountsInv
    OBVIOUS
  <2>1. BucketsInv
    BY DosAssumption DEF DosInit, BucketsInv, Known
  <2>2. SlotsInv /\ SlotsTyped
    BY FS_EmptySet DEF DosInit, SlotsInv, SlotsTyped, NoSlotLeaks, Known
  <2>. QED BY <2>1, <2>2 DEF AccountsInv
<1>2. AccountsInv /\ [DosNext]_dosVars => AccountsInv'
  <2>. SUFFICES ASSUME AccountsInv, [DosNext]_dosVars PROVE AccountsInv'
    OBVIOUS
  <2>. USE DEF AccountsInv
  <2>1. ASSUME NEW a \in Addr, CreateArrives(a) PROVE AccountsInv'
    <3>1. BucketsInv' /\ UNCHANGED slot
      BY <2>1, CreateKeepsBuckets DEF CreateArrives
    <3>2. Stats(a) \in Account /\ dosNow \in Nat
      BY StatsHold DEF BucketsInv
    <3>3. Charged(a).conns = Stats(a).conns
      BY <3>2, ChargeIs
    <3>4. \A b \in Known' : \/ b \in Known /\ client'[b].conns = client[b].conns
                            \/ client'[b].conns = 0
      BY <2>1, <3>3 DEF CreateArrives, Noted, Stats, Fresh, Known
    <3>. QED BY <3>1, <3>4, SlotsUntouched
  <2>2. ASSUME NEW l \in Link, NEW a \in Addr, HandleIncoming(l, a) PROVE AccountsInv'
    BY <2>2, IncomingKeeps
  <2>3. ASSUME NEW l \in Link, HandshakeFails(l) \/ Registers(l) PROVE AccountsInv'
    BY <2>3, ReleaseKeeps DEF HandshakeFails, Registers
  <2>4. ASSUME NEW l \in Link, LinkEnds(l) PROVE AccountsInv'
    BY <2>4, UntouchedBuckets, SlotsUntouched DEF LinkEnds, Known
  <2>5. CASE RefreshGuard
    BY <2>5, RefreshKeepsBuckets, SlotsUntouched DEF RefreshGuard, Known
  <2>6. CASE DosTick
    BY <2>6, TickKeepsBuckets, SlotsUntouched DEF DosTick, Known
  <2>7. CASE UNCHANGED dosVars
    BY <2>7, UntouchedBuckets, SlotsUntouched DEF dosVars, Known
  <2>. QED BY <2>1, <2>2, <2>3, <2>4, <2>5, <2>6, <2>7 DEF DosNext
<1>3. AccountsInv => AccountsHold
  <2>. SUFFICES ASSUME AccountsInv PROVE ForgettingEarnsNothing
    BY DEF AccountsHold, AccountsInv, SlotsInv
  <2>1. ASSUME NEW a \in Addr PROVE Refilled(Stats(a)).tokens <= ideal[a]
    BY StatsHold, RefillIs DEF AccountsInv, BucketHolds
  <2>. QED BY <2>1 DEF ForgettingEarnsNothing
<1>. QED BY <1>1, <1>2, <1>3, PTL DEF DosSpec

-----------------------------------------------------------------------------
(* The circuit pool. *)

\* The circuits of the pool, and what the ids of some of them are.
Pooled == [cid : PoolCids, stale : BOOLEAN]

Distinct(pool) == \A i, j \in DOMAIN pool : pool[i].cid = pool[j].cid => i = j
StaleCids(pool) == {pool[i].cid : i \in {j \in DOMAIN pool : IsStale(pool[j])}}

\* Where the loop and each fetch are, and what they then hold.
PoolShape ==
  /\ loop = "building" <=> build[Loop] # NoFetch
  /\ doomed # {} => loop \in {"retiring", "closing"}
  /\ loop \in {"closing", "gone"} => ready = <<>>
  /\ \A f \in Fetches : /\ fetch[f] = "building" <=> build[f] # NoFetch
                        /\ rp[f] # NoFetch => fetch[f] = "using"

\* Who may hold a circuit, the ids not handed out yet being nobody's.
PoolOwned ==
  /\ Distinct(ready)
  /\ CidsOf(ready) \cap doomed = {}
  /\ \A f \in Fetches : rp[f] # NoFetch =>
       /\ rp[f] \notin CidsOf(ready) \cup doomed
       /\ \A g \in Fetches \ {f} : rp[g] # rp[f]
       /\ \A b \in Builders : build[b] # rp[f]
  /\ \A b \in Builders : build[b] # NoFetch =>
       /\ build[b] \notin CidsOf(ready) \cup doomed
       /\ \A d \in Builders \ {b} : build[d] # build[b]
  /\ \A c \in unusedIds :
       /\ c \notin CidsOf(ready) \cup doomed \cup warmed
       /\ \A b \in Builders : build[b] # c
       /\ \A f \in Fetches : rp[f] # c
  /\ warmed \cap standing \subseteq CidsOf(ready) \cup doomed

(***************************************************************************)
(* Why nothing leaks and nothing is shared: wherever the loop and the      *)
(* fetches are, each circuit id has one holder, among the pool, the        *)
(* circuits being torn down, the builds and the fetches; and an id not yet *)
(* handed out has none. After a new identity no more is claimed: the pool  *)
(* and the circuits of the fetches then go at once.                        *)
(***************************************************************************)
PoolInv == PoolTypeOK /\ PoolShape /\ PoolWithinTarget /\ (~ renewed => PoolOwned)

\* The ids of a pool are ids of circuits.
LEMMA CidsArePool ==
  ASSUME NEW pool \in Seq(Pooled)
  PROVE  CidsOf(pool) \subseteq PoolCids
<1>1. \A i \in DOMAIN pool : pool[i] \in Pooled
  OBVIOUS
<1>2. QED BY <1>1 DEF CidsOf, Pooled

\* drain_stale splits the pool: what it keeps and what it hands to the loop to close are
\* together what there was, and no circuit is in both.
LEMMA DrainSplits ==
  ASSUME NEW pool \in Seq(Pooled)
  PROVE  /\ Kept(pool) \in Seq(Pooled) /\ Len(Kept(pool)) <= Len(pool)
         /\ CidsOf(Kept(pool)) \cup StaleCids(pool) = CidsOf(pool)
         /\ Distinct(pool) => /\ Distinct(Kept(pool))
                              /\ CidsOf(Kept(pool)) \cap StaleCids(pool) = {}
<1> DEFINE K == Kept(pool)
           I == {i \in DOMAIN pool : IsFresh(pool[i])}
<1>0. Taken(Pooled, pool, I, Len(pool), K) /\ DOMAIN pool = 1 .. Len(pool)
  BY SeqAtIsTaken DEF Kept
<1>1. /\ K \in Seq(Pooled) /\ Len(K) <= Len(pool) /\ DOMAIN K = 1 .. Len(K)
      /\ DOMAIN pool = 1 .. Len(pool)
  BY <1>0 DEF Taken
<1>2. PICK h \in [1 .. Len(K) -> 1 .. Len(pool)] :
        /\ \A i, j \in 1 .. Len(K) : i < j => h[i] < h[j]
        /\ \A i \in 1 .. Len(K) : K[i] = pool[h[i]] /\ IsFresh(K[i])
        /\ \A k \in 1 .. Len(pool) : IsFresh(pool[k]) => \E i \in 1 .. Len(K) : h[i] = k
  <2> HIDE DEF K
  <2>1. PICK h \in [1 .. Len(K) -> 1 .. Len(pool)] :
          /\ \A i, j \in 1 .. Len(K) : i < j => h[i] < h[j]
          /\ \A i \in 1 .. Len(K) : K[i] = pool[h[i]] /\ h[i] \in I
          /\ \A k \in 1 .. Len(pool) : k \in I => \E i \in 1 .. Len(K) : h[i] = k
    BY <1>0 DEF Taken
  <2> QED BY <2>1, <1>0
<1> HIDE DEF K
<1>3. CidsOf(K) \cup StaleCids(pool) \subseteq CidsOf(pool)
  BY <1>1, <1>2 DEF CidsOf, StaleCids
<1>4. ASSUME NEW k \in 1 .. Len(pool) PROVE pool[k].cid \in CidsOf(K) \cup StaleCids(pool)
  <2>1. CASE IsFresh(pool[k])
    <3>1. PICK i \in 1 .. Len(K) : h[i] = k
      BY <2>1, <1>2
    <3>2. K[i].cid = pool[k].cid
      BY <3>1, <1>2
    <3>3. QED BY <3>2, <1>1 DEF CidsOf
  <2>2. CASE ~ IsFresh(pool[k])
    BY <2>2, <1>1 DEF IsFresh, IsStale, StaleCids
  <2> QED BY <2>1, <2>2
<1>5. ASSUME Distinct(pool) PROVE Distinct(K) /\ CidsOf(K) \cap StaleCids(pool) = {}
  <2>1. ASSUME NEW i \in 1 .. Len(K), NEW j \in 1 .. Len(K), K[i].cid = K[j].cid PROVE i = j
    <3>0. K[i] = pool[h[i]] /\ K[j] = pool[h[j]] /\ h[i] \in DOMAIN pool /\ h[j] \in DOMAIN pool
      BY <1>1, <1>2
    <3>1. h[i] = h[j]
      BY <2>1, <3>0, <1>5 DEF Distinct
    <3>2. Len(K) \in Nat /\ h[i] \in 1 .. Len(pool) /\ h[j] \in 1 .. Len(pool)
      BY <1>1, <1>2
    <3>3. ~ (i < j) /\ ~ (j < i)
      BY <1>2, <3>1, <3>2
    <3>4. QED BY <3>2, <3>3
  <2>2. ASSUME NEW i \in 1 .. Len(K), NEW k \in 1 .. Len(pool), IsStale(pool[k])
        PROVE K[i].cid # pool[k].cid
    <3>0. K[i] = pool[h[i]] /\ h[i] \in DOMAIN pool /\ k \in DOMAIN pool
      BY <1>1, <1>2
    <3>1. K[i].cid = pool[k].cid => h[i] = k
      BY <3>0, <1>5 DEF Distinct
    <3>2. K[i] = pool[h[i]] /\ IsFresh(K[i])
      BY <1>2
    <3>3. ~ IsFresh(pool[k])
      BY <2>2 DEF IsFresh, IsStale
    <3>4. QED BY <3>1, <3>2, <3>3
  <2>3. Distinct(K)
    BY <2>1, <1>1 DEF Distinct
  <2>4. QED BY <2>2, <2>3, <1>1 DEF CidsOf, StaleCids
<1>6. CidsOf(pool) \subseteq CidsOf(K) \cup StaleCids(pool)
  BY <1>4, <1>1 DEF CidsOf
<1>7. QED BY <1>1, <1>3, <1>5, <1>6 DEF K

\* A circuit taken out of the middle of the pool.
LEMMA TakeOne ==
  ASSUME NEW pool \in Seq(Pooled), NEW i \in DOMAIN pool
  PROVE  /\ RemoveAt(pool, i) \in Seq(Pooled) /\ Len(RemoveAt(pool, i)) = Len(pool) - 1
         /\ CidsOf(RemoveAt(pool, i)) \subseteq CidsOf(pool)
         /\ CidsOf(pool) \subseteq CidsOf(RemoveAt(pool, i)) \cup {pool[i].cid}
         /\ Distinct(pool) => /\ Distinct(RemoveAt(pool, i))
                              /\ pool[i].cid \notin CidsOf(RemoveAt(pool, i))
<1> DEFINE R == RemoveAt(pool, i)
<1>1. i \in 1 .. Len(pool) /\ Len(pool) \in Nat /\ DOMAIN pool = 1 .. Len(pool)
  OBVIOUS
<1>2. R \in Seq(Pooled) /\ Len(R) = Len(pool) - 1
  BY <1>1 DEF RemoveAt
<1>3. \A j \in 1 .. Len(R) : R[j] = IF j < i THEN pool[j] ELSE pool[j + 1]
  <2> DEFINE A == SubSeq(pool, 1, i - 1)
             B == SubSeq(pool, i + 1, Len(pool))
  <2>1. /\ A \in Seq(Pooled) /\ Len(A) = i - 1 /\ \A j \in 1 .. i - 1 : A[j] = pool[j]
        /\ B \in Seq(Pooled) /\ Len(B) = Len(pool) - i /\ \A j \in 1 .. Len(pool) - i : B[j] = pool[i + j]
    <3>1. A \in Seq(Pooled) /\ Len(A) = i - 1
      BY <1>1
    <3>2. \A j \in 1 .. i - 1 : A[j] = pool[j]
      BY <1>1
    <3>3. B \in Seq(Pooled) /\ Len(B) = Len(pool) - i
      BY <1>1
    <3>4. \A j \in 1 .. Len(pool) - i : B[j] = pool[i + j]
      BY <1>1
    <3> QED BY <3>1, <3>2, <3>3, <3>4
  <2> HIDE DEF A, B
  <2>2. R = A \o B
    BY DEF RemoveAt, A, B
  <2> HIDE DEF R
  <2> SUFFICES ASSUME NEW j \in 1 .. Len(R) PROVE R[j] = IF j < i THEN pool[j] ELSE pool[j + 1]
    OBVIOUS
  <2>3. CASE j < i
    <3>1. j \in 1 .. i - 1
      <4>1. j \in Nat /\ j >= 1 /\ i \in Nat
        BY <1>1, <1>2
      <4>2. QED BY ONLY <2>3, <4>1
    <3>2. R[j] = A[j]
      BY <2>1, <2>2, <3>1
    <3>3. QED BY <2>1, <2>3, <3>1, <3>2
  <2>4. CASE ~ (j < i)
    <3>. DEFINE d == j - (i - 1)
    <3>1. d \in 1 .. Len(pool) - i /\ i + d = j + 1
      <4>1. j \in Nat /\ j <= Len(pool) - 1 /\ i \in Nat /\ Len(pool) \in Nat
        BY <1>1, <1>2
      <4>2. QED BY ONLY <2>4, <4>1
    <3>2. R[j] = B[d]
      <4>1. j \in 1 .. Len(A) + Len(B) /\ ~ (j <= Len(A)) /\ j - Len(A) = d
        BY <1>1, <1>2, <2>1, <2>4
      <4>2. A \in Seq(Pooled) /\ B \in Seq(Pooled) /\ j \in 1 .. Len(A) + Len(B)
        BY <2>1, <4>1
      <4>3. (A \o B)[j] = B[j - Len(A)]
        BY ONLY <4>1, <4>2
      <4>4. QED BY <2>2, <4>1, <4>3
    <3>. HIDE DEF d
    <3>3. B[d] = pool[i + d]
      BY <2>1, <3>1
    <3>4. QED BY <2>4, <3>1, <3>2, <3>3
  <2> QED BY <2>3, <2>4
<1>4. DOMAIN R = 1 .. Len(R) /\ Len(R) \in Nat
  BY <1>2
<1> HIDE DEF R
<1>5. CidsOf(R) \subseteq CidsOf(pool)
  <2>1. \A j \in DOMAIN R : \E k \in DOMAIN pool : R[j].cid = pool[k].cid
    <3> SUFFICES ASSUME NEW j \in 1 .. Len(R) PROVE \E k \in DOMAIN pool : R[j].cid = pool[k].cid
      BY <1>4
    <3>1. j \in DOMAIN pool /\ j + 1 \in DOMAIN pool /\ R[j] \in {pool[j], pool[j + 1]}
      BY <1>1, <1>2, <1>3
    <3>2. QED BY <3>1
  <2>2. QED BY <2>1 DEF CidsOf
<1>6. ASSUME NEW k \in 1 .. Len(pool), k # i PROVE pool[k].cid \in CidsOf(R)
  <2>1. CASE k < i
    <3>1. k \in DOMAIN R /\ R[k] = pool[k]
      BY <2>1, <1>1, <1>2, <1>3, <1>4
    <3>2. QED BY <3>1 DEF CidsOf
  <2>2. CASE k > i
    <3>1. k - 1 \in DOMAIN R /\ R[k - 1] = pool[k]
      BY <2>2, <1>1, <1>2, <1>3, <1>4
    <3>2. QED BY <3>1 DEF CidsOf
  <2> QED BY <2>1, <2>2, <1>1, <1>6
<1>7. CidsOf(pool) \subseteq CidsOf(R) \cup {pool[i].cid}
  BY <1>1, <1>6 DEF CidsOf
<1>8. ASSUME Distinct(pool) PROVE Distinct(R) /\ pool[i].cid \notin CidsOf(R)
  <2>1. ASSUME NEW j \in 1 .. Len(R) PROVE pool[i].cid # R[j].cid
    BY <1>1, <1>2, <1>3, <1>8 DEF Distinct
  <2>2. ASSUME NEW j \in 1 .. Len(R), NEW k \in 1 .. Len(R), R[j].cid = R[k].cid PROVE j = k
    <3> DEFINE at(n) == IF n < i THEN n ELSE n + 1
    <3>1. at(j) \in 1 .. Len(pool) /\ at(k) \in 1 .. Len(pool) /\ (at(j) = at(k) => j = k)
      BY <1>1, <1>2
    <3>2. R[j] = pool[at(j)] /\ R[k] = pool[at(k)]
      BY <1>3
    <3> HIDE DEF at
    <3>3. QED BY <2>2, <3>1, <3>2, <1>1, <1>8 DEF Distinct
  <2>3. QED BY <2>1, <2>2, <1>4 DEF Distinct, CidsOf
<1>9. QED BY <1>2, <1>5, <1>7, <1>8 DEF R

\* The circuit just built joins at the end.
LEMMA PushOne ==
  ASSUME NEW pool \in Seq(Pooled), NEW c \in PoolCids
  PROVE  LET more == Append(pool, [cid |-> c, stale |-> FALSE]) IN
         /\ more \in Seq(Pooled) /\ Len(more) = Len(pool) + 1
         /\ CidsOf(more) = CidsOf(pool) \cup {c}
         /\ Distinct(pool) /\ c \notin CidsOf(pool) => Distinct(more)
<1> DEFINE x == [cid |-> c, stale |-> FALSE]
           more == Append(pool, x)
<1>1. x \in Pooled /\ x.cid = c
  BY DEF Pooled
<1> HIDE DEF x
<1>2. more \in Seq(Pooled) /\ Len(more) = Len(pool) + 1 /\ DOMAIN more = 1 .. Len(pool) + 1
      /\ DOMAIN pool = 1 .. Len(pool) /\ Len(pool) \in Nat
  BY <1>1
<1>3. more[Len(pool) + 1] = x /\ \A i \in 1 .. Len(pool) : more[i] = pool[i]
  BY <1>1
<1> HIDE DEF more
<1>4. CidsOf(more) = CidsOf(pool) \cup {c}
  BY <1>1, <1>2, <1>3 DEF CidsOf
<1>5. ASSUME Distinct(pool), c \notin CidsOf(pool) PROVE Distinct(more)
  BY <1>1, <1>2, <1>3, <1>5 DEF Distinct, CidsOf
<1>6. QED BY <1>2, <1>4, <1>5 DEF more, x

\* Turning stale changes no circuit.
LEMMA AgeSome ==
  ASSUME NEW pool \in Seq(Pooled), NEW i \in Nat
  PROVE  LET aged == [j \in DOMAIN pool |-> [pool[j] EXCEPT !.stale = @ \/ j <= i]] IN
         /\ aged \in Seq(Pooled) /\ Len(aged) = Len(pool)
         /\ CidsOf(aged) = CidsOf(pool) /\ (Distinct(pool) => Distinct(aged))
<1> DEFINE aged == [j \in DOMAIN pool |-> [pool[j] EXCEPT !.stale = @ \/ j <= i]]
<1>1. DOMAIN pool = 1 .. Len(pool) /\ DOMAIN aged = 1 .. Len(pool) /\ Len(pool) \in Nat
  OBVIOUS
<1>2. \A j \in 1 .. Len(pool) : aged[j] \in Pooled /\ aged[j].cid = pool[j].cid
  <2> SUFFICES ASSUME NEW j \in 1 .. Len(pool) PROVE aged[j] \in Pooled /\ aged[j].cid = pool[j].cid
    OBVIOUS
  <2>0. pool[j] \in Pooled
    OBVIOUS
  <2>1. pool[j] \in [cid : PoolCids, stale : BOOLEAN]
    BY <2>0 DEF Pooled
  <2>2. aged[j] = [pool[j] EXCEPT !.stale = @ \/ j <= i]
    OBVIOUS
  <2>3. (pool[j].stale \/ j <= i) \in BOOLEAN
    OBVIOUS
  <2>4. QED BY <2>1, <2>2, <2>3 DEF Pooled
<1>3. aged \in [1 .. Len(pool) -> Pooled]
  <2> HIDE DEF Pooled
  <2>1. aged = [j \in 1 .. Len(pool) |-> aged[j]]
    BY <1>1
  <2>2. QED BY <1>2, <2>1, Zenon
<1> HIDE DEF aged
<1>3a. aged \in Seq(Pooled) /\ Len(aged) = Len(pool)
  BY <1>1, <1>3
<1>4. CidsOf(aged) = CidsOf(pool) /\ (Distinct(pool) => Distinct(aged))
  BY <1>1, <1>2 DEF CidsOf, Distinct
<1>5. QED BY <1>3a, <1>4 DEF aged

\* The invariant holds at the start, and each step of the loop and of a fetch keeps it.
LEMMA PoolInitially == PoolInit => PoolInv
<1> SUFFICES ASSUME PoolInit PROVE PoolInv
  OBVIOUS
<1>1. PoolTypeOK
  <2>1. <<>> \in Seq([cid : PoolCids, stale : BOOLEAN])
    OBVIOUS
  <2>2. QED BY <2>1 DEF PoolInit, PoolTypeOK
<1>2. PoolShape
  BY DEF PoolInit, PoolShape, Builders
<1>3. PoolWithinTarget
  BY PoolAssumption DEF PoolInit, PoolWithinTarget
<1>4. PoolOwned
  BY PoolAssumption DEF PoolInit, PoolOwned, Distinct, CidsOf
<1>5. QED BY <1>1, <1>2, <1>3, <1>4 DEF PoolInv

LEMMA WakesKeepsInv == PoolInv /\ LoopWakes => PoolInv'
<1> SUFFICES ASSUME PoolInv, LoopWakes PROVE PoolInv'
  OBVIOUS
<1> USE DEF PoolInv, LoopWakes, nodeVars, fetchVars
<1>1. ready \in Seq(Pooled) /\ doomed = {} /\ loop # "building" /\ loop # "gone"
  BY DEF PoolTypeOK, PoolShape, Pooled
<1>2. CASE shutdown
  <2>1. PoolTypeOK'
    BY <1>2 DEF PoolTypeOK
  <2>2. PoolShape' /\ PoolWithinTarget'
    BY <1>1, <1>2 DEF PoolShape, PoolWithinTarget
  <2>3. ~ renewed => PoolOwned'
    BY <1>2 DEF PoolOwned
  <2>4. QED BY <2>1, <2>2, <2>3
<1>3. CASE ~ shutdown
  <2>1. ready' = Kept(ready) /\ doomed' = StaleCids(ready) /\ loop' = "retiring"
    BY <1>3 DEF StaleCids
  <2>2. /\ ready' \in Seq(Pooled) /\ Len(ready') <= Len(ready)
        /\ CidsOf(ready') \cup doomed' = CidsOf(ready)
        /\ Distinct(ready) => Distinct(ready') /\ CidsOf(ready') \cap doomed' = {}
    BY <1>1, <2>1, DrainSplits
  <2>3. doomed' \subseteq PoolCids
    BY <1>1, <2>2, CidsArePool
  <2>4. PoolTypeOK'
    BY <2>1, <2>2, <2>3 DEF PoolTypeOK, Pooled
  <2>5. PoolShape'
    BY <1>1, <2>1 DEF PoolShape
  <2>6. PoolWithinTarget'
    BY <1>1, <2>1, <2>2, PoolAssumption DEF PoolWithinTarget
  <2>7. ASSUME ~ renewed PROVE PoolOwned'
    BY <1>1, <2>2, <2>7 DEF PoolOwned
  <2>8. QED BY <2>4, <2>5, <2>6, <2>7
<1> QED BY <1>2, <1>3

LEMMA DestroysKeepsInv ==
  ASSUME PoolInv, NEW c, LoopDestroys(c) PROVE PoolInv'
<1> USE DEF PoolInv, LoopDestroys, poolVars, fetchVars, nodeVars
<1>a. PoolTypeOK'
  BY DEF PoolTypeOK
<1>b. PoolShape'
  BY DEF PoolShape
<1>c. PoolWithinTarget'
  BY DEF PoolWithinTarget
<1>d. ASSUME ~ renewed' PROVE PoolOwned'
  BY <1>d DEF PoolOwned
<1>e. QED BY <1>a, <1>b, <1>c, <1>d

LEMMA DestroyedKeepsInv ==
  ASSUME PoolInv, LoopDestroyed PROVE PoolInv'
<1> USE DEF PoolInv, LoopDestroyed, poolVars, fetchVars, nodeVars
<1>a. PoolTypeOK'
  BY DEF PoolTypeOK
<1>b. PoolShape'
  BY DEF PoolShape
<1>c. PoolWithinTarget'
  BY DEF PoolWithinTarget
<1>d. ASSUME ~ renewed' PROVE PoolOwned'
  BY <1>d DEF PoolOwned
<1>e. QED BY <1>a, <1>b, <1>c, <1>d

LEMMA CannotBuildKeepsInv ==
  ASSUME PoolInv, LoopCannotBuild PROVE PoolInv'
<1> USE DEF PoolInv, LoopCannotBuild, poolVars, fetchVars, nodeVars
<1>a. PoolTypeOK'
  BY DEF PoolTypeOK
<1>b. PoolShape'
  BY DEF PoolShape
<1>c. PoolWithinTarget'
  BY DEF PoolWithinTarget
<1>d. ASSUME ~ renewed' PROVE PoolOwned'
  BY <1>d DEF PoolOwned
<1>e. QED BY <1>a, <1>b, <1>c, <1>d

LEMMA RestsKeepsInv ==
  ASSUME PoolInv, LoopRests PROVE PoolInv'
<1> USE DEF PoolInv, LoopRests, poolVars, fetchVars, nodeVars
<1>a. PoolTypeOK'
  BY DEF PoolTypeOK
<1>b. PoolShape'
  BY DEF PoolShape
<1>c. PoolWithinTarget'
  BY DEF PoolWithinTarget
<1>d. ASSUME ~ renewed' PROVE PoolOwned'
  BY <1>d DEF PoolOwned
<1>e. QED BY <1>a, <1>b, <1>c, <1>d

LEMMA BuildsKeepsInv ==
  ASSUME PoolInv, LoopBuilds PROVE PoolInv'
<1> USE DEF PoolInv, LoopBuilds, Start, poolVars, fetchVars, nodeVars
<1>1. PICK c \in unusedIds :
        /\ build' = [build EXCEPT ![Loop] = c] /\ standing' = standing \cup {c}
        /\ unusedIds' = {d \in unusedIds : d > c}
  OBVIOUS
<1>2. /\ c \in PoolCids /\ c # NoFetch /\ c \in Nat /\ c \notin unusedIds' /\ unusedIds' \subseteq unusedIds
      /\ Loop \in Builders /\ \A f \in Fetches : f # Loop /\ f \in Builders
  BY <1>1, PoolAssumption, LoopAssumption DEF PoolTypeOK, Builders
<1>a. PoolTypeOK'
  BY <1>1, <1>2 DEF PoolTypeOK
<1>b. PoolShape'
  BY <1>1, <1>2 DEF PoolShape, PoolTypeOK
<1>c. PoolWithinTarget'
  <2>1. Len(ready) < PoolTarget /\ Len(ready) \in Nat
    BY DEF WantsMore, PoolTypeOK
  <2>2. QED BY <2>1, PoolAssumption DEF PoolWithinTarget
<1>d. ASSUME ~ renewed' PROVE PoolOwned'
  BY <1>1, <1>2, <1>d DEF PoolOwned, PoolTypeOK
<1>e. QED BY <1>a, <1>b, <1>c, <1>d

LEMMA BuiltKeepsInv ==
  ASSUME PoolInv, LoopBuilt PROVE PoolInv'
<1> USE DEF PoolInv, LoopBuilt, poolVars, fetchVars, nodeVars
<1>1. /\ build' = [build EXCEPT ![Loop] = NoFetch] /\ Loop \in Builders
      /\ \A f \in Fetches : f # Loop /\ f \in Builders
  BY LoopAssumption DEF Builders
<1>2. build[Loop] # NoFetch /\ build[Loop] \in PoolCids /\ ready \in Seq(Pooled)
  BY <1>1, PoolAssumption DEF PoolShape, PoolTypeOK, Pooled
<1>3. /\ ready' \in Seq(Pooled) /\ Len(ready') = Len(ready) + 1
      /\ CidsOf(ready') = CidsOf(ready) \cup {build[Loop]}
      /\ Distinct(ready) /\ build[Loop] \notin CidsOf(ready) => Distinct(ready')
  BY <1>2, PushOne
<1>a. PoolTypeOK'
  BY <1>1, <1>2, <1>3 DEF PoolTypeOK, Pooled
<1>b. PoolShape'
  BY <1>1 DEF PoolShape, PoolTypeOK
<1>c. PoolWithinTarget'
  <2>1. Len(ready) \in Nat
    BY <1>2
  <2>2. QED BY <2>1, <1>3, PoolAssumption DEF PoolWithinTarget
<1>d. ASSUME ~ renewed' PROVE PoolOwned'
  <2>1. PoolOwned /\ Distinct(ready')
    BY <1>1, <1>2, <1>3, <1>d DEF PoolOwned
  <2> DEFINE c == build[Loop]
  <2>2. /\ c \notin CidsOf(ready) \cup doomed /\ c \notin unusedIds
        /\ \A f \in Fetches : rp[f] # c
        /\ \A d \in Builders \ {Loop} : build[d] # c
    BY <1>1, <1>2, <2>1 DEF PoolOwned
  <2>3. \A b \in Builders : build'[b] # NoFetch => b # Loop /\ build'[b] = build[b]
    BY <1>1 DEF PoolTypeOK
  <2>4. CidsOf(ready') = CidsOf(ready) \cup {c} /\ warmed' = warmed \cup {c} /\ c \in PoolCids
    BY <1>2, <1>3
  <2>5. \A d \in unusedIds : \A b \in Builders : build'[b] # d
    BY <1>1, <2>1, PoolAssumption DEF PoolOwned, PoolTypeOK
  <2> HIDE DEF c
  <2>6. CidsOf(ready') \cap doomed' = {} /\ warmed' \cap standing' \subseteq CidsOf(ready') \cup doomed'
    <3>1. doomed' = doomed /\ standing' = standing
      OBVIOUS
    <3>2. CidsOf(ready) \cap doomed = {} /\ warmed \cap standing \subseteq CidsOf(ready) \cup doomed
      BY <2>1 DEF PoolOwned
    <3>3. QED BY <2>2, <2>4, <3>1, <3>2, Zenon
  <2>7. \A f \in Fetches : rp'[f] # NoFetch =>
          /\ rp'[f] \notin CidsOf(ready') \cup doomed'
          /\ \A g \in Fetches \ {f} : rp'[g] # rp'[f]
          /\ \A b \in Builders : build'[b] # rp'[f]
    <3> SUFFICES ASSUME NEW f \in Fetches, rp[f] # NoFetch
                 PROVE  /\ rp[f] \notin CidsOf(ready') \cup doomed
                        /\ \A g \in Fetches \ {f} : rp[g] # rp[f]
                        /\ \A b \in Builders : build'[b] # rp[f]
      OBVIOUS
    <3>1. /\ rp[f] \notin CidsOf(ready) \cup doomed
          /\ \A g \in Fetches \ {f} : rp[g] # rp[f]
          /\ \A b \in Builders : build[b] # rp[f]
      BY <2>1 DEF PoolOwned
    <3>2. rp[f] \notin CidsOf(ready') \cup doomed
      BY <3>1, <2>2, <2>4
    <3>3. \A b \in Builders : build'[b] # rp[f]
      BY <3>1, <2>3
    <3> QED BY <3>1, <3>2, <3>3
  <2>8. \A b \in Builders : build'[b] # NoFetch =>
          /\ build'[b] \notin CidsOf(ready') \cup doomed'
          /\ \A d \in Builders \ {b} : build'[d] # build'[b]
    <3> SUFFICES ASSUME NEW b \in Builders, build'[b] # NoFetch
                 PROVE  /\ build'[b] \notin CidsOf(ready') \cup doomed'
                        /\ \A d \in Builders \ {b} : build'[d] # build'[b]
      OBVIOUS
    <3>1. b # Loop /\ build'[b] = build[b] /\ build[b] # c
      BY <2>2, <2>3
    <3>2. build[b] \notin CidsOf(ready) \cup doomed /\ \A d \in Builders \ {b} : build[d] # build[b]
      BY <2>1, <3>1 DEF PoolOwned
    <3>3. \A d \in Builders : build'[d] = build[d] \/ build'[d] = NoFetch
      BY <1>1 DEF PoolTypeOK
    <3>4. doomed' = doomed
      OBVIOUS
    <3>5. build'[b] \notin CidsOf(ready') \cup doomed'
      BY <2>4, <3>1, <3>2, <3>4, Zenon
    <3>6. \A d \in Builders \ {b} : build'[d] # build'[b]
      BY <3>1, <3>2, <3>3, Zenon
    <3>7. QED BY <3>5, <3>6
  <2>9. \A d \in unusedIds' : d \notin CidsOf(ready') \cup doomed' \cup warmed' /\ \A f \in Fetches : rp'[f] # d
    BY <2>1, <2>2, <2>4 DEF PoolOwned
  <2>10. QED BY <2>1, <2>5, <2>6, <2>7, <2>8, <2>9 DEF PoolOwned
<1>e. QED BY <1>a, <1>b, <1>c, <1>d

LEMMA TimesOutKeepsInv ==
  ASSUME PoolInv, LoopTimesOut PROVE PoolInv'
<1> USE DEF PoolInv, LoopTimesOut, poolVars, fetchVars, nodeVars
<1>1. /\ build' = [build EXCEPT ![Loop] = NoFetch] /\ Loop \in Builders
      /\ \A f \in Fetches : f # Loop /\ f \in Builders
  BY LoopAssumption DEF Builders
<1>a. PoolTypeOK'
  BY <1>1 DEF PoolTypeOK
<1>b. PoolShape'
  BY <1>1 DEF PoolShape, PoolTypeOK
<1>c. PoolWithinTarget'
  <2>1. Len(ready) \in Nat
    BY DEF PoolTypeOK
  <2>2. QED BY <2>1, PoolAssumption DEF PoolWithinTarget
<1>d. ASSUME ~ renewed' PROVE PoolOwned'
  BY <1>1, <1>d, PoolAssumption DEF PoolOwned, PoolTypeOK
<1>e. QED BY <1>a, <1>b, <1>c, <1>d

LEMMA LeavesKeepsInv ==
  ASSUME PoolInv, LoopLeaves PROVE PoolInv'
<1> USE DEF PoolInv, LoopLeaves, poolVars, fetchVars, nodeVars
<1>1. /\ ready \in Seq(Pooled) /\ CidsOf(ready) \subseteq PoolCids /\ doomed = {}
      /\ CidsOf(<<>>) = {} /\ Distinct(<<>>) /\ Len(<<>>) = 0 /\ <<>> \in Seq(Pooled)
  <2>1. ready \in Seq(Pooled) /\ doomed = {}
    BY DEF PoolTypeOK, Pooled, PoolShape
  <2>2. CidsOf(<<>>) = {} /\ Distinct(<<>>)
    BY DEF CidsOf, Distinct
  <2>3. QED BY <2>1, <2>2, CidsArePool
<1>a. PoolTypeOK'
  BY <1>1 DEF PoolTypeOK, Pooled
<1>b. PoolShape'
  BY DEF PoolShape
<1>c. PoolWithinTarget'
  BY <1>1, PoolAssumption DEF PoolWithinTarget
<1>d. ASSUME ~ renewed' PROVE PoolOwned'
  BY <1>1, <1>d DEF PoolOwned
<1>e. QED BY <1>a, <1>b, <1>c, <1>d

LEMMA TakesKeepsInv ==
  ASSUME PoolInv, NEW f \in Fetches, FetchTakes(f) PROVE PoolInv'
<1> USE DEF PoolInv, FetchTakes, poolVars, fetchVars, nodeVars
<1>1. PICK i \in DOMAIN ready :
        /\ rp' = [rp EXCEPT ![f] = ready[i].cid]
        /\ ready' = RemoveAt(ready, i) /\ warmed' = warmed \ {ready[i].cid}
  OBVIOUS
<1> DEFINE c == ready[i].cid
<1>2. ready \in Seq(Pooled) /\ c \in CidsOf(ready) /\ c \in PoolCids
  <2>1. ready \in Seq(Pooled) /\ c \in CidsOf(ready)
    BY DEF PoolTypeOK, Pooled, CidsOf
  <2>2. QED BY <2>1, CidsArePool
<1>3. /\ ready' \in Seq(Pooled) /\ Len(ready') = Len(ready) - 1 /\ Len(ready) \in Nat
      /\ CidsOf(ready') \subseteq CidsOf(ready) /\ CidsOf(ready) \subseteq CidsOf(ready') \cup {c}
      /\ Distinct(ready) => Distinct(ready') /\ c \notin CidsOf(ready')
  BY <1>1, <1>2, TakeOne
<1>4. c # NoFetch /\ ready # <<>>
  BY <1>2, PoolAssumption DEF CidsOf
<1> HIDE DEF c
<1>a. PoolTypeOK'
  BY <1>1, <1>2, <1>3 DEF PoolTypeOK, Pooled, c
<1>b. PoolShape'
  BY <1>1, <1>4 DEF PoolShape, PoolTypeOK
<1>c. PoolWithinTarget'
  BY <1>3, PoolAssumption DEF PoolWithinTarget
<1>d. ASSUME ~ renewed' PROVE PoolOwned'
  <2>1. PoolOwned
    BY <1>d
  <2>2. rp' = [rp EXCEPT ![f] = c] /\ warmed' = warmed \ {c} /\ rp \in [Fetches -> PoolCids \cup {NoFetch}]
    BY <1>1 DEF c, PoolTypeOK
  <2>3. QED BY <1>2, <1>3, <1>4, <2>1, <2>2 DEF PoolOwned
<1>e. QED BY <1>a, <1>b, <1>c, <1>d

LEMMA FetchBuildsKeepsInv ==
  ASSUME PoolInv, NEW f \in Fetches, FetchBuilds(f) PROVE PoolInv'
<1> USE DEF PoolInv, FetchBuilds, Start, poolVars, fetchVars, nodeVars
<1>1. PICK c \in unusedIds :
        /\ build' = [build EXCEPT ![f] = c] /\ standing' = standing \cup {c}
        /\ unusedIds' = {d \in unusedIds : d > c}
  OBVIOUS
<1>2. /\ c \in PoolCids /\ c # NoFetch /\ c \in Nat /\ c \notin unusedIds' /\ unusedIds' \subseteq unusedIds
      /\ f \in Builders /\ Loop \in Builders /\ \A g \in Fetches : g # Loop /\ g \in Builders
  BY <1>1, PoolAssumption, LoopAssumption DEF PoolTypeOK, Builders
<1>a. PoolTypeOK'
  BY <1>1, <1>2 DEF PoolTypeOK
<1>b. PoolShape'
  BY <1>1, <1>2 DEF PoolShape, PoolTypeOK
<1>c. PoolWithinTarget'
  BY DEF PoolWithinTarget
<1>d. ASSUME ~ renewed' PROVE PoolOwned'
  BY <1>1, <1>2, <1>d DEF PoolOwned, PoolTypeOK
<1>e. QED BY <1>a, <1>b, <1>c, <1>d

LEMMA FetchBuiltKeepsInv ==
  ASSUME PoolInv, NEW f \in Fetches, FetchBuilt(f) PROVE PoolInv'
<1> USE DEF PoolInv, FetchBuilt, poolVars, fetchVars, nodeVars
<1>1. f \in Builders /\ Loop \in Builders /\ \A g \in Fetches : g # Loop /\ g \in Builders
  BY LoopAssumption DEF Builders
<1>a. PoolTypeOK'
  BY <1>1 DEF PoolTypeOK
<1>b. PoolShape'
  BY <1>1 DEF PoolShape, PoolTypeOK
<1>c. PoolWithinTarget'
  BY DEF PoolWithinTarget
<1>d. ASSUME ~ renewed' PROVE PoolOwned'
  BY <1>1, <1>d DEF PoolOwned, PoolTypeOK, PoolShape
<1>e. QED BY <1>a, <1>b, <1>c, <1>d

LEMMA FetchTimesOutKeepsInv ==
  ASSUME PoolInv, NEW f \in Fetches, FetchTimesOut(f) PROVE PoolInv'
<1> USE DEF PoolInv, FetchTimesOut, poolVars, fetchVars, nodeVars
<1>1. f \in Builders /\ Loop \in Builders /\ \A g \in Fetches : g # Loop /\ g \in Builders
  BY LoopAssumption DEF Builders
<1>a. PoolTypeOK'
  BY <1>1 DEF PoolTypeOK
<1>b. PoolShape'
  BY <1>1 DEF PoolShape, PoolTypeOK
<1>c. PoolWithinTarget'
  BY DEF PoolWithinTarget
<1>d. ASSUME ~ renewed' PROVE PoolOwned'
  BY <1>1, <1>d, PoolAssumption DEF PoolOwned, PoolTypeOK
<1>e. QED BY <1>a, <1>b, <1>c, <1>d

LEMMA FetchEndsKeepsInv ==
  ASSUME PoolInv, NEW f \in Fetches, NEW b, FetchEnds(f, b) PROVE PoolInv'
<1> USE DEF PoolInv, FetchEnds, poolVars, fetchVars, nodeVars
<1>1. f \in Builders /\ Loop \in Builders /\ \A g \in Fetches : g # Loop /\ g \in Builders
  BY LoopAssumption DEF Builders
<1>a. PoolTypeOK'
  BY <1>1 DEF PoolTypeOK
<1>b. PoolShape'
  BY <1>1 DEF PoolShape, PoolTypeOK
<1>c. PoolWithinTarget'
  BY DEF PoolWithinTarget
<1>d. ASSUME ~ renewed' PROVE PoolOwned'
  <2>1. /\ PoolOwned /\ ready' = ready /\ doomed' = doomed /\ warmed' = warmed /\ build' = build
        /\ unusedIds' = unusedIds /\ standing' \subseteq standing
        /\ \A g \in Fetches : rp'[g] = (IF g = f THEN NoFetch ELSE rp[g])
    BY <1>d DEF PoolTypeOK
  <2>2. \A g \in Fetches : rp'[g] # NoFetch =>
          /\ g # f /\ rp'[g] = rp[g]
          /\ \A h \in Fetches \ {g} : rp'[h] # rp'[g]
    BY <2>1 DEF PoolOwned
  <2>3. \A c \in unusedIds : \A g \in Fetches : rp'[g] # c
    <3>1. \A c \in unusedIds : c # NoFetch
      BY PoolAssumption DEF PoolTypeOK
    <3> QED BY <2>1, <3>1 DEF PoolOwned
  <2>4. warmed \cap standing' \subseteq CidsOf(ready) \cup doomed
    BY <2>1 DEF PoolOwned
  <2> QED BY <2>1, <2>2, <2>3, <2>4 DEF PoolOwned
<1>e. QED BY <1>a, <1>b, <1>c, <1>d

LEMMA GoneKeepsInv ==
  ASSUME PoolInv, NEW c, CircuitGone(c) PROVE PoolInv'
<1> USE DEF PoolInv, CircuitGone, poolVars, fetchVars, nodeVars
<1>a. PoolTypeOK'
  BY DEF PoolTypeOK
<1>b. PoolShape'
  BY DEF PoolShape
<1>c. PoolWithinTarget'
  BY DEF PoolWithinTarget
<1>d. ASSUME ~ renewed' PROVE PoolOwned'
  BY <1>d DEF PoolOwned
<1>e. QED BY <1>a, <1>b, <1>c, <1>d

LEMMA GoStaleKeepsInv ==
  ASSUME PoolInv, NEW i \in Nat, GoStale(i) PROVE PoolInv'
<1> USE DEF PoolInv, GoStale, poolVars, fetchVars, nodeVars
<1>1. /\ ready' \in Seq(Pooled) /\ Len(ready') = Len(ready)
      /\ CidsOf(ready') = CidsOf(ready) /\ (Distinct(ready) => Distinct(ready'))
  <2>1. ready \in Seq(Pooled)
    BY DEF PoolTypeOK, Pooled
  <2>2. QED BY <2>1, AgeSome
<1>2. ready # <<>>
  OBVIOUS
<1>a. PoolTypeOK'
  BY <1>1 DEF PoolTypeOK, Pooled
<1>b. PoolShape'
  BY <1>2 DEF PoolShape
<1>c. PoolWithinTarget'
  BY <1>1 DEF PoolWithinTarget
<1>d. ASSUME ~ renewed' PROVE PoolOwned'
  BY <1>1, <1>d DEF PoolOwned
<1>e. QED BY <1>a, <1>b, <1>c, <1>d

LEMMA BackoffEndsKeepsInv ==
  ASSUME PoolInv, BackoffEnds PROVE PoolInv'
<1> USE DEF PoolInv, BackoffEnds, poolVars, fetchVars, nodeVars
<1>a. PoolTypeOK'
  BY DEF PoolTypeOK
<1>b. PoolShape'
  BY DEF PoolShape
<1>c. PoolWithinTarget'
  BY DEF PoolWithinTarget
<1>d. ASSUME ~ renewed' PROVE PoolOwned'
  BY <1>d DEF PoolOwned
<1>e. QED BY <1>a, <1>b, <1>c, <1>d

LEMMA NewIdentityKeepsInv ==
  ASSUME PoolInv, PoolNewIdentity PROVE PoolInv'
<1> USE DEF PoolInv, PoolNewIdentity, poolVars, fetchVars, nodeVars
<1>a. PoolTypeOK'
  BY DEF PoolTypeOK
<1>b. PoolShape'
  BY DEF PoolShape
<1>c. PoolWithinTarget'
  BY DEF PoolWithinTarget
<1>d. ASSUME ~ renewed' PROVE PoolOwned'
  BY <1>d
<1>e. QED BY <1>a, <1>b, <1>c, <1>d

LEMMA ShutdownKeepsInv ==
  ASSUME PoolInv, Shutdown PROVE PoolInv'
<1> USE DEF PoolInv, Shutdown, poolVars, fetchVars, nodeVars
<1>a. PoolTypeOK'
  BY DEF PoolTypeOK
<1>b. PoolShape'
  BY DEF PoolShape
<1>c. PoolWithinTarget'
  BY DEF PoolWithinTarget
<1>d. ASSUME ~ renewed' PROVE PoolOwned'
  BY <1>d DEF PoolOwned
<1>e. QED BY <1>a, <1>b, <1>c, <1>d

\* Every step keeps it.
LEMMA PoolStepKeepsInv == PoolInv /\ [PoolNext]_poolRunVars => PoolInv'
<1> SUFFICES ASSUME PoolInv, [PoolNext]_poolRunVars PROVE PoolInv'
  OBVIOUS
<1>1. CASE LoopStep
  BY <1>1, WakesKeepsInv, DestroysKeepsInv, DestroyedKeepsInv, BuildsKeepsInv, CannotBuildKeepsInv,
     RestsKeepsInv, BuiltKeepsInv, TimesOutKeepsInv, LeavesKeepsInv DEF LoopStep
<1>2. ASSUME NEW f \in Fetches,
             \/ FetchTakes(f) \/ FetchBuilds(f) \/ FetchBuilt(f)
             \/ FetchTimesOut(f) \/ \E b \in BOOLEAN : FetchEnds(f, b)
      PROVE PoolInv'
  BY <1>2, TakesKeepsInv, FetchBuildsKeepsInv, FetchBuiltKeepsInv, FetchTimesOutKeepsInv, FetchEndsKeepsInv
<1>3. ASSUME NEW c \in PoolCids, CircuitGone(c) PROVE PoolInv'
  BY <1>3, GoneKeepsInv
<1>4. ASSUME NEW i \in 1 .. PoolTarget, GoStale(i) PROVE PoolInv'
  BY <1>4, GoStaleKeepsInv
<1>5. CASE BackoffEnds \/ PoolNewIdentity \/ Shutdown
  BY <1>5, BackoffEndsKeepsInv, NewIdentityKeepsInv, ShutdownKeepsInv
<1>6. CASE UNCHANGED poolRunVars
  BY <1>6 DEF poolRunVars, poolVars, fetchVars, nodeVars, PoolInv, PoolTypeOK, PoolShape,
              PoolWithinTarget, PoolOwned, Distinct, CidsOf
<1>7. QED
  BY <1>1, <1>2, <1>3, <1>4, <1>5, <1>6 DEF PoolNext

\* However the pool loop, the fetches, the timeouts and the death of circuits interleave,
\* no circuit has two holders (unless the node takes a new identity), and every warm
\* circuit is in the pool or is being closed (circuit_pool.rs; the loop and fetches of node.rs).
THEOREM PoolCircuitsAccounted == PoolSpec => []CircuitsAccounted
<1>1. PoolInv => CircuitsAccounted
  <2> SUFFICES ASSUME PoolInv PROVE CircuitsAccounted
    OBVIOUS
  <2>1. OneOwner
    <3> SUFFICES ASSUME ~ renewed PROVE HeldOnce
      BY DEF OneOwner
    <3>1. PoolOwned /\ NoFetch \notin CidsOf(ready) \cup doomed /\ Loop \in Builders
      BY PoolAssumption, CidsArePool DEF PoolInv, PoolTypeOK, Pooled, Builders
    <3>2. QED BY <3>1 DEF HeldOnce, PoolOwned, Distinct
  <2>2. WarmCircuitsClosed
    BY DEF WarmCircuitsClosed, PoolInv, PoolShape, PoolOwned, CidsOf
  <2>3. QED BY <2>1, <2>2 DEF CircuitsAccounted, PoolInv
<1>2. QED
  BY <1>1, PoolInitially, PoolStepKeepsInv, PTL DEF PoolSpec

-----------------------------------------------------------------------------
(* A board. *)

\* Where a task is past the idle state it holds a post, and a log being read
\* is at least as long as what it has shown.
BoardShape ==
  /\ \A t \in BoardTask : boardTasks[t].at # "idle" => boardTasks[t].post \in Post
  /\ ~ boardUp => /\ Len(shown) < boardLoad /\ boardLoad <= Len(boardLog) + 1
                  /\ \A t \in BoardTask : boardTasks[t].at = "idle"

\* What the seen set knows of the channel and of the tasks about to push to it.
ShownTracked ==
  /\ \A i, j \in DOMAIN shown : i # j => shown[i] # shown[j]
  /\ \A i \in DOMAIN shown : shown[i] \in seenPosts
  /\ \A t \in BoardTask : boardTasks[t].at = "push" =>
       /\ boardTasks[t].post \in seenPosts
       /\ \A i \in DOMAIN shown : shown[i] # boardTasks[t].post
       /\ \A u \in BoardTask \ {t} : boardTasks[u].at = "push" => boardTasks[u].post # boardTasks[t].post

\* Together: the seen set is exact while it has room for every post.
BoardInv ==
  /\ BoardTypeOK /\ BoardShape
  /\ Cardinality(Post) <= SeenCap => ShownTracked

\* Where a task is, and with which post.
BoardTasks == [at : {"idle", "insert", "memory", "push", "log", "gossip"}, post : Post \cup {NoPost}]

\* Noting a post as seen forgets no other, while there is room.
LEMMA SeenGrows ==
  ASSUME NEW p \in Post, seenPosts \subseteq Post
  PROVE  /\ \A s \in Seen(p) : s \subseteq Post
         /\ Cardinality(Post) <= SeenCap => Seen(p) = {seenPosts \cup {p}}
<1>1. \A s \in Seen(p) : s \subseteq Post
  BY DEF Seen
<1>2. ASSUME Cardinality(Post) <= SeenCap PROVE Seen(p) = {seenPosts \cup {p}}
  <2>1. /\ Cardinality(seenPosts \cup {p}) <= Cardinality(Post)
        /\ Cardinality(seenPosts \cup {p}) \in Nat /\ Cardinality(Post) \in Nat /\ SeenCap \in Nat
    BY BoardAssumption, FS_Subset, FS_CardinalityType
  <2>2. Cardinality(seenPosts \cup {p}) <= SeenCap
    BY <1>2, <2>1
  <2>3. QED BY <2>2 DEF Seen
<1>3. QED BY <1>1, <1>2

\* A push shows the post at the end, of the others none twice, and drops the oldest at
\* the limit.
LEMMA PushedShown ==
  ASSUME NEW p \in Post, shown \in Seq(Post), Len(shown) <= MaxPosts
  PROVE  /\ Pushed(p) \in Seq(Post) /\ Len(Pushed(p)) <= MaxPosts /\ Len(Pushed(p)) <= Len(shown) + 1
         /\ \A i \in DOMAIN Pushed(p) : Pushed(p)[i] = p \/ \E j \in DOMAIN shown : Pushed(p)[i] = shown[j]
         /\ (\A i, j \in DOMAIN shown : i # j => shown[i] # shown[j]) /\ (\A i \in DOMAIN shown : shown[i] # p)
              => \A i, j \in DOMAIN Pushed(p) : i # j => Pushed(p)[i] # Pushed(p)[j]
<1> DEFINE P == Pushed(p)
<1>a. MaxPosts \in Nat /\ MaxPosts # 0 /\ Len(shown) \in Nat /\ Len(shown) <= MaxPosts
  BY BoardAssumption
<1>0. DOMAIN shown = 1 .. Len(shown) /\ Len(shown) \in Nat
  OBVIOUS
<1>1. CASE Len(shown) < MaxPosts
  <2>1. P = Append(shown, p)
    BY <1>1 DEF Pushed
  <2> HIDE DEF P
  <2>2. /\ P \in Seq(Post) /\ Len(P) = Len(shown) + 1 /\ DOMAIN P = 1 .. Len(shown) + 1
        /\ P[Len(shown) + 1] = p /\ \A i \in 1 .. Len(shown) : P[i] = shown[i]
    BY <2>1, <1>0
  <2>3. \A i \in DOMAIN P : P[i] = p \/ \E j \in DOMAIN shown : P[i] = shown[j]
    BY <2>2, <1>0
  <2>4. (\A i, j \in DOMAIN shown : i # j => shown[i] # shown[j]) /\ (\A i \in DOMAIN shown : shown[i] # p)
              => \A i, j \in DOMAIN P : i # j => P[i] # P[j]
    BY <2>2, <1>0
  <2>5. QED BY <2>2, <2>3, <2>4, <1>0, <1>1, <1>a DEF P
<1>2. CASE ~ (Len(shown) < MaxPosts)
  <2>0. Len(shown) = MaxPosts /\ Len(shown) # 0
    BY <1>2, <1>a, SMT
  <2>1. P = Append(Tail(shown), p) /\ shown # <<>> /\ Len(shown) = MaxPosts
    BY <1>2, <2>0 DEF Pushed
  <2> HIDE DEF P
  <2>2. /\ Tail(shown) \in Seq(Post) /\ Len(Tail(shown)) = Len(shown) - 1
        /\ \A i \in 1 .. Len(shown) - 1 : Tail(shown)[i] = shown[i + 1]
    BY <2>1, <1>0
  <2>3. /\ P \in Seq(Post) /\ Len(P) = Len(shown) /\ DOMAIN P = 1 .. Len(shown)
        /\ P[Len(shown)] = p /\ \A i \in 1 .. Len(shown) - 1 : P[i] = shown[i + 1]
    BY <2>1, <2>2, <1>0
  <2>4. \A i \in DOMAIN P : P[i] = p \/ \E j \in DOMAIN shown : P[i] = shown[j]
    <3> SUFFICES ASSUME NEW i \in 1 .. Len(shown), i # Len(shown) PROVE \E j \in DOMAIN shown : P[i] = shown[j]
      BY <2>3
    <3>0. i \in 1 .. Len(shown) - 1 /\ i + 1 \in 1 .. Len(shown)
      BY <1>a
    <3>1. i \in 1 .. Len(shown) - 1 /\ i + 1 \in DOMAIN shown
      BY <1>0, <3>0, Zenon
    <3>2. QED BY <2>3, <3>1
  <2>5. (\A i, j \in DOMAIN shown : i # j => shown[i] # shown[j]) /\ (\A i \in DOMAIN shown : shown[i] # p)
              => \A i, j \in DOMAIN P : i # j => P[i] # P[j]
    <3> SUFFICES ASSUME \A i, j \in DOMAIN shown : i # j => shown[i] # shown[j],
                        \A i \in DOMAIN shown : shown[i] # p,
                        NEW i \in 1 .. Len(shown), NEW j \in 1 .. Len(shown), i < j
                 PROVE  P[i] # P[j]
      BY <1>0, <2>3
    <3>1. P[i] = shown[i + 1] /\ i + 1 \in DOMAIN shown
      BY <1>0, <2>3
    <3>2. CASE j = Len(shown)
      BY <2>3, <3>1, <3>2
    <3>3. CASE j # Len(shown)
      <4>1. P[j] = shown[j + 1] /\ j + 1 \in DOMAIN shown /\ i + 1 # j + 1
        <5>1. j \in 1 .. Len(shown) - 1
          BY <1>a, <3>3
        <5>2. QED BY <1>0, <2>3, <5>1
      <4>2. QED BY <3>1, <4>1
    <3> QED BY <3>2, <3>3
  <2>6. QED BY <2>1, <2>3, <2>4, <2>5, <1>0, <1>a DEF P
<1> QED BY <1>1, <1>2

\* The invariant holds at the start, and each step of a task, a death and a start keeps it.
LEMMA BoardInitially == BoardInit => BoardInv
<1> SUFFICES ASSUME BoardInit PROVE BoardInv
  OBVIOUS
<1>1. <<>> \in Seq(Post) /\ <<>> \in Seq(Lines) /\ Len(<<>>) = 0 /\ DOMAIN <<>> = {}
  OBVIOUS
<1>2. BoardTypeOK
  <2>1. 0 <= MaxPosts /\ 0 <= MaxLines /\ 1 \in 1 .. MaxLines + 1 /\ 0 \in 0 .. BoardCrashes
    BY BoardAssumption
  <2>2. boardTasks \in [BoardTask -> BoardTasks]
    BY DEF BoardInit, Idle, BoardTasks
  <2>3. QED BY <1>1, <2>1, <2>2 DEF BoardInit, BoardTypeOK, BoardTasks
<1>3. BoardShape /\ ShownTracked
  BY <1>1 DEF BoardInit, BoardShape, ShownTracked, Idle
<1>4. QED BY <1>2, <1>3 DEF BoardInv

LEMMA MergeKeepsInv ==
  ASSUME BoardInv, NEW t \in BoardTask, NEW p \in Post, MergeOrPost(t, p) PROVE BoardInv'
<1> USE DEF BoardInv, MergeOrPost
<1>a. BoardTypeOK'
  BY DEF BoardTypeOK
<1>b. BoardShape'
  BY DEF BoardShape, BoardTypeOK
<1>c. ASSUME Cardinality(Post) <= SeenCap PROVE ShownTracked'
  BY <1>c DEF ShownTracked, BoardTypeOK
<1>d. QED BY <1>a, <1>b, <1>c

LEMMA InsertKeepsInv ==
  ASSUME BoardInv, NEW t \in BoardTask, InsertBoard(t) PROVE BoardInv'
<1> USE DEF BoardInv, InsertBoard, Goes
<1>a. BoardTypeOK'
  BY DEF BoardTypeOK
<1>b. BoardShape'
  BY DEF BoardShape, BoardTypeOK
<1>c. ASSUME Cardinality(Post) <= SeenCap PROVE ShownTracked'
  BY <1>c DEF ShownTracked, BoardTypeOK
<1>d. QED BY <1>a, <1>b, <1>c

LEMMA MemoryKeepsInv ==
  ASSUME BoardInv, NEW t \in BoardTask, InsertMem(t) PROVE BoardInv'
<1> USE DEF BoardInv, InsertMem, Goes, AlreadyPresent
<1> DEFINE p == boardTasks[t].post
<1>1. /\ p \in Post /\ \A s \in Seen(p) : s \subseteq Post
      /\ Cardinality(Post) <= SeenCap => Seen(p) = {seenPosts \cup {p}}
  BY SeenGrows DEF BoardShape, BoardTypeOK
<1> HIDE DEF p
<1>a. BoardTypeOK'
  <2>1. boardTasks' \in [BoardTask -> BoardTasks] /\ seenPosts' \subseteq Post
    BY <1>1 DEF BoardTypeOK, BoardTasks, p
  <2>2. UNCHANGED <<shown, boardLog, openLine, boardLoad, boardUp, boardDeaths>>
    OBVIOUS
  <2>. QED
    BY <2>1, <2>2 DEF BoardTypeOK, BoardTasks
<1>b. BoardShape'
  <2>1. UNCHANGED <<shown, boardLog, boardLoad, boardUp>>
    OBVIOUS
  <2>2. \A u \in BoardTask : boardTasks'[u].post = boardTasks[u].post /\ (boardTasks[u].at = "idle" => boardTasks'[u].at = "idle")
    BY DEF BoardTypeOK
  <2>. QED
    BY <2>1, <2>2 DEF BoardShape
<1>c. ASSUME Cardinality(Post) <= SeenCap PROVE ShownTracked'
  <2>1. CASE p \in seenPosts
    <3>1. seenPosts' = seenPosts /\ shown' = shown
      BY <2>1 DEF p
    <3>2. \A u \in BoardTask : boardTasks'[u].post = boardTasks[u].post
                               /\ (boardTasks'[u].at = "push" => boardTasks[u].at = "push")
      BY <2>1 DEF BoardTypeOK, p
    <3>3. QED BY <3>1, <3>2, <1>c DEF ShownTracked
  <2>2. CASE p \notin seenPosts
    <3>1. seenPosts' = seenPosts \cup {p} /\ shown' = shown
      BY <2>2, <1>1, <1>c DEF p
    <3>2. \A u \in BoardTask : boardTasks'[u].post = boardTasks[u].post
                               /\ boardTasks'[u].at = IF u = t THEN "push" ELSE boardTasks[u].at
      BY <2>2 DEF BoardTypeOK, p
    <3>3. ShownTracked
      BY <1>c
    <3>4. \A u \in BoardTask \ {t} : boardTasks[u].at = "push" => boardTasks[u].post # p
      BY <2>2, <3>3 DEF ShownTracked
    <3>5. \A i \in DOMAIN shown : shown[i] # p
      BY <2>2, <3>3 DEF ShownTracked
    <3>6. QED BY <3>1, <3>2, <3>3, <3>4, <3>5 DEF ShownTracked, p
  <2> QED BY <2>1, <2>2
<1>d. QED BY <1>a, <1>b, <1>c

LEMMA PushKeepsInv ==
  ASSUME BoardInv, NEW t \in BoardTask, PushPost(t) PROVE BoardInv'
<1> USE DEF BoardInv, PushPost, Goes
<1> DEFINE p == boardTasks[t].post
<1>1. p \in Post /\ shown \in Seq(Post) /\ Len(shown) <= MaxPosts /\ boardTasks[t].at = "push"
  BY DEF BoardShape, BoardTypeOK
<1>2. /\ shown' \in Seq(Post) /\ Len(shown') <= MaxPosts /\ Len(shown') <= Len(shown) + 1
      /\ \A i \in DOMAIN shown' : shown'[i] = p \/ \E j \in DOMAIN shown : shown'[i] = shown[j]
      /\ (\A i, j \in DOMAIN shown : i # j => shown[i] # shown[j]) /\ (\A i \in DOMAIN shown : shown[i] # p)
              => \A i, j \in DOMAIN shown' : i # j => shown'[i] # shown'[j]
  BY <1>1, PushedShown
<1>3. boardUp
  BY <1>1 DEF BoardShape
<1>a. BoardTypeOK'
  BY <1>2 DEF BoardTypeOK
<1>b. BoardShape'
  BY <1>3 DEF BoardShape, BoardTypeOK
<1>c. ASSUME Cardinality(Post) <= SeenCap PROVE ShownTracked'
  <2>1. ShownTracked
    BY <1>c
  <2>2. /\ p \in seenPosts /\ \A i \in DOMAIN shown : shown[i] # p
        /\ \A u \in BoardTask \ {t} : boardTasks[u].at = "push" => boardTasks[u].post # p
    BY <1>1, <2>1 DEF ShownTracked
  <2>3. \A u \in BoardTask : boardTasks'[u].post = boardTasks[u].post
                             /\ boardTasks'[u].at = IF u = t THEN "log" ELSE boardTasks[u].at
    BY DEF BoardTypeOK
  <2> HIDE DEF p
  <2>4. \A i, j \in DOMAIN shown' : i # j => shown'[i] # shown'[j]
    BY <1>2, <2>1, <2>2 DEF ShownTracked
  <2>5. \A i \in DOMAIN shown' : shown'[i] \in seenPosts
    BY <1>2, <2>1, <2>2 DEF ShownTracked
  <2>6. QED BY <1>2, <2>1, <2>2, <2>3, <2>4, <2>5 DEF ShownTracked
<1>d. QED BY <1>a, <1>b, <1>c

LEMMA AppendKeepsInv ==
  ASSUME BoardInv, NEW t \in BoardTask, AppendPost(t) PROVE BoardInv'
<1> USE DEF BoardInv, AppendPost, Goes
<1>1. boardTasks[t].post \in Post
  BY DEF BoardShape
<1>2. boardLog' \in Seq(Lines) /\ Len(boardLog') <= MaxLines /\ Len(boardLog') >= Len(boardLog)
  <2>0. boardLog \in Seq(Lines) /\ Len(boardLog) \in Nat /\ MaxLines \in Nat
    BY BoardAssumption DEF BoardTypeOK
  <2>1. CASE openLine
    <3>1. boardLog' = [boardLog EXCEPT ![Len(boardLog)].whole = FALSE]
      BY <2>1
    <3>2. \A i \in 1 .. Len(boardLog) : boardLog'[i] \in Lines
      <4> SUFFICES ASSUME NEW i \in 1 .. Len(boardLog) PROVE boardLog'[i] \in Lines
        OBVIOUS
      <4>1. boardLog[i] \in Lines
        BY <2>0
      <4>2. boardLog'[i] = boardLog[i] \/ boardLog'[i] = [boardLog[i] EXCEPT !.whole = FALSE]
        <5>1. i \in DOMAIN boardLog
          BY <2>0
        <5>2. QED BY <3>1, <5>1, Zenon
      <4>3. QED BY <4>1, <4>2 DEF Lines
    <3>3. DOMAIN boardLog' = 1 .. Len(boardLog) /\ boardLog' = [i \in DOMAIN boardLog' |-> boardLog'[i]]
      <4>1. DOMAIN boardLog = 1 .. Len(boardLog)
        BY <2>0
      <4>2. QED BY <3>1, <4>1, Zenon
    <3>4. boardLog' \in [1 .. Len(boardLog) -> Lines]
      BY <3>2, <3>3, Zenon
    <3>4a. boardLog' \in Seq(Lines) /\ Len(boardLog') = Len(boardLog)
      BY <2>0, <3>4
    <3>5. QED BY <2>0, <3>4a
  <2>2. CASE ~ openLine
    <3>1. [post |-> boardTasks[t].post, whole |-> TRUE] \in Lines
      BY <1>1 DEF Lines
    <3>2. QED BY <2>0, <2>2, <3>1
  <2> QED BY <2>1, <2>2
<1>a. BoardTypeOK'
  BY <1>2 DEF BoardTypeOK
<1>b. BoardShape'
  BY <1>2 DEF BoardShape, BoardTypeOK
<1>c. ASSUME Cardinality(Post) <= SeenCap PROVE ShownTracked'
  BY <1>c DEF ShownTracked, BoardTypeOK
<1>d. QED BY <1>a, <1>b, <1>c

LEMMA GossipKeepsInv ==
  ASSUME BoardInv, NEW t \in BoardTask, Gossip(t) PROVE BoardInv'
<1> USE DEF BoardInv, Gossip, Idle
<1>a. BoardTypeOK'
  BY DEF BoardTypeOK
<1>b. BoardShape'
  BY DEF BoardShape, BoardTypeOK
<1>c. ASSUME Cardinality(Post) <= SeenCap PROVE ShownTracked'
  BY <1>c DEF ShownTracked, BoardTypeOK
<1>d. QED BY <1>a, <1>b, <1>c

LEMMA BoardDiesKeepsInv ==
  ASSUME BoardInv, BoardDies PROVE BoardInv'
<1> USE DEF BoardInv, BoardDies, Idle
<1>1. /\ shown' = <<>> /\ seenPosts' = {} /\ boardLoad' = 1 /\ ~ boardUp'
      /\ \A t \in BoardTask : boardTasks'[t].at = "idle"
  OBVIOUS
<1>2. boardLog' \in Seq(Lines) /\ Len(boardLog') <= MaxLines
  <2>1. boardLog \in Seq(Lines) /\ Len(boardLog) <= MaxLines /\ MaxLines \in Nat
    BY BoardAssumption DEF BoardTypeOK
  <2>2. ASSUME NEW t \in BoardTask, NEW whole \in BOOLEAN, boardTasks[t].at = "log", Len(boardLog) < MaxLines,
               boardLog' = Append(boardLog, [post |-> boardTasks[t].post, whole |-> whole])
        PROVE  boardLog' \in Seq(Lines) /\ Len(boardLog') <= MaxLines
    <3>1. [post |-> boardTasks[t].post, whole |-> whole] \in Lines
      BY <2>2 DEF Lines, BoardShape
    <3>2. QED BY <2>1, <2>2, <3>1
  <2>3. QED BY <2>1, <2>2
<1>3. shown' \in Seq(Post) /\ Len(shown') = 0 /\ DOMAIN shown' = {}
  BY <1>1
<1>a. BoardTypeOK'
  <2>1. MaxPosts \in Nat /\ 1 \in 1 .. MaxLines + 1 /\ boardDeaths' \in 0 .. BoardCrashes
    BY BoardAssumption DEF BoardTypeOK
  <2>2. boardTasks' \in [BoardTask -> BoardTasks]
    BY DEF BoardTasks
  <2>3. {} \subseteq Post /\ 0 <= MaxPosts
    BY <2>1
  <2>4. openLine' \in BOOLEAN
    BY DEF BoardTypeOK
  <2>5. QED BY <1>1, <1>2, <1>3, <2>1, <2>2, <2>3, <2>4 DEF BoardTypeOK, BoardTasks
<1>b. BoardShape'
  BY <1>1, <1>2, <1>3 DEF BoardShape, BoardTypeOK
<1>c. ASSUME Cardinality(Post) <= SeenCap PROVE ShownTracked'
  BY <1>1, <1>3 DEF ShownTracked
<1>d. QED BY <1>a, <1>b, <1>c

LEMMA LoadKeepsInv ==
  ASSUME BoardInv, LoadLine PROVE BoardInv'
<1> USE DEF BoardInv, LoadLine, AlreadyPresent
<1>0. /\ boardLoad \in Nat /\ boardLoad >= 1 /\ Len(boardLog) \in Nat /\ Len(boardLog) <= MaxLines /\ MaxLines \in Nat
      /\ shown \in Seq(Post) /\ Len(shown) <= MaxPosts /\ seenPosts \subseteq Post /\ boardLog[boardLoad] \in Lines
  BY BoardAssumption DEF BoardTypeOK
<1>1. CASE seenPosts' = seenPosts /\ shown' = shown
  <2>1. BoardTypeOK' /\ BoardShape'
    BY <1>0, <1>1 DEF BoardTypeOK, BoardShape
  <2>2. Cardinality(Post) <= SeenCap => ShownTracked'
    BY <1>1 DEF ShownTracked
  <2>3. QED BY <2>1, <2>2
<1> SUFFICES ASSUME ~ (seenPosts' = seenPosts /\ shown' = shown) PROVE BoardInv'
  BY <1>1
<1> DEFINE p == boardLog[boardLoad].post
<1>2. p \in Post /\ p \notin seenPosts /\ seenPosts' \in Seen(p) /\ shown' = Pushed(p)
  BY <1>0 DEF Lines
<1> HIDE DEF p
<1>3. /\ seenPosts' \subseteq Post
      /\ Cardinality(Post) <= SeenCap => seenPosts' = seenPosts \cup {p}
  BY <1>0, <1>2, SeenGrows
<1>4. /\ shown' \in Seq(Post) /\ Len(shown') <= MaxPosts /\ Len(shown') <= Len(shown) + 1
      /\ \A i \in DOMAIN shown' : shown'[i] = p \/ \E j \in DOMAIN shown : shown'[i] = shown[j]
      /\ (\A i, j \in DOMAIN shown : i # j => shown[i] # shown[j]) /\ (\A i \in DOMAIN shown : shown[i] # p)
              => \A i, j \in DOMAIN shown' : i # j => shown'[i] # shown'[j]
  BY <1>0, <1>2, PushedShown
<1>a. BoardTypeOK'
  BY <1>0, <1>3, <1>4 DEF BoardTypeOK
<1>b. BoardShape'
  BY <1>0, <1>4 DEF BoardShape
<1>c. ASSUME Cardinality(Post) <= SeenCap PROVE ShownTracked'
  <2>1. ShownTracked
    BY <1>c
  <2>2. \A i \in DOMAIN shown : shown[i] # p
    BY <1>2, <2>1 DEF ShownTracked
  <2>3. \A i, j \in DOMAIN shown' : i # j => shown'[i] # shown'[j]
    BY <1>4, <2>1, <2>2 DEF ShownTracked
  <2>4. \A i \in DOMAIN shown' : shown'[i] \in seenPosts'
    BY <1>c, <1>3, <1>4, <2>1 DEF ShownTracked
  <2>5. boardTasks' = boardTasks
    OBVIOUS
  <2>6. QED BY <1>c, <1>2, <1>3, <1>4, <2>1, <2>3, <2>4, <2>5 DEF ShownTracked
<1>d. QED BY <1>a, <1>b, <1>c

LEMMA OpenKeepsInv ==
  ASSUME BoardInv, OpenBoard PROVE BoardInv'
<1> USE DEF BoardInv, OpenBoard
<1>1. boardLog' \in Seq(Lines) /\ Len(boardLog') <= MaxLines
  <2>1. boardLog \in Seq(Lines) /\ Len(boardLog) <= MaxLines /\ Len(boardLog) \in Nat /\ shown \in Seq(Post) /\ MaxLines \in Nat
    BY BoardAssumption DEF BoardTypeOK
  <2>2. Len(shown) \in Nat /\ Len(shown) <= Len(boardLog)
    BY <2>1 DEF BoardShape, BoardTypeOK
  <2>3. Compacted \in Seq(Lines) /\ Len(Compacted) = Len(shown)
    <3>1. Compacted \in [1 .. Len(shown) -> Lines]
      BY <2>1 DEF Compacted, Lines
    <3>2. QED BY <2>2, <3>1 DEF Compacted
  <2>4. QED BY <2>1, <2>2, <2>3
<1>a. BoardTypeOK'
  <2>0. MaxLines \in Nat
    BY BoardAssumption
  <2>1. 1 \in 1 .. MaxLines + 1
    BY <2>0
  <2>1a. openLine' \in BOOLEAN
    BY Zenon DEF BoardTypeOK
  <2>2. QED BY <1>1, <2>1, <2>1a DEF BoardTypeOK
<1>b. BoardShape'
  BY DEF BoardShape
<1>c. ASSUME Cardinality(Post) <= SeenCap PROVE ShownTracked'
  BY <1>c DEF ShownTracked
<1>d. QED BY <1>a, <1>b, <1>c

\* While the seen set has room for every post, no two tasks that take in the same post,
\* and no restart over the log, show it twice on a channel (board.rs, insert and load).
THEOREM PostsShownOnce == BoardSpec => []ShownOnce
<1>1. BoardInv /\ [BoardNext]_boardVars => BoardInv'
  <2> SUFFICES ASSUME BoardInv, [BoardNext]_boardVars PROVE BoardInv'
    OBVIOUS
  <2>1. ASSUME NEW t \in BoardTask, NEW p \in Post, MergeOrPost(t, p) PROVE BoardInv'
    BY <2>1, MergeKeepsInv
  <2>2. ASSUME NEW t \in BoardTask,
               InsertBoard(t) \/ InsertMem(t) \/ PushPost(t) \/ AppendPost(t) \/ Gossip(t)
        PROVE  BoardInv'
    BY <2>2, InsertKeepsInv, MemoryKeepsInv, PushKeepsInv, AppendKeepsInv, GossipKeepsInv
  <2>3. CASE BoardDies \/ LoadLine \/ OpenBoard
    BY <2>3, BoardDiesKeepsInv, LoadKeepsInv, OpenKeepsInv
  <2>4. CASE UNCHANGED boardVars
    BY <2>4 DEF boardVars, BoardInv, BoardTypeOK, BoardShape, ShownTracked
  <2>5. QED BY <2>1, <2>2, <2>3, <2>4 DEF BoardNext
<1>2. BoardInv => ShownOnce
  BY DEF BoardInv, ShownTracked, ShownOnce
<1>3. QED BY <1>1, <1>2, BoardInitially, PTL DEF BoardSpec

-----------------------------------------------------------------------------
(* The replay cache. *)

\* A tick does not end over an append, so what is still to be appended is what is owed.
AppendsOwed ==
    \A l \in appends : l.good = TRUE /\ l.exp = replayNow + ReplayTTL /\ owedUntil[l.id] = l.exp

\* The file says it until then, and nothing after it says otherwise.
InLog(id, until) ==
    \E k \in DOMAIN replayLog :
        /\ replayLog[k].id = id /\ replayLog[k].good /\ replayLog[k].exp = until
        /\ \A j \in DOMAIN replayLog : j > k /\ replayLog[j].id = id /\ replayLog[j].good => replayLog[j].exp = until

\* The ids the cache must still refuse.
Owed == {id \in ReplayId : owedUntil[id] > replayNow /\ id \notin excused \cup glued}

\* What is owed is in the file, or about to be; and in memory, while there is one.
OwedIsKept ==
    \A id \in Owed :
        /\ InLog(id, owedUntil[id]) \/ \E l \in appends : l.id = id
        /\ logState # "down" => seenUntil[id] = owedUntil[id]

\* A process that is down appends nothing.
DownIsQuiet == logState = "down" => appends = {}

\* Together: what is owed is never forgotten.
ReplayInv == ReplayTypeOK /\ DownIsQuiet /\ AppendsOwed /\ OwedIsKept /\ AcceptedOnce

-----------------------------------------------------------------------------
\* A line is good or spoiled, of the same id.
LEMMA LineSet == ASSUME NEW l \in Line, NEW b \in BOOLEAN
                 PROVE  /\ [l EXCEPT !.good = b] \in Line /\ [l EXCEPT !.good = b].good = b
                        /\ [l EXCEPT !.good = b].id = l.id /\ [l EXCEPT !.good = b].exp = l.exp
BY DEF Line

\* The file with a line put at its end.
LEMMA LogEnds == ASSUME replayLog \in Seq(Line), NEW l \in Line
                 PROVE  /\ Append(replayLog, l) \in Seq(Line) /\ Len(Append(replayLog, l)) = Len(replayLog) + 1
                        /\ Append(replayLog, l)[Len(replayLog) + 1] = l
                        /\ \A n \in 1 .. Len(replayLog) : Append(replayLog, l)[n] = replayLog[n]
OBVIOUS

\* A line put at the end keeps what the file says of an id, if it agrees.
LEMMA AppendKeeps ==
    ASSUME replayLog \in Seq(Line), NEW l \in Line, replayLog' = Append(replayLog, l),
           NEW id, NEW u, InLog(id, u), l.id = id /\ l.good => l.exp = u
    PROVE  InLog(id, u)'
<1>1. PICK k \in DOMAIN replayLog :
        /\ replayLog[k].id = id /\ replayLog[k].good /\ replayLog[k].exp = u
        /\ \A j \in DOMAIN replayLog : j > k /\ replayLog[j].id = id /\ replayLog[j].good => replayLog[j].exp = u
  BY DEF InLog
<1>2. /\ DOMAIN replayLog = 1 .. Len(replayLog) /\ DOMAIN replayLog' = 1 .. Len(replayLog) + 1
      /\ \A n \in 1 .. Len(replayLog) : replayLog'[n] = replayLog[n]
      /\ replayLog'[Len(replayLog) + 1] = l /\ Len(replayLog) \in Nat
  BY LogEnds
<1>3. k \in DOMAIN replayLog' /\ replayLog'[k] = replayLog[k]
  BY <1>2
<1>4. ASSUME NEW j \in DOMAIN replayLog', j > k, replayLog'[j].id = id, replayLog'[j].good PROVE replayLog'[j].exp = u
  <2>1. CASE j = Len(replayLog) + 1
    BY <2>1, <1>2, <1>4
  <2>2. CASE j # Len(replayLog) + 1
    <3>1. j \in DOMAIN replayLog /\ replayLog'[j] = replayLog[j]
      BY <2>2, <1>2
    <3> QED BY <3>1, <1>1, <1>4
  <2> QED BY <2>1, <2>2
<1> QED BY <1>1, <1>3, <1>4 DEF InLog

\* A good line is what the file says of its id, once it is in.
LEMMA AppendSays ==
    ASSUME replayLog \in Seq(Line), NEW l \in Line, replayLog' = Append(replayLog, l), l.good
    PROVE  InLog(l.id, l.exp)'
<1>1. Len(replayLog) + 1 \in DOMAIN replayLog' /\ replayLog'[Len(replayLog) + 1] = l
  BY LogEnds
<1>2. \A j \in DOMAIN replayLog' : ~(j > Len(replayLog) + 1)
  BY LogEnds
<1> QED BY <1>1, <1>2 DEF InLog

\* Spoiling the last line takes nothing from the others.
LEMMA GlueKeeps ==
    ASSUME replayLog \in Seq(Line), replayLog # <<>>,
           replayLog' = [replayLog EXCEPT ![Len(replayLog)].good = FALSE],
           NEW id, NEW u, InLog(id, u), ~(replayLog[Len(replayLog)].good /\ replayLog[Len(replayLog)].id = id)
    PROVE  InLog(id, u)' /\ replayLog' \in Seq(Line)
<1> DEFINE last == Len(replayLog)
<1>1. last \in DOMAIN replayLog /\ replayLog[last] \in Line /\ DOMAIN replayLog' = DOMAIN replayLog
  OBVIOUS
<1>2. replayLog' = [replayLog EXCEPT ![last] = [replayLog[last] EXCEPT !.good = FALSE]]
  BY <1>1
<1>3. replayLog'[last].good = FALSE /\ \A n \in DOMAIN replayLog : n # last => replayLog'[n] = replayLog[n]
  BY <1>1, <1>2, LineSet
<1>4. PICK k \in DOMAIN replayLog :
        /\ replayLog[k].id = id /\ replayLog[k].good /\ replayLog[k].exp = u
        /\ \A j \in DOMAIN replayLog : j > k /\ replayLog[j].id = id /\ replayLog[j].good => replayLog[j].exp = u
  BY DEF InLog
<1>5. k # last
  BY <1>4
<1>6. InLog(id, u)'
  BY <1>1, <1>3, <1>4, <1>5 DEF InLog
<1>7. [replayLog[last] EXCEPT !.good = FALSE] \in Line
  BY <1>1, LineSet
<1> QED BY <1>1, <1>2, <1>6, <1>7

\* What is loaded of an id is the expiry of its last line that counts.
LEMMA LoadedIs ==
    ASSUME replayLog \in Seq(Line), replayNow \in Nat, NEW id \in ReplayId
    PROVE  /\ Loaded[id] \in Expiries
           /\ \A u \in Expiries : InLog(id, u) /\ u > replayNow => Loaded[id] = u
<1> DEFINE own == {n \in 1 .. Len(replayLog) :
                     replayLog[n].id = id /\ replayLog[n].good /\ replayLog[n].exp > replayNow}
           top == CHOOSE n \in own : \A k \in own : k <= n
<1>1. Loaded[id] = IF own = {} THEN 0 ELSE replayLog[top].exp
  BY DEF Loaded
<1>2. \A n \in own : n \in 1 .. Len(replayLog) /\ replayLog[n] \in Line /\ replayLog[n].exp \in Expiries
  <2>1. \A n \in 1 .. Len(replayLog) : replayLog[n] \in Line
    OBVIOUS
  <2>2. \A l \in Line : l.exp \in Expiries
    BY DEF Line
  <2> QED BY <2>1, <2>2
<1>3. CASE own = {}
  <2>1. Loaded[id] = 0 /\ 0 \in Expiries
    BY <1>1, <1>3, ReplayAssumption DEF Expiries
  <2>2. ASSUME NEW u \in Expiries, InLog(id, u), u > replayNow PROVE FALSE
    <3>1. PICK k \in DOMAIN replayLog : replayLog[k].id = id /\ replayLog[k].good /\ replayLog[k].exp = u
      BY <2>2 DEF InLog
    <3>2. k \in own
      BY <3>1, <2>2
    <3> QED BY <3>2, <1>3
  <2> QED BY <2>1, <2>2
<1>4. CASE own # {}
  <2>1. \E n \in own : \A k \in own : k <= n
    <3> DEFINE T == {Len(replayLog) - n : n \in own}
    <3>1. Len(replayLog) \in Nat /\ \A n \in own : n \in Nat /\ n <= Len(replayLog)
      BY <1>2
    <3> HIDE DEF own
    <3>2. T \in SUBSET Nat /\ T # {}
      BY <1>4, <3>1
    <3>3. PICK x \in T : \A y \in T : x <= y
      BY <3>2, NatMin
    <3>4. PICK n \in own : x = Len(replayLog) - n
      BY <3>3
    <3>5. ASSUME NEW k \in own PROVE k <= n
      <4>1. Len(replayLog) - k \in T
        OBVIOUS
      <4>2. x <= Len(replayLog) - k
        BY <4>1, <3>3
      <4> QED BY <4>2, <3>1, <3>4
    <3> QED BY <3>5
  <2> HIDE DEF own
  <2>2. top \in own /\ \A k \in own : k <= top
    BY <2>1
  <2> HIDE DEF top
  <2>3. Loaded[id] = replayLog[top].exp /\ Loaded[id] \in Expiries
    BY <1>1, <1>2, <1>4, <2>2
  <2>4. ASSUME NEW u \in Expiries, InLog(id, u), u > replayNow PROVE replayLog[top].exp = u
    <3>1. PICK k \in DOMAIN replayLog :
            /\ replayLog[k].id = id /\ replayLog[k].good /\ replayLog[k].exp = u
            /\ \A j \in DOMAIN replayLog : j > k /\ replayLog[j].id = id /\ replayLog[j].good => replayLog[j].exp = u
      BY <2>4 DEF InLog
    <3>2. k \in own
      BY <3>1, <2>4 DEF own
    <3>3. top \in DOMAIN replayLog /\ replayLog[top].id = id /\ replayLog[top].good
      BY <2>2 DEF own
    <3>4. k <= top /\ k \in Nat /\ top \in Nat
      BY <3>2, <3>3, <2>2
    <3> QED BY <3>1, <3>3, <3>4
  <2> QED BY <2>3, <2>4
<1> QED BY <1>3, <1>4

-----------------------------------------------------------------------------
\* The invariant holds at the start, and each operation keeps it.
LEMMA ReplayInitInv == ReplayInit => ReplayInv
<1> SUFFICES ASSUME ReplayInit PROVE ReplayInv
  OBVIOUS
<1>1. ReplayTypeOK
  <2>1. 0 \in Expiries
    BY ReplayAssumption DEF Expiries
  <2>2. replayNow \in 1 .. ReplayEnd /\ replayDeaths \in 0 .. ReplayCrashes
    BY ReplayAssumption DEF ReplayInit
  <2>3. seenUntil \in [ReplayId -> Expiries] /\ owedUntil \in [ReplayId -> Expiries]
    BY <2>1 DEF ReplayInit
  <2>4. replayLog \in Seq(Line) /\ unended = FALSE
    BY DEF ReplayInit
  <2> QED BY <2>2, <2>3, <2>4 DEF ReplayInit, ReplayTypeOK
<1>2. Owed = {} /\ appends = {} /\ accepted2 = {}
  BY DEF ReplayInit, Owed
<1> QED BY <1>1, <1>2 DEF ReplayInv, DownIsQuiet, AppendsOwed, OwedIsKept, AcceptedOnce

\* The times are numbers.
LEMMA NowTyped == ASSUME ReplayTypeOK
                  PROVE  /\ replayNow \in Nat /\ replayNow > 0 /\ replayNow + ReplayTTL \in Expiries
                         /\ replayNow + ReplayTTL > replayNow /\ replayNow + ReplayTTL # 0
                         /\ 0 \in Expiries /\ Expiries \subseteq Nat
BY ReplayAssumption DEF ReplayTypeOK, Expiries

\* What is dropped was not owed, or is excused.
LEMMA MarkKeeps == ASSUME ReplayInv, NEW id \in ReplayId, Mark(id) PROVE ReplayInv'
<1>1. PICK drop \in Dropped :
        LET kept == WithoutIds(seenUntil, drop)
            lost == (drop \intersect Live(seenUntil)) \ {id}
            exp  == replayNow + ReplayTTL
        IN IF kept[id] > replayNow
           THEN /\ seenUntil' = kept /\ excused' = excused \union lost
                /\ UNCHANGED <<appends, owedUntil, glued, accepted2>>
           ELSE /\ seenUntil' = [kept EXCEPT ![id] = exp]
                /\ appends' = appends \union {[id |-> id, exp |-> exp, good |-> TRUE]}
                /\ owedUntil' = [owedUntil EXCEPT ![id] = exp]
                /\ accepted2' = IF /\ owedUntil[id] > replayNow
                                   /\ id \notin excused \union drop
                                THEN accepted2 \union {<<id, id \in glued>>}
                                ELSE accepted2
                /\ excused' = (excused \union lost) \ {id}
                /\ glued' = glued \ {id}
  BY DEF Mark
<1> DEFINE kept == WithoutIds(seenUntil, drop)
           lost == (drop \intersect Live(seenUntil)) \ {id}
           exp  == replayNow + ReplayTTL
           line == [id |-> id, exp |-> exp, good |-> TRUE]
<1>2. logState = "up" /\ UNCHANGED <<replayLog, unended, logState, replayNow, replayDeaths>>
  BY DEF Mark
<1>3. /\ seenUntil \in [ReplayId -> Expiries] /\ owedUntil \in [ReplayId -> Expiries] /\ excused \subseteq ReplayId
      /\ glued \subseteq ReplayId /\ appends \subseteq Line /\ accepted2 \subseteq ReplayId \X BOOLEAN
  BY DEF ReplayInv, ReplayTypeOK
<1>4. exp \in Expiries /\ exp > replayNow /\ 0 \in Expiries
  BY NowTyped DEF ReplayInv
<1>5. line \in Line /\ line.id = id /\ line.exp = exp /\ line.good = TRUE
  BY <1>4 DEF Line
<1>6. /\ kept \in [ReplayId -> Expiries] /\ \A i \in ReplayId : i \notin drop => kept[i] = seenUntil[i]
  BY <1>3, <1>4 DEF WithoutIds
<1>7. lost \subseteq ReplayId /\ \A i \in ReplayId : i \in drop /\ seenUntil[i] > replayNow /\ i # id => i \in lost
  BY DEF Live
<1> HIDE DEF exp
<1>8. CASE kept[id] > replayNow
  <2>1. /\ seenUntil' = kept /\ excused' = excused \union lost
        /\ UNCHANGED <<appends, owedUntil, glued, accepted2>>
    BY <1>1, <1>8
  <2> HIDE DEF kept, lost
  <2>2. ReplayTypeOK'
    BY <2>1, <1>2, <1>3, <1>6, <1>7 DEF ReplayInv, ReplayTypeOK, Line, Expiries
  <2>3. AppendsOwed' /\ AcceptedOnce'
    BY <2>1, <1>2 DEF ReplayInv, AppendsOwed, AcceptedOnce
  <2>4. ASSUME NEW i \in Owed' PROVE i \in Owed /\ kept[i] = seenUntil[i]
    <3>1. i \in Owed /\ i \notin lost
      BY <2>1, <2>4, <1>2 DEF Owed
    <3>2. seenUntil[i] = owedUntil[i] /\ i \in ReplayId /\ seenUntil[i] > replayNow
      BY <3>1, <1>2 DEF ReplayInv, OwedIsKept, Owed
    <3>3. CASE i = id
      <4>1. id \notin drop
        BY <1>4, <1>8, NowTyped DEF kept, WithoutIds, ReplayInv
      <4> QED BY <3>1, <3>3, <4>1, <1>6
    <3>4. CASE i # id
      BY <3>1, <3>2, <3>4, <1>6, <1>7
    <3> QED BY <3>3, <3>4
  <2>5. OwedIsKept'
    BY <2>1, <2>4, <1>2 DEF ReplayInv, OwedIsKept, InLog
  <2> QED BY <2>2, <2>3, <2>5, <1>2 DEF ReplayInv, DownIsQuiet
<1>9. CASE ~(kept[id] > replayNow)
  <2>1. /\ seenUntil' = [kept EXCEPT ![id] = exp] /\ appends' = appends \union {line}
        /\ owedUntil' = [owedUntil EXCEPT ![id] = exp]
        /\ accepted2' = IF owedUntil[id] > replayNow /\ id \notin excused \union drop
                        THEN accepted2 \union {<<id, id \in glued>>} ELSE accepted2
        /\ excused' = (excused \union lost) \ {id} /\ glued' = glued \ {id}
    BY <1>1, <1>9 DEF exp
  <2> HIDE DEF kept, lost, line
  <2>0. accepted2' \subseteq accepted2 \cup {<<id, TRUE>>}
    <3>1. ASSUME owedUntil[id] > replayNow, id \notin excused \union drop PROVE id \in glued
      <4> SUFFICES ASSUME id \notin glued PROVE FALSE
        OBVIOUS
      <4>1. id \in Owed
        BY <3>1 DEF Owed
      <4>2. kept[id] = owedUntil[id]
        BY <4>1, <3>1, <1>2, <1>6 DEF ReplayInv, OwedIsKept
      <4> QED BY <4>2, <3>1, <1>9
    <3>2. ASSUME NEW again \in accepted2' PROVE again \in accepted2 \/ again = <<id, TRUE>>
      <4>1. again \in accepted2 \/ (again = <<id, id \in glued>> /\ owedUntil[id] > replayNow /\ id \notin excused \union drop)
        BY <2>1, <3>2, Zenon
      <4>2. ASSUME id \in glued PROVE <<id, id \in glued>> = <<id, TRUE>>
        BY <4>2, Zenon
      <4> QED BY <4>1, <4>2, <3>1, Zenon
    <3> QED BY <3>2
  <2>2. ReplayTypeOK'
    <3>1. seenUntil' \in [ReplayId -> Expiries] /\ owedUntil' \in [ReplayId -> Expiries] /\ appends' \subseteq Line
      BY <2>1, <1>3, <1>4, <1>5, <1>6
    <3>2. accepted2' \subseteq ReplayId \X BOOLEAN
      <4>1. <<id, TRUE>> \in ReplayId \X BOOLEAN
        OBVIOUS
      <4> QED BY <4>1, <2>0, <1>3
    <3>3. excused' \subseteq ReplayId /\ glued' \subseteq ReplayId
      BY <2>1, <1>3, <1>7
    <3> QED BY <3>1, <3>2, <3>3, <1>2 DEF ReplayInv, ReplayTypeOK, Line, Expiries
  <2>3. AppendsOwed'
    <3> SUFFICES ASSUME NEW l \in appends'
                 PROVE  l.good = TRUE /\ l.exp = exp /\ owedUntil'[l.id] = l.exp
      BY <1>2 DEF AppendsOwed, exp
    <3>1. l.good = TRUE /\ l.exp = exp /\ l.id \in ReplayId /\ (l.id = id \/ owedUntil[l.id] = l.exp)
      BY <2>1, <1>3, <1>5 DEF ReplayInv, AppendsOwed, Line, exp
    <3> QED BY <3>1, <2>1, <1>3
  <2>4. AcceptedOnce'
    <3>1. <<id, TRUE>>[2]
      OBVIOUS
    <3> QED BY <2>0, <3>1 DEF ReplayInv, AcceptedOnce
  <2>5. ASSUME NEW i \in Owed', i # id PROVE i \in Owed /\ kept[i] = seenUntil[i]
    <3>1. i \in Owed /\ i \notin lost
      BY <2>1, <2>5, <1>2, <1>3 DEF Owed
    <3>2. seenUntil[i] = owedUntil[i] /\ i \in ReplayId /\ seenUntil[i] > replayNow
      BY <3>1, <1>2 DEF ReplayInv, OwedIsKept, Owed
    <3> QED BY <3>1, <3>2, <2>5, <1>6, <1>7
  <2>6. ASSUME NEW i \in Owed'
        PROVE  /\ InLog(i, owedUntil[i])' \/ \E l \in appends' : l.id = i
               /\ seenUntil'[i] = owedUntil'[i]
    <3>1. i \in ReplayId
      BY DEF Owed
    <3>2. CASE i = id
      <4>1. line \in appends' /\ seenUntil'[id] = exp /\ owedUntil'[id] = exp
        BY <2>1, <1>3, <1>6
      <4> QED BY <4>1, <3>2, <1>5
    <3>3. CASE i # id
      <4>1. owedUntil'[i] = owedUntil[i] /\ seenUntil'[i] = kept[i]
        BY <3>1, <3>3, <2>1, <1>3, <1>6
      <4>2. InLog(i, owedUntil[i]) \/ \E l \in appends : l.id = i
        BY <3>3, <2>5 DEF ReplayInv, OwedIsKept
      <4>3. seenUntil[i] = owedUntil[i]
        BY <3>3, <2>5, <1>2 DEF ReplayInv, OwedIsKept
      <4>4. InLog(i, owedUntil[i]) => InLog(i, owedUntil[i])'
        BY <4>1, <1>2 DEF InLog
      <4> QED BY <4>1, <4>2, <4>3, <4>4, <3>3, <2>1, <2>5
    <3> QED BY <3>2, <3>3
  <2>7. OwedIsKept'
    BY <2>6 DEF OwedIsKept
  <2> QED BY <2>2, <2>3, <2>4, <2>7, <1>2 DEF ReplayInv, DownIsQuiet
<1> QED BY <1>8, <1>9

LEMMA AppendToLogKeeps == ASSUME ReplayInv, AppendToLog PROVE ReplayInv'
<1>1. PICK line \in appends :
        /\ appends' = appends \ {line}
        /\ IF unended
           THEN LET last == replayLog[Len(replayLog)]
                IN  /\ replayLog' = [replayLog EXCEPT ![Len(replayLog)].good = FALSE]
                    /\ glued' = glued \union {line.id} \union (IF last.good THEN {last.id} ELSE {})
           ELSE replayLog' = Append(replayLog, line) /\ UNCHANGED glued
  BY DEF AppendToLog
<1>2. /\ logState = "up" /\ unended' = FALSE
      /\ UNCHANGED <<seenUntil, logState, replayNow, replayDeaths, owedUntil, excused, accepted2>>
  BY DEF AppendToLog
<1>3. /\ replayLog \in Seq(Line) /\ appends \subseteq Line /\ (unended => replayLog # <<>>) /\ glued \subseteq ReplayId
  BY DEF ReplayInv, ReplayTypeOK
<1>4. line \in Line /\ line.id \in ReplayId /\ line.good = TRUE /\ line.exp = owedUntil[line.id]
  BY <1>3 DEF ReplayInv, AppendsOwed, Line
<1>5. AppendsOwed' /\ AcceptedOnce'
  BY <1>1, <1>2 DEF ReplayInv, AppendsOwed, AcceptedOnce
<1>6. /\ replayLog' \in Seq(Line) /\ glued \subseteq glued' /\ glued' \subseteq ReplayId
      /\ \A i \in Owed' : InLog(i, owedUntil[i])' \/ \E l \in appends' : l.id = i
  <2>1. CASE unended
    <3> DEFINE last == replayLog[Len(replayLog)]
    <3>1. /\ replayLog' = [replayLog EXCEPT ![Len(replayLog)].good = FALSE] /\ replayLog # <<>>
          /\ glued' = glued \union {line.id} \union (IF last.good THEN {last.id} ELSE {})
      BY <2>1, <1>1, <1>3
    <3>2. last \in Line /\ last.id \in ReplayId
      <4>1. last \in Line
        BY <3>1, <1>3
      <4> QED BY <4>1 DEF Line
    <3>3. replayLog' \in Seq(Line)
      <4>1. Len(replayLog) \in DOMAIN replayLog /\ [last EXCEPT !.good = FALSE] \in Line
        <5>1. Len(replayLog) \in DOMAIN replayLog
          BY <3>1, <1>3
        <5> QED BY <5>1, <3>2, LineSet
      <4>2. replayLog' = [replayLog EXCEPT ![Len(replayLog)] = [last EXCEPT !.good = FALSE]]
        BY <3>1, <4>1
      <4> QED BY <4>1, <4>2, <1>3
    <3>4. ASSUME NEW i \in Owed' PROVE InLog(i, owedUntil[i])' \/ \E l \in appends' : l.id = i
      <4>1. i \in Owed /\ i # line.id /\ ~(last.good /\ last.id = i)
        BY <3>1, <1>2 DEF Owed
      <4>2. InLog(i, owedUntil[i]) \/ \E l \in appends : l.id = i
        BY <4>1 DEF ReplayInv, OwedIsKept
      <4>3. CASE \E l \in appends : l.id = i
        BY <4>1, <4>3, <1>1
      <4>4. CASE InLog(i, owedUntil[i])
        <5>1. InLog(i, owedUntil[i])'
          <6> DEFINE u == owedUntil[i]
          <6>1. ASSUME NEW v, v = u PROVE InLog(i, v)'
            BY <4>1, <4>4, <3>1, <1>3, <6>1, GlueKeeps
          <6> QED BY <6>1, <1>2 DEF InLog
        <5> QED BY <5>1
      <4> QED BY <4>2, <4>3, <4>4
    <3> QED BY <3>1, <3>2, <3>3, <3>4, <1>3, <1>4
  <2>2. CASE ~unended
    <3>1. replayLog' = Append(replayLog, line) /\ UNCHANGED glued
      BY <2>2, <1>1
    <3>2. replayLog' \in Seq(Line)
      BY <3>1, <1>3, <1>4
    <3>3. ASSUME NEW i \in Owed' PROVE InLog(i, owedUntil[i])' \/ \E l \in appends' : l.id = i
      <4>1. i \in Owed
        BY <3>1, <1>2, <3>3 DEF Owed
      <4>2. InLog(i, owedUntil[i]) \/ \E l \in appends : l.id = i
        BY <4>1 DEF ReplayInv, OwedIsKept
      <4>3. CASE i = line.id
        <5>1. InLog(line.id, line.exp)'
          BY <3>1, <1>3, <1>4, AppendSays
        <5> QED BY <5>1, <4>3, <1>2, <1>4 DEF InLog
      <4>4. CASE i # line.id /\ \E l \in appends : l.id = i
        BY <4>4, <1>1
      <4>5. CASE i # line.id /\ InLog(i, owedUntil[i])
        <5>1. ASSUME NEW v, v = owedUntil[i] PROVE InLog(i, v)'
          BY <5>1, <4>5, <3>1, <1>3, <1>4, AppendKeeps
        <5> QED BY <5>1, <1>2 DEF InLog
      <4> QED BY <4>2, <4>3, <4>4, <4>5
    <3> QED BY <3>1, <3>2, <3>3, <1>3
  <2> QED BY <2>1, <2>2
<1>7. ReplayTypeOK'
  BY <1>1, <1>2, <1>3, <1>6 DEF ReplayInv, ReplayTypeOK, Line, Expiries
<1>8. OwedIsKept'
  <2>1. \A i \in Owed' : i \in Owed
    BY <1>2, <1>6 DEF Owed
  <2> QED BY <2>1, <1>2, <1>6 DEF ReplayInv, OwedIsKept
<1> QED BY <1>2, <1>5, <1>7, <1>8 DEF ReplayInv, DownIsQuiet

LEMMA EvictExpiredKeeps == ASSUME ReplayInv, EvictExpired PROVE ReplayInv'
<1>1. /\ seenUntil' = SetSeen(Live(seenUntil)) /\ logState = "up"
      /\ UNCHANGED <<replayLog, unended, appends, logState, replayNow, replayDeaths, owedUntil, excused, glued, accepted2>>
  BY DEF EvictExpired
<1>2. seenUntil' \in [ReplayId -> Expiries] /\ \A i \in ReplayId : seenUntil[i] > replayNow => seenUntil'[i] = seenUntil[i]
  BY <1>1, NowTyped DEF SetSeen, Live, ReplayInv, ReplayTypeOK
<1>3. ReplayTypeOK'
  BY <1>1, <1>2 DEF ReplayInv, ReplayTypeOK, Line, Expiries
<1>4. Owed' = Owed
  BY <1>1 DEF Owed
<1>5. \A i \in Owed : seenUntil'[i] = seenUntil[i]
  BY <1>1, <1>2 DEF ReplayInv, OwedIsKept, Owed
<1>6. OwedIsKept'
  BY <1>1, <1>4, <1>5 DEF ReplayInv, OwedIsKept, InLog
<1> QED BY <1>1, <1>3, <1>6 DEF ReplayInv, DownIsQuiet, AppendsOwed, AcceptedOnce

\* A death costs only what was about to be written.
LEMMA ProcessDiesKeeps == ASSUME ReplayInv, ProcessDies PROVE ReplayInv'
<1>1. /\ excused' = excused \union {l.id : l \in appends} /\ appends' = {} /\ logState' = "down"
      /\ replayDeaths' = replayDeaths + 1 /\ replayDeaths < ReplayCrashes
      /\ seenUntil' = [i \in ReplayId |-> 0] /\ UNCHANGED <<replayNow, owedUntil, glued, accepted2>>
  BY DEF ProcessDies
<1>2. /\ replayLog \in Seq(Line) /\ appends \subseteq Line /\ excused \subseteq ReplayId /\ replayDeaths \in 0 .. ReplayCrashes
  BY DEF ReplayInv, ReplayTypeOK
<1>3. ASSUME NEW i \in Owed' PROVE i \in Owed /\ InLog(i, owedUntil[i]) /\ ~\E l \in appends : l.id = i
  <2>1. i \in Owed /\ ~\E l \in appends : l.id = i
    BY <1>1, <1>3 DEF Owed
  <2> QED BY <2>1 DEF ReplayInv, OwedIsKept
<1>4. /\ replayLog' \in Seq(Line) /\ unended' \in BOOLEAN /\ (unended' => replayLog' # <<>>)
      /\ \A i \in Owed' : InLog(i, owedUntil[i])'
  <2>1. CASE UNCHANGED <<replayLog, unended>>
    BY <2>1, <1>1, <1>3 DEF ReplayInv, ReplayTypeOK, InLog
  <2>2. CASE \E line \in appends, whole \in BOOLEAN :
               replayLog' = Append(replayLog, [line EXCEPT !.good = whole]) /\ unended' = TRUE
    <3>1. PICK line \in appends, whole \in BOOLEAN :
               replayLog' = Append(replayLog, [line EXCEPT !.good = whole]) /\ unended' = TRUE
      BY <2>2
    <3> DEFINE l == [line EXCEPT !.good = whole]
    <3>2. l \in Line /\ l.id = line.id
      BY <1>2, LineSet
    <3>3. replayLog' = Append(replayLog, l)
      BY <3>1
    <3> HIDE DEF l
    <3>4. replayLog' \in Seq(Line) /\ replayLog' # <<>>
      BY <3>2, <3>3, <1>2, LogEnds
    <3>5. ASSUME NEW i \in Owed' PROVE InLog(i, owedUntil[i])'
      <4>1. InLog(i, owedUntil[i]) /\ l.id # i
        BY <3>2, <3>5, <1>3
      <4>2. ASSUME NEW v, v = owedUntil[i] PROVE InLog(i, v)'
        BY <4>1, <4>2, <3>2, <3>3, <1>2, AppendKeeps
      <4> QED BY <4>2, <1>1 DEF InLog
    <3> QED BY <3>1, <3>4, <3>5
  <2> QED BY <2>1, <2>2 DEF ProcessDies
<1>5. ReplayTypeOK'
  <2>1. replayDeaths' \in 0 .. ReplayCrashes
    BY <1>1, <1>2, ReplayAssumption
  <2>2. excused' \subseteq ReplayId
    BY <1>1, <1>2 DEF Line
  <2>3. seenUntil' \in [ReplayId -> Expiries]
    BY <1>1, NowTyped DEF ReplayInv
  <2> QED BY <1>1, <1>4, <2>1, <2>2, <2>3 DEF ReplayInv, ReplayTypeOK, Expiries, Line
<1>6. OwedIsKept'
  BY <1>1, <1>4 DEF OwedIsKept
<1> QED BY <1>1, <1>5, <1>6 DEF ReplayInv, DownIsQuiet, AppendsOwed, AcceptedOnce

LEMMA OpenCacheKeeps == ASSUME ReplayInv, OpenCache PROVE ReplayInv'
<1>1. /\ seenUntil' = Loaded /\ logState = "down" /\ logState' \in {"compact", "up"}
      /\ UNCHANGED <<replayLog, unended, appends, replayNow, replayDeaths, owedUntil, excused, glued, accepted2>>
  BY DEF OpenCache
<1>2. replayLog \in Seq(Line) /\ replayNow \in Nat /\ owedUntil \in [ReplayId -> Expiries]
  BY NowTyped DEF ReplayInv, ReplayTypeOK
<1>3. seenUntil' \in [ReplayId -> Expiries]
  <2>1. \A i \in ReplayId : Loaded[i] \in Expiries
    BY <1>2, LoadedIs
  <2>2. Loaded = [i \in ReplayId |-> Loaded[i]]
    BY DEF Loaded
  <2> QED BY <2>1, <2>2, <1>1
<1>4. ReplayTypeOK'
  BY <1>1, <1>3 DEF ReplayInv, ReplayTypeOK, Line, Expiries
<1>5. ASSUME NEW i \in Owed' PROVE (InLog(i, owedUntil[i])' \/ \E l \in appends' : l.id = i) /\ seenUntil'[i] = owedUntil'[i]
  <2>1. i \in Owed /\ i \in ReplayId /\ owedUntil[i] > replayNow /\ owedUntil[i] \in Expiries
    BY <1>1, <1>2, <1>5 DEF Owed
  <2>2. InLog(i, owedUntil[i])
    BY <2>1, <1>1 DEF ReplayInv, OwedIsKept, DownIsQuiet
  <2>3. Loaded[i] = owedUntil[i]
    BY <2>1, <2>2, <1>2, LoadedIs
  <2>4. InLog(i, owedUntil[i])'
    BY <2>2, <1>1 DEF InLog
  <2> QED BY <2>3, <2>4, <1>1
<1>6. OwedIsKept'
  BY <1>5 DEF OwedIsKept
<1> QED BY <1>1, <1>4, <1>6 DEF ReplayInv, DownIsQuiet, AppendsOwed, AcceptedOnce

\* The lines of the new file are those of everything present.
LEMMA CompactKeeps == ASSUME ReplayInv, Compact PROVE ReplayInv'
<1> DEFINE P == Present(seenUntil)
<1>1. PICK lines \in [1 .. Cardinality(P) -> P] :
        /\ Cardinality({lines[n] : n \in DOMAIN lines}) = Cardinality(DOMAIN lines)
        /\ replayLog' = [n \in DOMAIN lines |-> [id |-> lines[n], exp |-> seenUntil[lines[n]], good |-> TRUE]]
  BY DEF Compact
<1>2. /\ logState = "compact" /\ logState' = "up" /\ unended' = FALSE
      /\ UNCHANGED <<seenUntil, appends, replayNow, replayDeaths, owedUntil, excused, glued, accepted2>>
  BY DEF Compact
<1>3. P \subseteq ReplayId /\ IsFiniteSet(P) /\ Cardinality(P) \in Nat
  <2>1. P \subseteq ReplayId
    BY DEF Present
  <2> QED BY <2>1, ReplayAssumption, FS_Subset, FS_CardinalityType
<1>4. seenUntil \in [ReplayId -> Expiries]
  BY DEF ReplayInv, ReplayTypeOK
<1> HIDE DEF P
<1>5. DOMAIN lines = 1 .. Cardinality(P) /\ Cardinality(DOMAIN lines) = Cardinality(P)
  <2>1. Cardinality(1 .. Cardinality(P)) = IF 1 > Cardinality(P) THEN 0 ELSE Cardinality(P) - 1 + 1
    BY <1>3, FS_Interval
  <2> QED BY <2>1, <1>3
<1>6. {lines[n] : n \in DOMAIN lines} = P
  <2> DEFINE R == {lines[n] : n \in DOMAIN lines}
  <2>1. R \in SUBSET P
    BY <1>1
  <2>2. Cardinality(P) = Cardinality(R)
    BY <1>1, <1>5
  <2> HIDE DEF R
  <2>3. R = P
    BY <2>1, <2>2, <1>3, FS_Subset
  <2> QED BY <2>3 DEF R
<1>7. replayLog' \in Seq(Line)
  <2>1. \A n \in 1 .. Cardinality(P) : [id |-> lines[n], exp |-> seenUntil[lines[n]], good |-> TRUE] \in Line
    BY <1>1, <1>3, <1>4 DEF Line
  <2>2. replayLog' \in [1 .. Cardinality(P) -> Line]
    BY <1>1, <1>5, <2>1
  <2> QED BY <2>2, <1>3
<1>8. ReplayTypeOK'
  BY <1>2, <1>7 DEF ReplayInv, ReplayTypeOK, Line, Expiries
<1>9. ASSUME NEW i \in Owed PROVE InLog(i, owedUntil[i])'
  <2>1. seenUntil[i] = owedUntil[i] /\ i \in ReplayId /\ owedUntil[i] > replayNow /\ replayNow \in Nat
    BY <1>2, NowTyped DEF ReplayInv, OwedIsKept, Owed
  <2>2. seenUntil[i] # 0
    BY <2>1
  <2>3. PICK k \in DOMAIN lines : lines[k] = i
    BY <2>1, <2>2, <1>6 DEF Present, P
  <2>4. DOMAIN replayLog' = DOMAIN lines
    BY <1>1
  <2>5. \A n \in DOMAIN lines : replayLog'[n].id = lines[n] /\ replayLog'[n].good /\ replayLog'[n].exp = seenUntil[lines[n]]
    BY <1>1
  <2> QED BY <2>1, <2>3, <2>4, <2>5, <1>2 DEF InLog
<1>10. Owed' = Owed
  BY <1>2 DEF Owed
<1>11. OwedIsKept'
  BY <1>2, <1>9, <1>10 DEF ReplayInv, OwedIsKept
<1> QED BY <1>2, <1>8, <1>11 DEF ReplayInv, DownIsQuiet, AppendsOwed, AcceptedOnce

LEMMA ReplayTickKeeps == ASSUME ReplayInv, ReplayTick PROVE ReplayInv'
<1>1. /\ replayNow < ReplayEnd /\ appends = {} /\ replayNow' = replayNow + 1
      /\ UNCHANGED <<seenUntil, replayLog, unended, appends, logState, replayDeaths, owedUntil, excused, glued, accepted2>>
  BY DEF ReplayTick
<1>2. replayNow' \in 1 .. ReplayEnd /\ owedUntil \in [ReplayId -> Nat] /\ replayNow \in Nat
  BY <1>1, NowTyped, ReplayAssumption DEF ReplayInv, ReplayTypeOK
<1>3. ReplayTypeOK'
  BY <1>1, <1>2 DEF ReplayInv, ReplayTypeOK, Line, Expiries
<1>4. \A i \in Owed' : i \in Owed
  BY <1>1, <1>2 DEF Owed
<1>5. OwedIsKept'
  BY <1>1, <1>4 DEF ReplayInv, OwedIsKept, InLog
<1> QED BY <1>1, <1>3, <1>5 DEF ReplayInv, DownIsQuiet, AppendsOwed, AcceptedOnce

\* Every step keeps it.
LEMMA ReplayStep == ReplayInv /\ [ReplayNext]_replayVars => ReplayInv'
<1> SUFFICES ASSUME ReplayInv, [ReplayNext]_replayVars PROVE ReplayInv'
  OBVIOUS
<1>1. CASE ReplayNext
  BY <1>1, MarkKeeps, AppendToLogKeeps, EvictExpiredKeeps, ProcessDiesKeeps, OpenCacheKeeps,
     CompactKeeps, ReplayTickKeeps DEF ReplayNext
<1>2. CASE UNCHANGED replayVars
  BY <1>2 DEF replayVars, ReplayInv, ReplayTypeOK, DownIsQuiet, AppendsOwed, OwedIsKept, Owed, InLog,
     AcceptedOnce, Line, Expiries
<1> QED BY <1>1, <1>2

\* No id is accepted twice within its time to live, but one the cache dropped for room,
\* had not yet written when the process died, or wrote onto an unended line (replay.rs:4-6).
THEOREM ReplaysAreRefused == ReplaySpec => []AcceptedOnce
<1>1. ReplayInv => AcceptedOnce
  BY DEF ReplayInv
<1> QED BY <1>1, ReplayInitInv, ReplayStep, PTL DEF ReplaySpec

-----------------------------------------------------------------------------
(* Paths and vanguards. *)

\* A vanguard, and the relays of a list of them.
Vans == [id : Hop, added : 0..Never, used : 0..Never, failed : 0..Never]
IdsOf(vs) == {vs[i].id : i \in DOMAIN vs}

\* The list keeps, with its age, every vanguard of it too young to go.
KeepsYoung(vs) ==
    \A i \in DOMAIN vanguards : pathNow < vanguards[i].added + Layer2MinLife =>
        \E j \in DOMAIN vs : vs[j].id = vanguards[i].id /\ vs[j].added = vanguards[i].added

\* What the vanguards and the history are.
VansTyped ==
    /\ vanguards \in Seq(Vans) /\ Len(vanguards) <= MaxLayer2
    /\ pathNow \in 0..PathEnd /\ layer2 \in [Hop -> SUBSET (0..PathEnd)]

\* Whoever was made a vanguard less than a minimum lifetime ago still is one.
YoungStays ==
    \A h \in Hop : \A a \in layer2[h] :
        /\ a <= pathNow
        /\ pathNow < a + Layer2MinLife => \E i \in DOMAIN vanguards : vanguards[i].id = h /\ vanguards[i].added = a

\* Together: who is young is still in the list, and the list is short.
PathInv == VansTyped /\ YoungStays /\ VanguardChurnBounded /\ PathIsDiverse

\* The relays made vanguards within a minimum lifetime from t on.
MadeIn(t) == {h \in Hop : \E a \in layer2[h] : t <= a /\ a < t + Layer2MinLife}

-----------------------------------------------------------------------------
\* The constants are numbers.
LEMMA ConstantsTyped ==
    /\ MaxLayer2 \in Nat /\ MaxLayer2 > 0 /\ Layer2Life \in Nat /\ Layer2MinLife \in Nat /\ Layer2MinLife <= Layer2Life
    /\ PathEnd \in Nat /\ Never \in Nat
BY HsPathsAssumption DEF Never

\* The times of a vanguard set to times.
LEMMA VanSet ==
    ASSUME NEW v \in Vans, NEW t \in 0..Never, NEW u \in 0..Never
    PROVE  /\ [v EXCEPT !.used = t, !.failed = u] \in Vans /\ [v EXCEPT !.failed = u] \in Vans
           /\ [v EXCEPT !.used = t, !.failed = u].id = v.id /\ [v EXCEPT !.failed = u].id = v.id
           /\ [v EXCEPT !.used = t, !.failed = u].added = v.added /\ [v EXCEPT !.failed = u].added = v.added
BY DEF Vans

\* The fields of a vanguard.
LEMMA VanTyped == ASSUME NEW v \in Vans
                  PROVE v.id \in Hop /\ v.added \in Nat /\ v.used \in 0..Never /\ v.failed \in 0..Never
BY ConstantsTyped DEF Vans

\* A list has no more relays than entries.
LEMMA IdsCounted == ASSUME NEW vs \in Seq(Vans)
                    PROVE IsFiniteSet(IdsOf(vs)) /\ Cardinality(IdsOf(vs)) <= Len(vs) /\ Cardinality(IdsOf(vs)) \in Nat
<1> DEFINE f == [i \in 1 .. Len(vs) |-> vs[i].id]
<1>1. IsFiniteSet(1 .. Len(vs)) /\ Cardinality(1 .. Len(vs)) = Len(vs) /\ Len(vs) \in Nat /\ DOMAIN vs = 1 .. Len(vs)
  <2>1. Cardinality(1 .. Len(vs)) = IF 1 > Len(vs) THEN 0 ELSE Len(vs) - 1 + 1
    BY FS_Interval
  <2>2. Len(vs) \in Nat /\ IsFiniteSet(1 .. Len(vs)) /\ DOMAIN vs = 1 .. Len(vs)
    BY FS_Interval
  <2>3. Cardinality(1 .. Len(vs)) = Len(vs)
    BY <2>1, <2>2
  <2> QED BY <2>2, <2>3
<1>2. f \in Surjection(1 .. Len(vs), IdsOf(vs))
  BY <1>1 DEF Surjection, IdsOf
<1> QED BY <1>1, <1>2, FS_Surjection, FS_CardinalityType

\* What is made of the vanguards at one moment keeps the invariant, if the young stay.
LEMMA BecomeKeeps ==
    ASSUME VansTyped, YoungStays, VanguardChurnBounded, NEW vs \in Seq(Vans), Len(vs) <= MaxLayer2, KeepsYoung(vs),
           Become(vs), pathNow' = pathNow
    PROVE  VansTyped' /\ YoungStays' /\ VanguardChurnBounded'
<1>1. /\ vanguards' = vs
      /\ layer2' = [h \in Hop |-> IF \E i \in 1..Len(vs) : vs[i].id = h /\ vs[i].added = pathNow
                                  THEN layer2[h] \cup {pathNow} ELSE layer2[h]]
  BY DEF Become
<1>2. pathNow \in Nat /\ pathNow \in 0..PathEnd /\ layer2 \in [Hop -> SUBSET (0..PathEnd)] /\ DOMAIN vs = 1..Len(vs)
  BY ConstantsTyped DEF VansTyped
<1>3. VansTyped'
  BY <1>1, <1>2 DEF VansTyped
<1>4. ASSUME NEW h \in Hop, NEW a \in layer2'[h]
      PROVE  a \in layer2[h] \/ (a = pathNow /\ \E i \in DOMAIN vs : vs[i].id = h /\ vs[i].added = pathNow)
  BY <1>1, <1>2, <1>4
<1>5. ASSUME NEW h \in Hop, NEW a \in layer2[h], pathNow < a + Layer2MinLife
      PROVE  \E i \in DOMAIN vs : vs[i].id = h /\ vs[i].added = a
  BY <1>5 DEF YoungStays, KeepsYoung
<1>6. YoungStays'
  <2> SUFFICES ASSUME NEW h \in Hop, NEW a \in layer2'[h]
               PROVE  /\ a <= pathNow
                      /\ pathNow < a + Layer2MinLife => \E i \in DOMAIN vs : vs[i].id = h /\ vs[i].added = a
    BY <1>1 DEF YoungStays
  <2>1. CASE a \in layer2[h]
    BY <2>1, <1>5 DEF YoungStays
  <2>2. CASE a = pathNow /\ \E i \in DOMAIN vs : vs[i].id = h /\ vs[i].added = pathNow
    BY <2>2, <1>2
  <2> QED BY <2>1, <2>2, <1>4
<1>7. ASSUME NEW t \in 0..PathEnd PROVE Cardinality(MadeIn(t)') <= MaxLayer2
  <2>0. t \in Nat
    BY ConstantsTyped
  <2>1. CASE t <= pathNow /\ pathNow < t + Layer2MinLife
    <3>1. ASSUME NEW h \in MadeIn(t)' PROVE h \in IdsOf(vs)
      <4>1. PICK a \in layer2'[h] : t <= a /\ a < t + Layer2MinLife
        BY DEF MadeIn
      <4>2. h \in Hop
        BY DEF MadeIn
      <4>3. CASE a \in layer2[h]
        <5>1. a \in Nat /\ pathNow < a + Layer2MinLife
          BY <4>1, <4>2, <4>3, <2>0, <2>1, <1>2, ConstantsTyped
        <5> QED BY <5>1, <4>2, <4>3, <1>5 DEF IdsOf
      <4> QED BY <4>2, <4>3, <1>4 DEF IdsOf
    <3>2. MadeIn(t)' \in SUBSET IdsOf(vs)
      BY <3>1
    <3>3. Cardinality(MadeIn(t)') <= Cardinality(IdsOf(vs)) /\ Cardinality(MadeIn(t)') \in Nat
      BY <3>2, IdsCounted, FS_Subset, FS_CardinalityType
    <3> QED BY <3>3, IdsCounted, ConstantsTyped
  <2>2. CASE ~(t <= pathNow /\ pathNow < t + Layer2MinLife)
    <3>1. ASSUME NEW h \in Hop PROVE (h \in MadeIn(t)') <=> (h \in MadeIn(t))
      <4>1. layer2[h] \subseteq layer2'[h]
        BY <1>1, <1>2
      <4>2. ASSUME NEW a \in layer2'[h], t <= a, a < t + Layer2MinLife PROVE a \in layer2[h]
        BY <4>2, <2>2, <1>4
      <4> QED BY <4>1, <4>2 DEF MadeIn
    <3>2. MadeIn(t)' = MadeIn(t)
      BY <3>1 DEF MadeIn
    <3> QED BY <3>2 DEF VanguardChurnBounded, MadeIn
  <2> QED BY <2>1, <2>2
<1>8. VanguardChurnBounded'
  BY <1>7 DEF VanguardChurnBounded, MadeIn
<1> QED BY <1>3, <1>6, <1>8

-----------------------------------------------------------------------------
\* Marking changes neither who the vanguards are nor since when.
LEMMA MarksKeep ==
    ASSUME VansTyped, NEW vs, \/ \E hs : vs = MarkUnreachable(vanguards, hs)
                              \/ \E v : vs = MarkUsed(vanguards, v)
    PROVE  vs \in Seq(Vans) /\ Len(vs) = Len(vanguards) /\ KeepsYoung(vs)
           /\ \A i \in DOMAIN vanguards : i \in DOMAIN vs /\ vs[i].id = vanguards[i].id /\ vs[i].added = vanguards[i].added
<1>1. vanguards \in Seq(Vans) /\ DOMAIN vanguards = 1 .. Len(vanguards) /\ Len(vanguards) \in Nat
      /\ pathNow \in 0..Never /\ Never \in 0..Never
  BY ConstantsTyped DEF VansTyped, Never
<1>2. DOMAIN vs = 1 .. Len(vanguards)
  BY DEF MarkUnreachable, MarkUsed
<1>3. ASSUME NEW i \in 1 .. Len(vanguards)
      PROVE  vs[i] \in Vans /\ vs[i].id = vanguards[i].id /\ vs[i].added = vanguards[i].added
  <2>1. vanguards[i] \in Vans
    BY <1>1
  <2>2. vs[i] \in {vanguards[i], [vanguards[i] EXCEPT !.failed = pathNow], [vanguards[i] EXCEPT !.used = pathNow, !.failed = Never]}
    BY <1>3 DEF MarkUnreachable, MarkUsed
  <2>3. [vanguards[i] EXCEPT !.failed = pathNow] \in Vans /\ [vanguards[i] EXCEPT !.used = pathNow, !.failed = Never] \in Vans
    BY <2>1, <1>1, VanSet
  <2>4. /\ [vanguards[i] EXCEPT !.failed = pathNow].id = vanguards[i].id
        /\ [vanguards[i] EXCEPT !.failed = pathNow].added = vanguards[i].added
        /\ [vanguards[i] EXCEPT !.used = pathNow, !.failed = Never].id = vanguards[i].id
        /\ [vanguards[i] EXCEPT !.used = pathNow, !.failed = Never].added = vanguards[i].added
    <3>1. ASSUME NEW v \in Vans, NEW t \in 0..Never, NEW u \in 0..Never
          PROVE  /\ [v EXCEPT !.used = t, !.failed = u].id = v.id /\ [v EXCEPT !.failed = u].id = v.id
                 /\ [v EXCEPT !.used = t, !.failed = u].added = v.added /\ [v EXCEPT !.failed = u].added = v.added
      BY VanSet
    <3> QED BY <3>1, <2>1, <1>1
  <2> QED BY <2>1, <2>2, <2>3, <2>4
<1>4. vs \in [1 .. Len(vanguards) -> Vans]
  <2>1. vs = [i \in 1 .. Len(vanguards) |-> vs[i]]
    BY DEF MarkUnreachable, MarkUsed
  <2> QED BY <2>1, <1>3
<1>5. vs \in Seq(Vans) /\ Len(vs) = Len(vanguards)
  BY <1>1, <1>4
<1> QED BY <1>1, <1>2, <1>3, <1>5 DEF KeepsYoung

\* Making room for a candidate sends away nobody who is young.
LEMMA PopulatedKeeps ==
    ASSUME VansTyped, NEW marked \in Seq(Vans), Len(marked) <= MaxLayer2, NEW h \in Hop,
           \A i \in DOMAIN vanguards : i \in DOMAIN marked /\ marked[i].id = vanguards[i].id /\ marked[i].added = vanguards[i].added
    PROVE  /\ Populated(marked, h) \in Seq(Vans) /\ Len(Populated(marked, h)) <= MaxLayer2
           /\ KeepsYoung(Populated(marked, h))
<1> DEFINE stays(v) == ~ShouldRotate(v) /\ ~ShouldRemoveUnreachable(v)
           I == {i \in DOMAIN marked : stays(marked[i])}
           kept == SeqAt(marked, I)
           new == [id |-> h, added |-> pathNow, used |-> Never, failed |-> Never]
           P == Populated(marked, h)
<1>1. DOMAIN marked = 1 .. Len(marked) /\ Len(marked) \in Nat /\ pathNow \in Nat /\ MaxLayer2 \in Nat
  BY ConstantsTyped DEF VansTyped
<1>2. Taken(Vans, marked, I, Len(marked), kept)
  BY <1>1, SeqAtIsTaken
<1>3. new \in Vans
  BY ConstantsTyped DEF VansTyped, Vans, Never
<1>4. \/ P = marked \/ P = kept
      \/ P = Append(kept, new) /\ ~(Len(kept) >= MaxLayer2)
  BY DEF Populated
<1>5. ASSUME NEW i \in DOMAIN marked, pathNow < marked[i].added + Layer2MinLife PROVE i \in I
  <2>1. marked[i] \in Vans /\ marked[i].added \in Nat
    BY VanTyped
  <2>2. ~ShouldRotate(marked[i]) /\ ~ShouldRemoveUnreachable(marked[i])
    BY <2>1, <1>1, <1>5, ConstantsTyped DEF ShouldRotate, ShouldRemoveUnreachable
  <2> QED BY <2>2
<1> HIDE DEF I, kept, P, new
<1>6. /\ kept \in Seq(Vans) /\ Len(kept) <= Len(marked) /\ Len(kept) \in Nat /\ DOMAIN kept = 1 .. Len(kept)
      /\ \A i \in I : i \in 1 .. Len(marked) => \E j \in 1 .. Len(kept) : kept[j] = marked[i]
  <2>1. kept \in Seq(Vans) /\ Len(kept) <= Len(marked)
    BY <1>2 DEF Taken
  <2>2. PICK g \in [1 .. Len(kept) -> 1 .. Len(marked)] :
          /\ \A i \in 1 .. Len(kept) : kept[i] = marked[g[i]] /\ g[i] \in I
          /\ \A k \in 1 .. Len(marked) : k \in I => \E i \in 1 .. Len(kept) : g[i] = k
    BY <1>2 DEF Taken
  <2> QED BY <2>1, <2>2
<1>7. P \in Seq(Vans) /\ Len(P) <= MaxLayer2
  <2>1. marked \in Seq(Vans) /\ Len(marked) <= MaxLayer2
    OBVIOUS
  <2>2. kept \in Seq(Vans) /\ Len(kept) <= MaxLayer2
    BY <1>1, <1>6, <2>1
  <2>3. ASSUME ~(Len(kept) >= MaxLayer2) PROVE Append(kept, new) \in Seq(Vans) /\ Len(Append(kept, new)) <= MaxLayer2
    <3>1. Append(kept, new) \in Seq(Vans) /\ Len(Append(kept, new)) = Len(kept) + 1
      BY <1>3, <1>6
    <3> QED BY <1>1, <1>6, <2>3, <3>1
  <2> QED BY <1>4, <2>1, <2>2, <2>3
<1>8. ASSUME NEW i \in DOMAIN vanguards, pathNow < vanguards[i].added + Layer2MinLife
      PROVE  \E j \in DOMAIN P : P[j].id = vanguards[i].id /\ P[j].added = vanguards[i].added
  <2>1. i \in DOMAIN marked /\ marked[i].id = vanguards[i].id /\ marked[i].added = vanguards[i].added
    OBVIOUS
  <2>2. CASE P = marked
    BY <2>1, <2>2
  <2>3. PICK j \in 1 .. Len(kept) : kept[j] = marked[i]
    BY <2>1, <1>1, <1>5, <1>6, <1>8
  <2>4. CASE P = kept
    BY <2>1, <2>3, <2>4, <1>6
  <2>5. CASE P = Append(kept, new)
    <3>1. j \in DOMAIN P /\ P[j] = kept[j]
      BY <2>3, <2>5, <1>3, <1>6
    <3> QED BY <3>1, <2>1, <2>3
  <2> QED BY <2>2, <2>4, <2>5, <1>4
<1> QED BY <1>7, <1>8 DEF KeepsYoung, P

-----------------------------------------------------------------------------
\* The invariant holds at the start.
LEMMA PathInitInv == PathInit => PathInv
<1> SUFFICES ASSUME PathInit PROVE PathInv
  OBVIOUS
<1>1. VansTyped
  BY ConstantsTyped DEF PathInit, VansTyped
<1>2. YoungStays
  BY DEF PathInit, YoungStays
<1>3. VanguardChurnBounded
  <2>1. \A t \in 0..PathEnd : {h \in Hop : \E a \in layer2[h] : t <= a /\ a < t + Layer2MinLife} = {}
    BY DEF PathInit
  <2> QED BY <2>1, FS_EmptySet, ConstantsTyped DEF VanguardChurnBounded
<1>4. PathIsDiverse
  BY DEF PathInit, PathIsDiverse, Diverse
<1> QED BY <1>1, <1>2, <1>3, <1>4 DEF PathInv

\* What the selector returns is diverse: it compares each pair of the three hops once.
LEMMA SelectedIsDiverse == ASSUME NEW pinned, NEW path \in Paths(pinned) PROVE Diverse(path)
<1>1. PICK guard, middle, exit : path = <<guard, middle, exit>>
  BY DEF Paths, SelectPath
<1>2. Compatible(guard, exit) /\ Compatible(middle, guard) /\ Compatible(middle, exit)
  BY <1>1 DEF Paths, Selected, MiddleFits
<1>3. /\ guard # middle /\ guard # exit /\ middle # exit
      /\ Subnet[guard] # Subnet[middle] /\ Subnet[guard] # Subnet[exit] /\ Subnet[middle] # Subnet[exit]
      /\ ~SameFamily(guard, middle) /\ ~SameFamily(middle, guard) /\ ~SameFamily(guard, exit)
      /\ ~SameFamily(exit, guard) /\ ~SameFamily(middle, exit) /\ ~SameFamily(exit, middle)
  BY <1>2 DEF Compatible, SameFamily
<1>4. DOMAIN path = {1, 2, 3} /\ path[1] = guard /\ path[2] = middle /\ path[3] = exit
  BY <1>1
<1> QED BY <1>3, <1>4 DEF Diverse

\* A circuit of a hidden service keeps it, whatever comes of it.
LEMMA BuildHsKeeps ==
    ASSUME PathInv, NEW path \in Paths({}), NEW linked, NEW up, BuildHs(path, linked, up)
    PROVE  PathInv'
<1>1. VansTyped /\ YoungStays /\ VanguardChurnBounded /\ pathNow' = pathNow /\ Len(vanguards) <= MaxLayer2
  BY DEF PathInv, BuildHs, VansTyped
<1>2. circuitPath'.kind = "hs"
  <2>1. \E hops : circuitPath' = [kind |-> "hs", hops |-> hops]
    <3> DEFINE picked == Picked(vanguards)
               with(v) == [path EXCEPT ![2] = v]
    <3> HIDE DEF picked, with
    <3>1. circuitPath' = [kind |-> "hs", hops |-> path] \/ \E v \in picked : circuitPath' = [kind |-> "hs", hops |-> with(v)]
      BY DEF BuildHs, picked, with
    <3> QED BY <3>1
  <2> QED BY <2>1
<1>3. path[2] \in Hop
  BY DEF Paths, SelectPath, Eligible
<1>4. PICK vs \in Seq(Vans) : Len(vs) <= MaxLayer2 /\ KeepsYoung(vs) /\ Become(vs)
  <2>1. CASE \E hs : Become(Populated(MarkUnreachable(vanguards, hs), path[2]))
    <3>1. PICK hs : Become(Populated(MarkUnreachable(vanguards, hs), path[2]))
      BY <2>1
    <3> DEFINE marked == MarkUnreachable(vanguards, hs)
    <3>2. /\ marked \in Seq(Vans) /\ Len(marked) <= MaxLayer2
          /\ \A i \in DOMAIN vanguards : i \in DOMAIN marked /\ marked[i].id = vanguards[i].id /\ marked[i].added = vanguards[i].added
      BY <1>1, MarksKeep
    <3> HIDE DEF marked
    <3>3. /\ Populated(marked, path[2]) \in Seq(Vans) /\ Len(Populated(marked, path[2])) <= MaxLayer2
          /\ KeepsYoung(Populated(marked, path[2]))
      BY <3>2, <1>1, <1>3, PopulatedKeeps
    <3> QED BY <3>1, <3>3 DEF marked
  <2>2. CASE \E v : Become(MarkUsed(vanguards, v)) \/ Become(MarkUnreachable(vanguards, {v}))
    <3>1. PICK vs : Become(vs) /\ ((\E hs : vs = MarkUnreachable(vanguards, hs)) \/ (\E v : vs = MarkUsed(vanguards, v)))
      BY <2>2
    <3>2. vs \in Seq(Vans) /\ Len(vs) = Len(vanguards) /\ KeepsYoung(vs)
      BY <3>1, <1>1, MarksKeep
    <3> QED BY <3>1, <3>2, <1>1
  <2>3. (\E hs : Become(Populated(MarkUnreachable(vanguards, hs), path[2])))
        \/ (\E v : Become(MarkUsed(vanguards, v)) \/ Become(MarkUnreachable(vanguards, {v})))
    <3> DEFINE picked == Picked(vanguards)
    <3> HIDE DEF picked
    <3>1. \/ Become(Populated(MarkUnreachable(vanguards, picked), path[2]))
          \/ \E v \in picked : Become(IF up THEN MarkUsed(vanguards, v) ELSE MarkUnreachable(vanguards, {v}))
      BY DEF BuildHs, picked
    <3>2. ASSUME NEW v, Become(IF up THEN MarkUsed(vanguards, v) ELSE MarkUnreachable(vanguards, {v}))
          PROVE  Become(MarkUsed(vanguards, v)) \/ Become(MarkUnreachable(vanguards, {v}))
      <4>1. CASE up
        BY <3>2, <4>1
      <4>2. CASE ~up
        BY <3>2, <4>2
      <4> QED BY <4>1, <4>2
    <3> QED BY <3>1, <3>2
  <2> QED BY <2>1, <2>2, <2>3
<1>5. VansTyped' /\ YoungStays' /\ VanguardChurnBounded'
  BY <1>1, <1>4, BecomeKeeps
<1> QED BY <1>2, <1>5 DEF PathInv, PathIsDiverse

\* Every step keeps it.
LEMMA PathStep == PathInv /\ [PathNext]_pathVars => PathInv'
<1> SUFFICES ASSUME PathInv, [PathNext]_pathVars PROVE PathInv'
  OBVIOUS
<1>1. ASSUME NEW pinned, BuildPlain(pinned) PROVE PathInv'
  <2>1. PICK path \in Paths(pinned) : circuitPath' = [kind |-> "selected", hops |-> path]
    BY <1>1 DEF BuildPlain
  <2>2. PathIsDiverse'
    BY <2>1, SelectedIsDiverse DEF PathIsDiverse, Diverse
  <2> QED BY <1>1, <2>2 DEF BuildPlain, PathInv, VansTyped, YoungStays, VanguardChurnBounded, Vans, Never
<1>2. ASSUME NEW peers, BuildGiven(peers) PROVE PathInv'
  <2>1. PathIsDiverse'
    BY <1>2 DEF BuildGiven, PathIsDiverse
  <2> QED BY <1>2, <2>1 DEF BuildGiven, PathInv, VansTyped, YoungStays, VanguardChurnBounded, Vans, Never
<1>3. ASSUME NEW hs, Forget(hs) PROVE PathInv'
  <2> DEFINE vs == MarkUnreachable(vanguards, hs)
  <2>1. VansTyped /\ YoungStays /\ VanguardChurnBounded /\ pathNow' = pathNow /\ Len(vanguards) <= MaxLayer2
        /\ circuitPath' = circuitPath /\ Become(vs)
    BY <1>3 DEF PathInv, Forget, VansTyped
  <2>2. vs \in Seq(Vans) /\ Len(vs) <= MaxLayer2 /\ KeepsYoung(vs)
    BY <2>1, MarksKeep
  <2> HIDE DEF vs
  <2>3. VansTyped' /\ YoungStays' /\ VanguardChurnBounded'
    BY <2>1, <2>2, BecomeKeeps
  <2> QED BY <2>1, <2>3 DEF PathInv, PathIsDiverse, Diverse
<1>4. CASE PathTick
  <2>1. pathNow < PathEnd /\ pathNow' = pathNow + 1 /\ UNCHANGED <<vanguards, circuitPath, layer2>>
    BY <1>4 DEF PathTick
  <2>2. pathNow \in Nat /\ pathNow' \in 0..PathEnd /\ layer2 \in [Hop -> SUBSET (0..PathEnd)]
    BY <2>1, ConstantsTyped DEF PathInv, VansTyped
  <2>3. VansTyped'
    BY <2>1, <2>2 DEF PathInv, VansTyped, Vans, Never
  <2>4. YoungStays'
    <3> SUFFICES ASSUME NEW h \in Hop, NEW a \in layer2[h]
                 PROVE  /\ a <= pathNow'
                        /\ pathNow' < a + Layer2MinLife => \E i \in DOMAIN vanguards : vanguards[i].id = h /\ vanguards[i].added = a
      BY <2>1 DEF YoungStays
    <3>1. a \in Nat /\ a <= pathNow
      BY <2>2 DEF PathInv, YoungStays
    <3>2. pathNow' < a + Layer2MinLife => pathNow < a + Layer2MinLife
      BY <2>1, <2>2, <3>1, ConstantsTyped
    <3>3. a <= pathNow'
      BY <2>1, <2>2, <3>1
    <3> QED BY <3>2, <3>3 DEF PathInv, YoungStays
  <2> QED BY <2>1, <2>3, <2>4 DEF PathInv, VanguardChurnBounded, PathIsDiverse, Diverse
<1>5. CASE UNCHANGED pathVars
  BY <1>5 DEF pathVars, PathInv, VansTyped, YoungStays, VanguardChurnBounded, PathIsDiverse, Diverse, Vans, Never
<1> QED BY <1>1, <1>2, <1>3, <1>4, <1>5, BuildHsKeeps DEF PathNext

\* Whatever links and circuits fail and whatever the operator forgets, no more than
\* MaxLayer2 relays are made vanguards within the shortest life of one
\* (vanguards.rs, "prevents adversarial churn"), and the hops of a selected path are
\* apart from each other (path_select.rs).
THEOREM PathsAlwaysHold == PathSpec => []PathsHold
<1>1. PathInv => PathsHold
  BY DEF PathInv, PathsHold
<1> QED BY <1>1, PathInitInv, PathStep, PTL DEF PathSpec

-----------------------------------------------------------------------------
(* The directory. *)

\* The commitments of an authority that its vote, a draft or the file shows.
CommitsOf(a) ==
    {v.commit : v \in votes[a]}
      \cup {c[2] : c \in {c \in UNION {d.commits : d \in UNION {drafts[b] : b \in Authority}} : c[1] = a}}
      \cup {c[2] : c \in {c \in UNION {f.doc.commits : f \in file} : c[1] = a}}

\* Each of them is to the value the authority holds for that period, as long as it holds it.
ToItsValue(a, k) ==
    /\ k[1] \in Nat /\ k[1] <= pending[a].period + 1 /\ k[2] # 0
    /\ k[1] = pending[a].period + 1 => k[2] = pending[a].next
    /\ k[1] = pending[a].period => k[2] = pending[a].value
    /\ \A v \in votes[a] : k[1] * Epoch = v.after => k[2] = v.reveal

\* An authority's srv_pending.json.
Contributions == [period : Nat, value : Nat, next : Nat, drawn : Nat]
\* No authority is ahead of the clock.
DirShape ==
    /\ now \in Nat /\ pending \in [Authority -> Contributions]
    /\ DOMAIN votes = Authority /\ DOMAIN drafts = Authority /\ DOMAIN cached = Node
    /\ \A a \in Authority : pending[a].period <= Period

\* Whoever signed is an authority, and what a node holds was signed by two thirds of them.
Signed ==
    /\ \A f \in file :
          f = [doc |-> f.doc, sigs |-> f.sigs] /\ f.sigs \subseteq Authority /\ Authority # {}
    /\ \A n \in Node : \A c \in cached[n] :
          /\ c = [doc |-> c.doc, sigs |-> c.sigs] /\ c.sigs \subseteq Authority /\ Authority # {}
          /\ Cardinality(c.sigs) >= ThresholdFor(Cardinality(Authority))

(***************************************************************************)
(* Why a commitment binds. An authority's own state forgets a value when a *)
(* period is over, but its vote, other authorities' drafts and the file    *)
(* outlive it, and any of them may be merged or signed again late. So the  *)
(* invariant is about every commitment in view, not only the last          *)
(* consensus's: it is to what the authority holds for that period as long  *)
(* as it holds it, and to what its vote reveals. Nothing makes a new       *)
(* commitment but a vote, and a vote's is for a period yet to come.        *)
(***************************************************************************)
DirInv ==
    /\ DirShape /\ Signed
    /\ \A a \in Authority : \A k \in CommitsOf(a) : ToItsValue(a, k)

-----------------------------------------------------------------------------
\* Periods are numbers, and go by with time.
LEMMA PeriodGoesOn ==
  ASSUME NEW n \in Nat, NEW e \in Nat \ {0}
  PROVE  n \div e \in Nat /\ n \div e <= (n + 1) \div e
OBVIOUS

\* Two periods that begin at once are one.
LEMMA PeriodStarts == ASSUME NEW p \in Nat, NEW q \in Nat, NEW e \in Nat \ {0}, p * e = q * e PROVE p = q
OBVIOUS

\* A run of srv_contribution moves the state on to the present period and no value of
\* the period it commits to is drawn twice.
LEMMA ContributionIs ==
  ASSUME DirShape, NEW a \in Authority
  PROVE  /\ Contribution(a) \in Contributions /\ Contribution(a).period = Period /\ Contribution(a).next # 0
         /\ pending[a].period = Period =>
              /\ Contribution(a).value = pending[a].value
              /\ pending[a].next # 0 => Contribution(a).next = pending[a].next
         /\ pending[a].period + 1 = Period => Contribution(a).value = pending[a].next
         /\ pending[a].period \in Nat /\ pending[a].period <= Period /\ Period \in Nat
<1> DEFINE st == pending[a]
           ad == Advanced(st, Period)
<1>1. st \in Contributions /\ st.period <= Period /\ Period \in Nat
  <2>1. Period \in Nat
    BY DirectoryAssumption, PeriodGoesOn DEF DirShape, Period
  <2>2. QED BY <2>1 DEF DirShape
<1>2. /\ ad \in Contributions /\ ad.period = Period
      /\ st.period = Period => ad = st
      /\ st.period + 1 = Period => ad.value = st.next
      /\ st.period < Period => ad.next = 0
  <2>1. CASE Period <= st.period
    BY <1>1, <2>1 DEF Advanced, Contributions
  <2>2. CASE ~ Period <= st.period
    BY <1>1, <2>2 DEF Advanced, Contributions
  <2>3. QED BY <2>1, <2>2
<1>3. ASSUME NEW r \in Contributions
      PROVE  /\ Drawn(r) \in Contributions /\ Drawn(r).period = r.period /\ Drawn(r).value = r.value
             /\ Drawn(r).next # 0 /\ (r.next # 0 => Drawn(r).next = r.next)
  <2>1. CASE r.next # 0
    BY <1>3, <2>1 DEF Drawn
  <2>2. CASE r.next = 0
    <3>1. /\ r.period \in Nat /\ r.value \in Nat /\ r.drawn \in Nat
          /\ r = [period |-> r.period, value |-> r.value, next |-> r.next, drawn |-> r.drawn]
      BY <1>3 DEF Contributions
    <3>2. Drawn(r) = [period |-> r.period, value |-> r.value, next |-> r.drawn + 1, drawn |-> r.drawn + 1]
      BY <2>2, <3>1 DEF Drawn
    <3>3. QED BY <2>2, <3>1, <3>2 DEF Contributions
  <2>3. QED BY <2>1, <2>2
<1>4. Contribution(a) = Drawn(ad)
  BY DEF Contribution
<1> HIDE DEF ad
<1>5. /\ Drawn(ad) \in Contributions /\ Drawn(ad).period = ad.period /\ Drawn(ad).value = ad.value
      /\ Drawn(ad).next # 0 /\ (ad.next # 0 => Drawn(ad).next = ad.next)
  BY <1>2, <1>3
<1>6. st.period \in Nat
  BY <1>1 DEF Contributions
<1>7. QED BY <1>1, <1>2, <1>4, <1>5, <1>6

-----------------------------------------------------------------------------
\* Where the commitments are looked for, one place at a time.
LEMMA CommitPlaces ==
  ASSUME NEW a \in Authority
  PROVE  \A k : k \in CommitsOf(a) <=>
           \/ \E v \in votes[a] : k = v.commit
           \/ \E b \in Authority : \E d \in drafts[b] : \E c \in d.commits : c[1] = a /\ k = c[2]
           \/ \E f \in file : \E c \in f.doc.commits : c[1] = a /\ k = c[2]
BY DEF CommitsOf

\* Steps that make no vote and no contribution: the commitments they leave in view were
\* in view before.
LEMMA FaithKept ==
  ASSUME DirInv, DirShape', Signed', UNCHANGED <<pending, votes>>,
         \A a \in Authority : CommitsOf(a)' \subseteq CommitsOf(a)
  PROVE  DirInv'
<1>1. ASSUME NEW a \in Authority, NEW k \in CommitsOf(a)' PROVE ToItsValue(a, k)'
  <2>1. ToItsValue(a, k)
    BY <1>1 DEF DirInv
  <2>2. QED BY <2>1 DEF ToItsValue
<1>2. QED BY <1>1 DEF DirInv

\* The start.
LEMMA DirInitially == DirInit => DirInv
<1> SUFFICES ASSUME DirInit PROVE DirInv
  OBVIOUS
<1>1. DirShape
  <2>1. now \in Nat /\ 0 \in Nat /\ Epoch \in Nat \ {0}
    BY DirectoryAssumption DEF DirInit
  <2>2. Period \in Nat
    BY <2>1, PeriodGoesOn DEF Period
  <2>3. QED BY <2>1, <2>2 DEF DirInit, DirShape, Contributions
<1>2. Signed
  BY DEF DirInit, Signed
<1>3. ASSUME NEW a \in Authority PROVE CommitsOf(a) = {}
  BY <1>3 DEF DirInit, CommitsOf
<1>4. QED BY <1>1, <1>2, <1>3 DEF DirInv

\* A scan: the state moves on to this period, and the vote with it or not.
LEMMA ScanKeeps == ASSUME DirInv, NEW a \in Authority, Scan(a) PROVE DirInv'
<1> DEFINE st == Contribution(a)
<1>1. /\ DirShape /\ Signed /\ \A b \in Authority : \A k \in CommitsOf(b) : ToItsValue(b, k)
      /\ Epoch \in Nat \ {0}
  BY DirectoryAssumption DEF DirInv
<1>2. /\ st \in Contributions /\ st.period = Period /\ st.next # 0
      /\ pending[a].period = Period =>
           /\ st.value = pending[a].value
           /\ pending[a].next # 0 => st.next = pending[a].next
      /\ pending[a].period + 1 = Period => st.value = pending[a].next
      /\ pending[a].period \in Nat /\ pending[a].period <= Period /\ Period \in Nat
  BY <1>1, ContributionIs
<1>3. /\ pending' = [pending EXCEPT ![a] = st] /\ UNCHANGED <<now, drafts, file, cached>>
      /\ \/ votes' = votes
         \/ \E list, bw : votes' = [votes EXCEPT ![a] = {Vote(a, list, bw)}]
  BY DEF Scan
<1>4. ASSUME NEW list, NEW bw
      PROVE  /\ Vote(a, list, bw).commit = <<Period + 1, st.next>> /\ Vote(a, list, bw).reveal = st.value
             /\ Vote(a, list, bw).after = Period * Epoch
  BY <1>2 DEF Vote, Commit
<1> HIDE DEF st
<1>5. DirShape' /\ Signed'
  <2>1. DirShape'
    BY <1>1, <1>2, <1>3 DEF DirShape, Period
  <2>2. Signed'
    BY <1>1, <1>3 DEF Signed
  <2>3. QED BY <2>1, <2>2
<1>6. /\ pending'[a] = st /\ \A b \in Authority \ {a} : pending'[b] = pending[b] /\ votes'[b] = votes[b]
      /\ \/ votes'[a] = votes[a]
         \/ \E v : /\ votes'[a] = {v} /\ v.commit = <<Period + 1, st.next>> /\ v.reveal = st.value
                   /\ v.after = Period * Epoch
  BY <1>1, <1>3, <1>4 DEF DirShape
<1>7. ASSUME NEW b \in Authority, b # a, NEW k \in CommitsOf(b)' PROVE ToItsValue(b, k)'
  <2>1. k \in CommitsOf(b)
    BY <1>3, <1>6, <1>7 DEF CommitsOf
  <2>2. QED BY <1>1, <1>6, <1>7, <2>1 DEF ToItsValue
<1>8. ASSUME NEW k \in CommitsOf(a)' PROVE ToItsValue(a, k)'
  <2>1. \/ k \in CommitsOf(a)
        \/ /\ \E v : /\ votes'[a] = {v} /\ v.reveal = st.value /\ v.after = Period * Epoch
           /\ k = <<Period + 1, st.next>>
    <3>1. \/ \E v \in votes'[a] : k = v.commit
          \/ \E b \in Authority : \E d \in drafts[b] : \E c \in d.commits : c[1] = a /\ k = c[2]
          \/ \E f \in file : \E c \in f.doc.commits : c[1] = a /\ k = c[2]
      BY <1>3, <1>8 DEF CommitsOf
    <3>2. CASE \E v \in votes'[a] : k = v.commit
      <4>1. CASE votes'[a] = votes[a]
        BY <3>2, <4>1, CommitPlaces
      <4>2. CASE \E v : /\ votes'[a] = {v} /\ v.commit = <<Period + 1, st.next>> /\ v.reveal = st.value
                        /\ v.after = Period * Epoch
        BY <3>2, <4>2
      <4>3. QED BY <1>6, <4>1, <4>2
    <3>3. QED BY <3>1, <3>2, CommitPlaces
  <2>2. CASE k \in CommitsOf(a)
    <3>1. /\ k[1] \in Nat /\ k[1] <= pending[a].period + 1 /\ k[2] # 0
          /\ k[1] = pending[a].period + 1 => k[2] = pending[a].next
          /\ k[1] = pending[a].period => k[2] = pending[a].value
          /\ \A v \in votes[a] : k[1] * Epoch = v.after => k[2] = v.reveal
      BY <1>1, <2>2 DEF ToItsValue
    <3>2. k[1] = Period => k[2] = st.value
      BY <1>2, <3>1
    <3>3. k[1] = Period + 1 => k[2] = st.next
      BY <1>2, <3>1
    <3>4. k[1] <= Period + 1
      BY <1>2, <3>1
    <3>5. ASSUME NEW v \in votes'[a], k[1] * Epoch = v.after PROVE k[2] = v.reveal
      <4>1. CASE votes'[a] = votes[a]
        BY <3>1, <3>5, <4>1
      <4>2. CASE v.reveal = st.value /\ v.after = Period * Epoch
        <5>1. k[1] = Period
          BY <1>1, <1>2, <3>1, <3>5, <4>2, PeriodStarts
        <5>2. QED BY <3>2, <4>2, <5>1
      <4>3. QED BY <1>6, <3>5, <4>1, <4>2
    <3>6. QED BY <1>2, <1>6, <3>1, <3>2, <3>3, <3>4, <3>5 DEF ToItsValue
  <2>3. ASSUME NEW v, votes'[a] = {v}, v.reveal = st.value, v.after = Period * Epoch, k = <<Period + 1, st.next>>
        PROVE  ToItsValue(a, k)'
    <3>1. k[1] = Period + 1 /\ k[2] = st.next
      BY <2>3
    <3>2. ASSUME k[1] * Epoch = v.after PROVE FALSE
      <4>1. Period + 1 = Period
        BY <1>1, <1>2, <2>3, <3>1, <3>2, PeriodStarts
      <4>2. QED BY <4>1, <1>2
    <3>3. QED BY <1>2, <1>6, <2>3, <3>1, <3>2 DEF ToItsValue
  <2>4. QED BY <2>1, <2>2, <2>3
<1>9. QED BY <1>5, <1>7, <1>8 DEF DirInv

\* A merge shows the commitments of the votes it was given.
LEMMA MergeKeeps == ASSUME DirInv, NEW a \in Authority, Merge(a) PROVE DirInv'
<1>1. DirShape /\ Signed
  BY DEF DirInv
<1>2. PICK order \in SetToSeqs(Voters), prev \in Previous :
        /\ drafts' = [drafts EXCEPT ![a] = {BuildConsensus(VotesAtHand, order, prev)}]
        /\ UNCHANGED <<now, pending, votes, file, cached>>
  BY DEF Merge
<1> DEFINE doc == BuildConsensus(VotesAtHand, order, prev)
<1>3. doc.commits = {<<x, VotesAtHand[x].commit>> : x \in Range(order)}
  BY DEF BuildConsensus
<1>4. \A x \in Range(order) : x \in Voters
  BY DEF SetToSeqs, Range
<1> HIDE DEF doc
<1>5. \A x \in Voters : VotesAtHand[x] \in votes[x]
  BY DEF VotesAtHand, Voters
<1>6. DirShape' /\ Signed'
  <2>1. DirShape'
    BY <1>1, <1>2 DEF DirShape, Period
  <2>2. Signed'
    BY <1>1, <1>2 DEF Signed
  <2>3. QED BY <2>1, <2>2
<1>7. ASSUME NEW b \in Authority, NEW k \in CommitsOf(b)' PROVE k \in CommitsOf(b)
  <2>1. CASE \E c \in doc.commits : c[1] = b /\ k = c[2]
    <3>1. PICK x \in Range(order) : b = x /\ k = VotesAtHand[x].commit
      BY <1>3, <2>1
    <3>2. QED BY <1>4, <1>5, <3>1 DEF CommitsOf
  <2>2. CASE ~ \E c \in doc.commits : c[1] = b /\ k = c[2]
    <3>1. \/ \E v \in votes[b] : k = v.commit
          \/ \E e \in Authority : \E d \in drafts'[e] : \E c \in d.commits : c[1] = b /\ k = c[2]
          \/ \E f \in file : \E c \in f.doc.commits : c[1] = b /\ k = c[2]
      BY <1>2, <1>7 DEF CommitsOf
    <3>2. \A e \in Authority : drafts'[e] = drafts[e] \/ drafts'[e] = {doc}
      BY <1>1, <1>2 DEF DirShape, doc
    <3>3. QED BY <2>2, <3>1, <3>2, CommitPlaces
  <2>3. QED BY <2>1, <2>2
<1>8. QED BY <1>2, <1>6, <1>7, FaithKept

\* What is combined is a draft; what is signed is the document that was there.
LEMMA FileKeeps ==
  ASSUME DirInv, Combine \/ \E a \in Authority : SignConsensus(a)
  PROVE  DirInv'
<1>1. DirShape /\ Signed
  BY DEF DirInv
<1>2. CASE Combine
  <2>0. PICK G \in SUBSET Authority : \E d \in UNION {drafts[a] : a \in G} :
          /\ file' = {[doc |-> d, sigs |-> G]} /\ drafts' = [a \in Authority |-> {}]
          /\ UNCHANGED <<now, pending, votes, cached>>
    BY <1>2 DEF Combine
  <2>1. PICK d \in UNION {drafts[a] : a \in G} :
          /\ file' = {[doc |-> d, sigs |-> G]} /\ drafts' = [a \in Authority |-> {}]
          /\ UNCHANGED <<now, pending, votes, cached>>
    BY <2>0
  <2>2. PICK e \in Authority : d \in drafts[e]
    BY <2>1
  <2>3. DirShape' /\ Signed'
    <3>1. DirShape'
      BY <1>1, <2>1 DEF DirShape, Period
    <3>2. Signed'
      BY <1>1, <2>1, <2>2 DEF Signed
    <3>3. QED BY <3>1, <3>2
  <2>4. ASSUME NEW b \in Authority, NEW k \in CommitsOf(b)' PROVE k \in CommitsOf(b)
    <3>1. \/ \E v \in votes[b] : k = v.commit
          \/ \E c \in d.commits : c[1] = b /\ k = c[2]
      BY <2>1, <2>4 DEF CommitsOf
    <3>2. QED BY <2>2, <3>1, CommitPlaces
  <2>5. QED BY <2>1, <2>3, <2>4, FaithKept
<1>3. CASE \E a \in Authority : SignConsensus(a)
  <2>1. PICK a \in Authority, f \in file :
          /\ file' = {[f EXCEPT !.sigs = @ \cup {a}]}
          /\ UNCHANGED <<now, pending, votes, drafts, cached>>
    BY <1>3 DEF SignConsensus
  <2>2. f.sigs \subseteq Authority /\ f = [doc |-> f.doc, sigs |-> f.sigs] /\ Authority # {}
    BY <1>1 DEF Signed
  <2>3. file' = {[doc |-> f.doc, sigs |-> f.sigs \cup {a}]}
    BY <2>1, <2>2
  <2>4. DirShape' /\ Signed'
    <3>1. DirShape'
      BY <1>1, <2>1 DEF DirShape, Period
    <3>2. Signed'
      BY <1>1, <2>1, <2>2, <2>3 DEF Signed
    <3>3. QED BY <3>1, <3>2
  <2>5. ASSUME NEW b \in Authority, NEW k \in CommitsOf(b)' PROVE k \in CommitsOf(b)
    <3>1. \/ \E v \in votes[b] : k = v.commit
          \/ \E e \in Authority : \E d \in drafts[e] : \E c \in d.commits : c[1] = b /\ k = c[2]
          \/ \E c \in f.doc.commits : c[1] = b /\ k = c[2]
      BY <2>1, <2>3, <2>5 DEF CommitsOf
    <3>2. QED BY <3>1, CommitPlaces
  <2>6. QED BY <2>1, <2>4, <2>5, FaithKept
<1>4. QED BY <1>2, <1>3

\* A node takes only what two thirds of the authorities signed.
LEMMA NodeKeeps ==
  ASSUME DirInv, NEW n \in Node, InstallConsensus(n) \/ NodeRestarts(n)
  PROVE  DirInv'
<1>1. DirShape /\ Signed
  BY DEF DirInv
<1>2. UNCHANGED <<now, pending, votes, drafts, file>>
  BY DEF InstallConsensus, NodeRestarts
<1>3. \/ cached' = [cached EXCEPT ![n] = {}]
      \/ \E c \in Sources(n) : VerifyConsensus(c) /\ cached' = [cached EXCEPT ![n] = {c}]
  BY DEF InstallConsensus, NodeRestarts
<1>4. ASSUME NEW c \in Sources(n), VerifyConsensus(c)
      PROVE  /\ c = [doc |-> c.doc, sigs |-> c.sigs] /\ c.sigs \subseteq Authority /\ Authority # {}
             /\ Cardinality(c.sigs) >= ThresholdFor(Cardinality(Authority))
  <2>1. c = [doc |-> c.doc, sigs |-> c.sigs] /\ c.sigs \subseteq Authority /\ Authority # {}
    <3>1. c \in file \/ \E m \in Node : c \in cached[m]
      BY DEF Sources
    <3>2. QED BY <1>1, <3>1 DEF Signed
  <2>2. c.sigs \cap Authority = c.sigs
    BY <2>1
  <2>3. QED BY <1>4, <2>1, <2>2 DEF VerifyConsensus
<1>5. DirShape'
  BY <1>1, <1>2, <1>3 DEF DirShape, Period
<1>6. Signed'
  <2>1. \A m \in Node : \A c \in cached'[m] : c \in cached[m] \/ (c \in Sources(n) /\ VerifyConsensus(c))
    BY <1>1, <1>3 DEF DirShape
  <2>2. QED BY <1>1, <1>2, <1>4, <2>1 DEF Signed
<1>7. \A b \in Authority : CommitsOf(b)' \subseteq CommitsOf(b)
  BY <1>2 DEF CommitsOf
<1>8. QED BY <1>2, <1>5, <1>6, <1>7, FaithKept

\* Time passes, and drafts of a period past are gone.
LEMMA TickKeeps == ASSUME DirInv, DirTick PROVE DirInv'
<1>1. DirShape /\ Signed /\ Epoch \in Nat \ {0}
  BY DirectoryAssumption DEF DirInv
<1>2. /\ now' = now + 1 /\ UNCHANGED <<pending, votes, file, cached>>
      /\ drafts' = drafts \/ drafts' = [a \in Authority |-> {}]
  BY DEF DirTick
<1>3. Period \in Nat /\ Period <= Period' /\ Period' \in Nat
  <2>1. now \in Nat /\ now + 1 \in Nat
    BY <1>1 DEF DirShape
  <2>2. now \div Epoch \in Nat /\ now \div Epoch <= (now + 1) \div Epoch
    BY <1>1, <2>1, PeriodGoesOn
  <2>3. (now + 1) \div Epoch \in Nat
    BY <1>1, <2>1, PeriodGoesOn
  <2>4. QED BY <1>2, <2>2, <2>3 DEF Period
<1>4. DirShape'
  <2>1. ASSUME NEW a \in Authority PROVE pending[a].period <= Period'
    <3>1. pending[a].period \in Nat /\ pending[a].period <= Period
      BY <1>1 DEF DirShape, Contributions
    <3>2. QED BY <1>3, <3>1
  <2>2. QED BY <1>1, <1>2, <2>1 DEF DirShape
<1>5. Signed'
  BY <1>1, <1>2 DEF Signed
<1>6. \A b \in Authority : CommitsOf(b)' \subseteq CommitsOf(b)
  BY <1>2 DEF CommitsOf
<1>7. QED BY <1>2, <1>4, <1>5, <1>6, FaithKept

\* Every step keeps the invariant.
LEMMA DirStepKeeps == DirInv /\ [DirNext]_dirVars => DirInv'
<1> SUFFICES ASSUME DirInv, [DirNext]_dirVars PROVE DirInv'
  OBVIOUS
<1>1. CASE UNCHANGED dirVars
  <2>1. DirShape' /\ Signed' /\ UNCHANGED <<pending, votes>>
    BY <1>1 DEF DirInv, DirShape, Signed, dirVars, Period
  <2>2. \A b \in Authority : CommitsOf(b)' \subseteq CommitsOf(b)
    BY <1>1 DEF dirVars, CommitsOf
  <2>3. QED BY <2>1, <2>2, FaithKept
<1>2. QED BY <1>1, ScanKeeps, MergeKeeps, FileKeeps, NodeKeeps, TickKeeps DEF DirNext

\* Two sets of two thirds of the authorities, rounded up, meet.
LEMMA QuorumsMeet ==
  ASSUME NEW S \in SUBSET Authority, NEW T \in SUBSET Authority, Authority # {},
         Cardinality(S) >= ThresholdFor(Cardinality(Authority)),
         Cardinality(T) >= ThresholdFor(Cardinality(Authority))
  PROVE  S \cap T # {}
<1> DEFINE n == Cardinality(Authority)
<1>1. IsFiniteSet(Authority) /\ n \in Nat /\ n # 0
  BY DirectoryAssumption, FS_CardinalityType, FS_EmptySet
<1>2. IsFiniteSet(S) /\ IsFiniteSet(T) /\ IsFiniteSet(S \cup T) /\ Cardinality(S \cup T) <= n
  BY <1>1, FS_Subset
<1>3. Cardinality(S \cup T) = Cardinality(S) + Cardinality(T) - Cardinality(S \cap T)
  BY <1>2, FS_Union
<1>4. Cardinality(S) \in Nat /\ Cardinality(T) \in Nat /\ Cardinality(S \cup T) \in Nat
  BY <1>2, FS_CardinalityType
<1>0. n \in Nat /\ n # 0
  BY <1>1
<1> HIDE DEF n
<1>5. 2 * ThresholdFor(n) > n /\ ThresholdFor(n) \in Nat
  BY <1>0 DEF ThresholdFor
<1>6. S \cap T = {} => Cardinality(S \cap T) = 0
  BY FS_EmptySet
<1>7. Cardinality(S) >= ThresholdFor(n) /\ Cardinality(T) >= ThresholdFor(n)
  BY DEF n
<1>8. SUFFICES ASSUME S \cap T = {} PROVE FALSE
  OBVIOUS
<1>9. Cardinality(S \cup T) = Cardinality(S) + Cardinality(T)
  BY <1>3, <1>4, <1>6, <1>8
<1>10. Cardinality(S \cup T) >= 2 * ThresholdFor(n)
  BY <1>4, <1>5, <1>7, <1>9
<1>11. QED BY <1>0, <1>2, <1>4, <1>5, <1>10

-----------------------------------------------------------------------------
\* Each of V once, in some order.
LEMMA OrderIs ==
  ASSUME NEW V, IsFiniteSet(V), NEW order \in SetToSeqs(V)
  PROVE  /\ Cardinality(V) \in Nat /\ order \in [1 .. Cardinality(V) -> V]
         /\ DOMAIN order = 1 .. Cardinality(V) /\ Range(order) = V
         /\ \A i, j \in DOMAIN order : order[i] = order[j] => i = j
<1> DEFINE n == Cardinality(V)
<1>1. n \in Nat
  BY FS_CardinalityType
<1>2. order \in [1 .. n -> V] /\ \A i, j \in 1 .. n : i # j => order[i] # order[j]
  BY DEF SetToSeqs
<1>3. order \in Injection(1 .. n, V)
  BY <1>2 DEF Injection, IsInjective
<1>4. Cardinality(1 .. n) = n
  BY <1>1, FS_Interval
<1>5. order \in Surjection(1 .. n, V)
  BY <1>3, <1>4, FS_Injection
<1>6. Range(order) = V
  BY <1>2, <1>5 DEF Surjection, Range
<1>7. QED BY <1>1, <1>2, <1>6

\* There is an order to list them in.
LEMMA OrderExists == ASSUME NEW V, IsFiniteSet(V) PROVE SetToSeqs(V) # {}
<1>1. PICK f : f \in Bijection(1 .. Cardinality(V), V)
  BY FS_CardinalityType DEF ExistsBijection
<1>2. f \in SetToSeqs(V)
  BY <1>1 DEF SetToSeqs, Bijection, Injection, IsInjective
<1>3. QED BY <1>2

\* What is counted over a list of R is counted over R.
LEMMA CountOf ==
  ASSUME NEW R, IsFiniteSet(R), NEW n \in Nat, NEW g \in Bijection(1 .. n, R), NEW Q \in SUBSET R
  PROVE  Cardinality({i \in 1 .. n : g[i] \in Q}) = Cardinality(Q)
<1> DEFINE I == {i \in 1 .. n : g[i] \in Q}
           k == [i \in I |-> g[i]]
<1>1. g \in [1 .. n -> R] /\ (\A i, j \in 1 .. n : g[i] = g[j] => i = j) /\ \A x \in R : \E i \in 1 .. n : g[i] = x
  BY DEF Bijection, Injection, Surjection, IsInjective
<1>2. k \in [I -> Q] /\ (\A i, j \in I : k[i] = k[j] => i = j) /\ \A x \in Q : \E i \in I : k[i] = x
  BY <1>1
<1>3. k \in Bijection(I, Q)
  BY <1>2 DEF Bijection, Injection, Surjection, IsInjective
<1>4. IsFiniteSet(1 .. n)
  BY FS_Interval
<1>5. IsFiniteSet(I)
  BY <1>4, FS_Subset
<1> HIDE DEF I, k
<1>6. QED BY <1>3, <1>5, FS_Bijection DEF ExistsBijection, I

-----------------------------------------------------------------------------
\* The votes in an order; who of V lists a relay; and what they say of it, in an order.
InOrder(order, from) == [i \in DOMAIN order |-> from[order[i]]]
Listing(V, from, r) == {x \in V : r \in DOMAIN from[x].peers}
Saying(R, g, from, r) == [i \in 1 .. Cardinality(R) |-> from[g[i]].peers[r]]

\* The entries of one relay are those of the votes that list it, each once.
LEMMA ObservationsAre ==
  ASSUME NEW V, IsFiniteSet(V), NEW from, NEW order \in SetToSeqs(V), NEW r
  PROVE  \E g \in Bijection(1 .. Cardinality(Listing(V, from, r)), Listing(V, from, r)) :
           Observations(InOrder(order, from), r) = Saying(Listing(V, from, r), g, from, r)
<1> DEFINE N == Cardinality(V)
           R == {x \in V : r \in DOMAIN from[x].peers}
           T == {from[x] : x \in V}
           vs == [i \in DOMAIN order |-> from[order[i]]]
           I == {i \in DOMAIN vs : r \in DOMAIN vs[i].peers}
           kept == SeqAt(vs, I)
<1>1. /\ N \in Nat /\ order \in [1 .. N -> V] /\ DOMAIN order = 1 .. N /\ Range(order) = V
      /\ \A i, j \in 1 .. N : order[i] = order[j] => i = j
  BY OrderIs
<1>2. vs \in [1 .. N -> T] /\ DOMAIN vs = 1 .. N
  BY <1>1
<1>3. vs \in Seq(T) /\ Len(vs) = N
  BY <1>1, <1>2
<1>4. I \in SUBSET (1 .. Len(vs))
  BY <1>2, <1>3
<1>5. \A i \in 1 .. N : i \in I <=> order[i] \in R
  BY <1>1
<1> HIDE DEF I, vs
<1>6. Taken(T, vs, I, N, kept)
  BY <1>3, <1>4, SeqAtIsTaken
<1>7. kept \in Seq(T) /\ Len(kept) \in Nat
  BY <1>6 DEF Taken
<1>8. PICK h \in [1 .. Len(kept) -> 1 .. N] :
        /\ \A i, j \in 1 .. Len(kept) : i < j => h[i] < h[j]
        /\ \A i \in 1 .. Len(kept) : kept[i] = vs[h[i]] /\ h[i] \in I
        /\ \A k \in 1 .. N : k \in I => \E i \in 1 .. Len(kept) : h[i] = k
  BY <1>6 DEF Taken
<1> DEFINE L == Len(kept)
           g == [i \in 1 .. L |-> order[h[i]]]
<1>9. Observations(vs, r) = [i \in 1 .. L |-> kept[i].peers[r]]
  <2>1. DOMAIN kept = 1 .. L
    BY <1>7
  <2>2. QED BY <2>1 DEF Observations, I
<1>10. L \in Nat
  BY <1>7
<1> HIDE DEF kept, L
<1>11. \A i, j \in 1 .. L : h[i] = h[j] => i = j
  <2>1. SUFFICES ASSUME NEW i \in 1 .. L, NEW j \in 1 .. L, h[i] = h[j], i # j PROVE FALSE
    OBVIOUS
  <2>2. i < j \/ j < i
    BY <1>10, <2>1
  <2>3. h[i] < h[j] \/ h[j] < h[i]
    BY <1>8, <2>1, <2>2 DEF L
  <2>4. h[i] \in Nat /\ h[j] \in Nat
    BY <1>8, <2>1 DEF L
  <2>5. QED BY <2>1, <2>3, <2>4
<1>12. g \in [1 .. L -> R] /\ (\A i, j \in 1 .. L : g[i] = g[j] => i = j) /\ \A x \in R : \E i \in 1 .. L : g[i] = x
  <2>1. \A i \in 1 .. L : h[i] \in 1 .. N /\ h[i] \in I
    BY <1>8 DEF L
  <2>2. g \in [1 .. L -> R]
    BY <1>5, <2>1
  <2>3. \A i, j \in 1 .. L : g[i] = g[j] => i = j
    BY <1>1, <1>11, <2>1
  <2>4. ASSUME NEW x \in R PROVE \E i \in 1 .. L : g[i] = x
    <3>1. PICK k \in 1 .. N : order[k] = x
      BY <1>1 DEF Range
    <3>2. k \in I
      BY <1>5, <3>1
    <3>3. PICK i \in 1 .. L : h[i] = k
      BY <1>8, <3>2 DEF L
    <3>4. QED BY <3>1, <3>3
  <2>5. QED BY <2>2, <2>3, <2>4
<1>13. \A i \in 1 .. L : kept[i] = from[g[i]]
  <2>1. \A i \in 1 .. L : h[i] \in 1 .. N /\ kept[i] = vs[h[i]]
    BY <1>8 DEF L
  <2>2. QED BY <1>1, <2>1 DEF vs
<1> HIDE DEF g
<1>14. g \in Bijection(1 .. L, R)
  BY <1>12 DEF Bijection, Injection, Surjection, IsInjective
<1>15. L = Cardinality(R)
  <2>1. IsFiniteSet(1 .. L) /\ Cardinality(1 .. L) = L
    BY <1>10, FS_Interval
  <2>2. QED BY <1>14, <2>1, FS_Bijection DEF ExistsBijection
<1>16. Observations(vs, r) = [i \in 1 .. Cardinality(R) |-> from[g[i]].peers[r]]
  BY <1>9, <1>13, <1>15
<1>17. QED BY <1>14, <1>15, <1>16 DEF vs, InOrder, Listing, Saying

-----------------------------------------------------------------------------
\* The most reported value, and the middle one, depend on how often each is reported only.
Reported(R, o, x) == {y \in R : o[y] = x}
MostReported(R, o) ==
    Min({x \in {o[y] : y \in R} : \A z \in {o[y] : y \in R} :
           Cardinality(Reported(R, o, x)) >= Cardinality(Reported(R, o, z))})
InTheMiddle(R, o) ==
    Min({x \in {o[y] : y \in R} : Cardinality({y \in R : o[y] <= x}) > Cardinality(R) \div 2})

\* Both are what the list of them gives, in any order.
LEMMA ListIs ==
  ASSUME NEW R, IsFiniteSet(R), NEW g \in Bijection(1 .. Cardinality(R), R), NEW o,
         NEW items, items = [i \in 1 .. Cardinality(R) |-> o[g[i]]]
  PROVE  /\ DOMAIN items = 1 .. Cardinality(R) /\ Len(items) = Cardinality(R)
         /\ Range(items) = {o[y] : y \in R}
         /\ MajorityOrMin(items) = MostReported(R, o)
         /\ Median(items) = InTheMiddle(R, o)
<1> DEFINE n == Cardinality(R)
<1>1. n \in Nat
  BY FS_CardinalityType
<1>2. g \in [1 .. n -> R] /\ \A y \in R : \E i \in 1 .. n : g[i] = y
  BY DEF Bijection, Injection, Surjection
<1>3. DOMAIN items = 1 .. n /\ \A i \in 1 .. n : items[i] = o[g[i]]
  OBVIOUS
<1>4. Len(items) = n
  BY <1>1
<1>5. Range(items) = {o[y] : y \in R}
  <2>1. ASSUME NEW i \in 1 .. n PROVE items[i] \in {o[y] : y \in R}
    BY <1>2, <1>3
  <2>2. ASSUME NEW y \in R PROVE o[y] \in Range(items)
    BY <1>2, <1>3 DEF Range
  <2>3. QED BY <1>3, <2>1, <2>2 DEF Range
<1>6. ASSUME NEW x PROVE Counted(items, x) = Cardinality(Reported(R, o, x))
  <2>1. Reported(R, o, x) \in SUBSET R
    BY DEF Reported
  <2>2. {i \in DOMAIN items : items[i] = x} = {i \in 1 .. n : g[i] \in Reported(R, o, x)}
    BY <1>2, <1>3 DEF Reported
  <2>3. Cardinality({i \in 1 .. n : g[i] \in Reported(R, o, x)}) = Cardinality(Reported(R, o, x))
    BY <1>1, <2>1, CountOf
  <2>4. QED BY <2>2, <2>3 DEF Counted
<1>7. ASSUME NEW x
      PROVE  Cardinality({i \in DOMAIN items : items[i] <= x}) = Cardinality({y \in R : o[y] <= x})
  <2> DEFINE Q == {y \in R : o[y] <= x}
  <2>1. Q \in SUBSET R
    OBVIOUS
  <2>2. {i \in DOMAIN items : items[i] <= x} = {i \in 1 .. n : g[i] \in Q}
    BY <1>2, <1>3
  <2> HIDE DEF Q
  <2>3. Cardinality({i \in 1 .. n : g[i] \in Q}) = Cardinality(Q)
    BY <1>1, <2>1, CountOf
  <2>4. QED BY <2>2, <2>3 DEF Q
<1>8. MajorityOrMin(items) = MostReported(R, o)
  <2>1. {x \in Range(items) : \A y \in Range(items) : Counted(items, x) >= Counted(items, y)} =
          {x \in {o[y] : y \in R} : \A z \in {o[y] : y \in R} :
             Cardinality(Reported(R, o, x)) >= Cardinality(Reported(R, o, z))}
    BY <1>5, <1>6
  <2>2. QED BY <2>1 DEF MajorityOrMin, MostReported
<1>9. Median(items) = InTheMiddle(R, o)
  <2>1. {x \in Range(items) : Cardinality({i \in DOMAIN items : items[i] <= x}) > Len(items) \div 2} =
          {x \in {o[y] : y \in R} : Cardinality({y \in R : o[y] <= x}) > n \div 2}
    BY <1>4, <1>5, <1>7
  <2>2. QED BY <2>1 DEF Median, InTheMiddle
<1>10. QED BY <1>3, <1>4, <1>5, <1>8, <1>9

\* One relay's entry, from the votes that list it in no order.
MergedOf(R, from, r) ==
    [host  |-> MostReported(R, [y \in R |-> from[y].peers[r].host]),
     bw    |-> InTheMiddle(R, [y \in R |-> from[y].peers[r].bw]),
     flags |-> {f \in Flag : Cardinality({y \in R : f \in from[y].peers[r].flags}) >= (Cardinality(R) + 1) \div 2}]

\* It is what the votes in an order give.
LEMMA MergedIs ==
  ASSUME NEW R, IsFiniteSet(R), NEW g \in Bijection(1 .. Cardinality(R), R), NEW from, NEW r,
         NEW obs, obs = Saying(R, g, from, r)
  PROVE  Merged(obs) = MergedOf(R, from, r)
<1> DEFINE n == Cardinality(R)
           hosts == [y \in R |-> from[y].peers[r].host]
           bws == [y \in R |-> from[y].peers[r].bw]
<1>1. n \in Nat
  BY FS_CardinalityType
<1>2. g \in [1 .. n -> R] /\ obs = [i \in 1 .. n |-> from[g[i]].peers[r]]
  BY DEF Bijection, Injection, Saying
<1>3. Len(obs) = n
  BY <1>1, <1>2
<1>4. MajorityOrMin([i \in 1 .. n |-> obs[i].host]) = MostReported(R, hosts)
  <2>1. [i \in 1 .. n |-> obs[i].host] = [i \in 1 .. n |-> hosts[g[i]]]
    BY <1>2
  <2> HIDE DEF hosts
  <2>2. MajorityOrMin([i \in 1 .. n |-> hosts[g[i]]]) = MostReported(R, hosts)
    BY ListIs
  <2>3. QED BY <2>1, <2>2
<1>5. Median([i \in 1 .. n |-> obs[i].bw]) = InTheMiddle(R, bws)
  <2>1. [i \in 1 .. n |-> obs[i].bw] = [i \in 1 .. n |-> bws[g[i]]]
    BY <1>2
  <2> HIDE DEF bws
  <2>2. Median([i \in 1 .. n |-> bws[g[i]]]) = InTheMiddle(R, bws)
    BY ListIs
  <2>3. QED BY <2>1, <2>2
<1>6. ASSUME NEW f
      PROVE  Cardinality({i \in 1 .. n : f \in obs[i].flags}) = Cardinality({y \in R : f \in from[y].peers[r].flags})
  <2> DEFINE Q == {y \in R : f \in from[y].peers[r].flags}
  <2>1. Q \in SUBSET R
    OBVIOUS
  <2>2. {i \in 1 .. n : f \in obs[i].flags} = {i \in 1 .. n : g[i] \in Q}
    BY <1>2
  <2> HIDE DEF Q
  <2>3. Cardinality({i \in 1 .. n : g[i] \in Q}) = Cardinality(Q)
    BY <1>1, <2>1, CountOf
  <2>4. QED BY <2>2, <2>3 DEF Q
<1>7. Merged(obs) =
        [host  |-> MajorityOrMin([i \in 1 .. n |-> obs[i].host]),
         bw    |-> Median([i \in 1 .. n |-> obs[i].bw]),
         flags |-> {f \in Flag : Cardinality({i \in 1 .. n : f \in obs[i].flags}) >= (n + 1) \div 2}]
  BY <1>3 DEF Merged
<1>8. {f \in Flag : Cardinality({i \in 1 .. n : f \in obs[i].flags}) >= (n + 1) \div 2} =
        {f \in Flag : Cardinality({y \in R : f \in from[y].peers[r].flags}) >= (n + 1) \div 2}
  <2> DEFINE inList(f) == Cardinality({i \in 1 .. n : f \in obs[i].flags})
             inVotes(f) == Cardinality({y \in R : f \in from[y].peers[r].flags})
  <2>1. \A f : inList(f) = inVotes(f)
    BY <1>6
  <2> HIDE DEF inList, inVotes
  <2>2. {f \in Flag : inList(f) >= (n + 1) \div 2} = {f \in Flag : inVotes(f) >= (n + 1) \div 2}
    BY <2>1
  <2>3. QED BY <2>2 DEF inList, inVotes
<1>9. QED BY <1>4, <1>5, <1>7, <1>8 DEF MergedOf

-----------------------------------------------------------------------------
\* A document, from the votes of V in no order.
DocumentOf(V, from, prev) ==
    LET vs == {from[x] : x \in V}
        rs == {<<a, from[a].reveal>> : a \in {x \in V :
                 from[x].reveal # 0 /\ \E p \in prev : \E c \in p.commits :
                   c[1] = x /\ CheckReveal(from[x].reveal, Period, c[2])}}
    IN  [after   |-> Max({v.after : v \in vs}),
         until   |-> Min({v.until : v \in vs}),
         peers   |-> [r \in UNION {DOMAIN v.peers : v \in vs} |->
                        MergedOf(Listing(V, from, r), from, r)],
         srv     |-> IF Cardinality(rs) >= 2 THEN <<Period, rs>> ELSE <<>>,
         commits |-> {<<a, from[a].commit>> : a \in V}]

\* It is what the votes in an order give.
LEMMA DocumentIs ==
  ASSUME NEW V, IsFiniteSet(V), NEW from, NEW order \in SetToSeqs(V), NEW prev
  PROVE  BuildConsensus(from, order, prev) = DocumentOf(V, from, prev)
<1> DEFINE vs == InOrder(order, from)
<1>1. Range(order) = V
  BY OrderIs
<1>2. Range(vs) = {from[x] : x \in V}
  BY <1>1 DEF Range, InOrder
<1>3. ASSUME NEW r
      PROVE  Merged(Observations(vs, r)) = MergedOf(Listing(V, from, r), from, r)
  <2> DEFINE R == Listing(V, from, r)
  <2>1. IsFiniteSet(R)
    BY FS_Subset DEF Listing
  <2>2. \E g \in Bijection(1 .. Cardinality(R), R) : Observations(vs, r) = Saying(R, g, from, r)
    BY ObservationsAre
  <2> HIDE DEF R, vs
  <2>3. Merged(Observations(vs, r)) = MergedOf(R, from, r)
    BY <2>1, <2>2, MergedIs
  <2>4. QED BY <2>3 DEF R
<1>4. Reveals(from, order, prev) =
        {<<a, from[a].reveal>> : a \in {x \in V :
           from[x].reveal # 0 /\ \E p \in prev : \E c \in p.commits :
             c[1] = x /\ CheckReveal(from[x].reveal, Period, c[2])}}
  BY <1>1 DEF Reveals
<1>5. BuildConsensus(from, order, prev) =
        [after   |-> Max({v.after : v \in Range(vs)}),
         until   |-> Min({v.until : v \in Range(vs)}),
         peers   |-> [r \in UNION {DOMAIN v.peers : v \in Range(vs)} |-> Merged(Observations(vs, r))],
         srv     |-> IF Cardinality(Reveals(from, order, prev)) >= 2
                     THEN <<Period, Reveals(from, order, prev)>> ELSE <<>>,
         commits |-> {<<a, from[a].commit>> : a \in Range(order)}]
  BY DEF BuildConsensus, InOrder
<1> HIDE DEF vs
<1>6. [r \in UNION {DOMAIN v.peers : v \in Range(vs)} |-> Merged(Observations(vs, r))] =
        [r \in UNION {DOMAIN v.peers : v \in {from[x] : x \in V}} |->
           MergedOf(Listing(V, from, r), from, r)]
  BY <1>2, <1>3
<1>7. QED BY <1>1, <1>2, <1>4, <1>5, <1>6 DEF DocumentOf

\* In whatever order an authority is given the votes, it builds the one document.
LEMMA AuthoritiesDoAgree == AuthoritiesAgree
<1>1. IsFiniteSet(Voters)
  <2>1. Voters \subseteq Authority
    BY DEF Voters
  <2>2. QED BY <2>1, DirectoryAssumption, FS_Subset
<1>2. SUFFICES ASSUME NEW prev \in Previous
               PROVE  Cardinality({BuildConsensus(VotesAtHand, order, prev) : order \in SetToSeqs(Voters)}) = 1
  BY DEF AuthoritiesAgree
<1>3. {BuildConsensus(VotesAtHand, order, prev) : order \in SetToSeqs(Voters)} = {DocumentOf(Voters, VotesAtHand, prev)}
  BY <1>1, DocumentIs, OrderExists
<1>4. QED BY <1>3, FS_Singleton

-----------------------------------------------------------------------------
\* What an authority reveals is what the last consensus has it committed to, however often
\* its scan is run and wherever it dies, and whichever votes, drafts and files are merged
\* and signed again, late (directory.rs, srv_contribution).
THEOREM CommitmentsAreHonoured == DirSpec => []CommitmentHonoured
<1>1. DirInv => CommitmentHonoured
  <2>1. SUFFICES ASSUME DirInv, NEW a \in Authority, NEW v \in votes[a], NEW f \in file, NEW c \in f.doc.commits,
                        c[1] = a, c[2][1] * Epoch = v.after
                 PROVE  c[2][2] = v.reveal
    BY DEF CommitmentHonoured
  <2>2. c[2] \in CommitsOf(a)
    BY <2>1, CommitPlaces
  <2>3. QED BY <2>1, <2>2 DEF DirInv, ToItsValue
<1>2. QED BY <1>1, DirInitially, DirStepKeeps, PTL DEF DirSpec

\* Authorities given the same votes build the same document, in whatever order they are
\* given them; and any two lists of one period that a node holds or would take have a
\* signer in common, for any number of authorities (directory.rs, build_consensus_with_srv,
\* threshold_for and verify_consensus).
THEOREM DirectoriesAlwaysAgree == DirSpec => []DirectoriesAgree
<1>1. DirInv => ListsShareASigner
  <2>1. SUFFICES ASSUME DirInv, NEW n \in Node, NEW c \in cached[n], NEW d \in Sources(n), VerifyConsensus(d)
                 PROVE  c.sigs \cap d.sigs # {}
    BY DEF ListsShareASigner
  <2>2. /\ c.sigs \subseteq Authority /\ Authority # {}
        /\ Cardinality(c.sigs) >= ThresholdFor(Cardinality(Authority))
    BY <2>1 DEF DirInv, Signed
  <2>3. Cardinality(d.sigs \cap Authority) >= ThresholdFor(Cardinality(Authority))
    BY <2>1 DEF VerifyConsensus
  <2>4. c.sigs \cap (d.sigs \cap Authority) # {}
    BY <2>2, <2>3, QuorumsMeet
  <2>5. QED BY <2>4
<1>2. DirInv => DirectoriesAgree
  BY <1>1, AuthoritiesDoAgree DEF DirectoriesAgree
<1>3. QED BY <1>2, DirInitially, DirStepKeeps, PTL DEF DirSpec

-----------------------------------------------------------------------------
(* The circuit tables. *)
(* The tables' own operations. *)

\* f maps some of D into R.
Partial(f, D, R) == DOMAIN f \subseteq D /\ \A x \in DOMAIN f : f[x] \in R

\* HashMap::insert.
LEMMA PutTyped ==
  ASSUME NEW f, NEW D, NEW R, Partial(f, D, R), NEW k \in D, NEW v \in R
  PROVE  Partial(Put(f, k, v), D, R)
  BY DEF Put, Partial

\* HashMap::get_mut.
LEMMA UpdateTyped ==
  ASSUME NEW f, NEW D, NEW R, Partial(f, D, R), NEW k, NEW v \in R
  PROVE  Partial([f EXCEPT ![k] = v], D, R)
  BY DEF Partial

\* HashMap::remove and HashMap::retain.
LEMMA WithoutTyped ==
  ASSUME NEW f, NEW D, NEW R, NEW S, Partial(f, D, R)
  PROVE  Partial(Without(f, S), D, R)
  BY DEF Without, Partial

LEMMA EmptyTyped ==
  ASSUME NEW D, NEW R
  PROVE  DOMAIN Empty = {} /\ Partial(Empty, D, R)
  BY DEF Empty, Partial

\* Peeling a layer changes neither where a circuit goes nor what it is for.
LEMMA TouchedFacts ==
  ASSUME NEW S, Partial(relays, PrevKeys, Relay)
  PROVE  /\ Partial(Touched(S), PrevKeys, Relay)
         /\ DOMAIN Touched(S) = DOMAIN relays
         /\ \A k \in DOMAIN relays : /\ Touched(S)[k].next = relays[k].next
                                     /\ Touched(S)[k].leg = relays[k].leg
  BY DEF Touched, Partial, Relay

\* The sides towards clients and the onward sides never share a key.
LEMMA KeysDisjoint ==
  /\ PrevKeys \cap NextKeys = {}
  /\ NoKey \notin NextKeys
  BY DistinctAssumption, NoKeyAssumption DEF PrevKeys, NextKeys

-----------------------------------------------------------------------------
(* Types. *)

\* TypeOK, as a table of partial functions.
LEMMA TypeOKTables ==
  TypeOK <=>
    /\ Partial(origins, Cids, Origin)
    /\ Partial(relays, PrevKeys, Relay)
    /\ Partial(byNext, NextKeys, PrevKeys)
    /\ Partial(bridges, PrevKeys, PrevKeys)
    /\ Partial(cookies, Cookies, PrevKeys)
    /\ intros \subseteq PrevKeys
    /\ nextId \subseteq Cids
    /\ owed \subseteq PrevKeys \cup NextKeys
    /\ unused \in [Peers -> SUBSET Cids]
    /\ drawn \subseteq NextKeys
    /\ restarts \in Nat
  BY DEF TypeOK, Partial

LEMMA InitTypeOK == ASSUME Init PROVE TypeOK
<1>1. restarts \in Nat /\ unused \in [Peers -> SUBSET Cids] BY DEF Init
<1>. QED BY <1>1, EmptyTyped, TypeOKTables DEF Init

-----------------------------------------------------------------------------
(* The circuits this node originates: a circuit within its budget of hops  *)
(* stays within it.                                                        *)

WithinBudget(o) ==
  /\ o.hops + (IF o.pending THEN 1 ELSE 0) <= o.early + 1
  /\ o.early <= MaxEarly

GoodOrigin == {o \in Origin : WithinBudget(o)}

LEMMA GoodNew == ASSUME NEW g \in Peers PROVE NewOrigin(g) \in GoodOrigin
  BY EarlyAssumption DEF NewOrigin, Origin, GoodOrigin, WithinBudget

LEMMA OriginFields ==
  ASSUME NEW o \in Origin
  PROVE  o.pending \in BOOLEAN /\ o.hops \in Nat /\ o.early \in Nat
  BY DEF Origin

\* Any new values of the fields, within the budget again.
LEMMA GoodUpdate ==
  ASSUME NEW o \in Origin, NEW b \in BOOLEAN, NEW h \in Nat, NEW e \in Nat, NEW t \in BOOLEAN,
         h + (IF b THEN 1 ELSE 0) <= e + 1, e <= MaxEarly
  PROVE  [o EXCEPT !.pending = b, !.hops = h, !.early = e, !.active = t] \in GoodOrigin
<1>. DEFINE r == [o EXCEPT !.pending = b, !.hops = h, !.early = e, !.active = t]
<1>1. r \in Origin BY DEF Origin
<1>2. r.pending = b /\ r.hops = h /\ r.early = e BY DEF Origin
<1>. HIDE DEF r
<1>3. WithinBudget(r) BY <1>2 DEF WithinBudget
<1>4. r \in GoodOrigin BY <1>1, <1>3 DEF GoodOrigin
<1>. QED BY <1>4 DEF r

\* Only some of the fields change: the others are given their own values.
LEMMA FieldsKept ==
  ASSUME NEW o \in Origin, NEW b, NEW h, NEW e, NEW t
  PROVE  /\ [o EXCEPT !.pending = b, !.early = e, !.active = t]
              = [o EXCEPT !.pending = b, !.hops = o.hops, !.early = e, !.active = t]
         /\ [o EXCEPT !.pending = b, !.hops = h, !.active = t]
              = [o EXCEPT !.pending = b, !.hops = h, !.early = o.early, !.active = t]
         /\ [o EXCEPT !.pending = b, !.hops = h]
              = [o EXCEPT !.pending = b, !.hops = h, !.early = o.early, !.active = o.active]
         /\ [o EXCEPT !.active = t]
              = [o EXCEPT !.pending = o.pending, !.hops = o.hops, !.early = o.early, !.active = t]
  BY DEF Origin

LEMMA GoodExtend ==
  ASSUME NEW o \in GoodOrigin, o.early < MaxEarly
  PROVE  [o EXCEPT !.pending = TRUE, !.early = @ + 1, !.active = TRUE] \in GoodOrigin
<1>1. /\ o \in Origin /\ o.pending \in BOOLEAN /\ o.hops \in Nat /\ o.early \in Nat
      /\ o.hops + (IF o.pending THEN 1 ELSE 0) <= o.early + 1
  BY OriginFields DEF GoodOrigin, WithinBudget
<1>2. o.hops <= o.early + 1 BY <1>1
<1>3. o.hops + 1 <= (o.early + 1) + 1 /\ o.early + 1 \in Nat /\ o.early + 1 <= MaxEarly
  BY <1>1, <1>2, EarlyAssumption
<1>4. [o EXCEPT !.pending = TRUE, !.hops = o.hops, !.early = o.early + 1, !.active = TRUE]
        \in GoodOrigin
  BY <1>1, <1>3, GoodUpdate
<1>. QED BY <1>1, <1>4, FieldsKept

LEMMA GoodAnswer ==
  ASSUME NEW o \in GoodOrigin, NEW b \in BOOLEAN, NEW h \in {o.hops, o.hops + 1},
         b => o.pending, h = o.hops + 1 => (o.pending /\ ~ b)
  PROVE  /\ [o EXCEPT !.pending = b, !.hops = h] \in GoodOrigin
         /\ [o EXCEPT !.pending = b, !.hops = h, !.active = TRUE] \in GoodOrigin
<1>1. /\ o \in Origin /\ o.pending \in BOOLEAN /\ o.hops \in Nat /\ o.early \in Nat
      /\ o.hops + (IF o.pending THEN 1 ELSE 0) <= o.early + 1 /\ o.early <= MaxEarly
  BY OriginFields DEF GoodOrigin, WithinBudget
<1>2. h \in Nat /\ h + (IF b THEN 1 ELSE 0) <= o.early + 1 BY <1>1
<1>3. o.active \in BOOLEAN BY <1>1 DEF Origin
<1>4. /\ [o EXCEPT !.pending = b, !.hops = h, !.early = o.early, !.active = TRUE] \in GoodOrigin
      /\ [o EXCEPT !.pending = b, !.hops = h, !.early = o.early, !.active = o.active]
           \in GoodOrigin
  BY <1>1, <1>2, <1>3, GoodUpdate
<1>. QED BY <1>1, <1>4, FieldsKept

LEMMA GoodIdle ==
  ASSUME NEW o \in GoodOrigin PROVE [o EXCEPT !.active = FALSE] \in GoodOrigin
<1>1. /\ o \in Origin /\ o.pending \in BOOLEAN /\ o.hops \in Nat /\ o.early \in Nat
      /\ o.hops + (IF o.pending THEN 1 ELSE 0) <= o.early + 1 /\ o.early <= MaxEarly
  BY OriginFields DEF GoodOrigin, WithinBudget
<1>2. [o EXCEPT !.pending = o.pending, !.hops = o.hops, !.early = o.early, !.active = FALSE]
        \in GoodOrigin
  BY <1>1, GoodUpdate
<1>. QED BY <1>1, <1>2, FieldsKept

OriginsGood == Partial(origins, Cids, GoodOrigin)

\* Every step keeps the circuits we originate within their budget of hops.
LEMMA OriginsStayGood ==
  ASSUME OriginsGood, nextId \subseteq Cids, [Next]_vars
  PROVE  OriginsGood' /\ nextId' \subseteq Cids
<1>1. ASSUME NEW g \in Peers, StartCircuit(g) PROVE OriginsGood' /\ nextId' \subseteq Cids
  <2>1. PICK cid \in nextId : /\ origins' = Put(origins, cid, NewOrigin(g))
                              /\ nextId' = nextId \ {cid}
    BY <1>1 DEF StartCircuit
  <2>2. OriginsGood' BY <2>1, GoodNew, PutTyped DEF OriginsGood
  <2>. QED BY <2>1, <2>2
<1>2. ASSUME NEW c \in Cids, ExtendCircuit(c) PROVE OriginsGood' /\ nextId' \subseteq Cids
  <2>1. c \in DOMAIN origins /\ origins[c].early < MaxEarly BY <1>2 DEF ExtendCircuit
  <2>2. origins[c] \in GoodOrigin BY <2>1 DEF OriginsGood, Partial
  <2>3. origins' = [origins EXCEPT ![c] =
                      [origins[c] EXCEPT !.pending = TRUE, !.early = @ + 1, !.active = TRUE]]
    BY <1>2 DEF ExtendCircuit
  <2>4. OriginsGood' BY <2>1, <2>2, <2>3, GoodExtend, UpdateTyped DEF OriginsGood
  <2>. QED BY <1>2, <2>4 DEF ExtendCircuit
<1>3. ASSUME NEW c \in Cids, NEW x \in BOOLEAN, NEW a \in BOOLEAN, RecvOriginRelay(c, x, a)
      PROVE  OriginsGood' /\ nextId' \subseteq Cids
  <2>. DEFINE o == origins[c]
              b == o.pending /\ ~ (x /\ o.pending)
              h == IF x /\ o.pending /\ a THEN o.hops + 1 ELSE o.hops
  <2>1. c \in DOMAIN origins /\ o \in GoodOrigin BY <1>3 DEF RecvOriginRelay, OriginsGood, Partial
  <2>2. o.pending \in BOOLEAN /\ o.hops \in Nat BY <2>1, OriginFields DEF GoodOrigin
  <2>3. /\ b \in BOOLEAN /\ h \in {o.hops, o.hops + 1} /\ (b => o.pending)
        /\ h = o.hops + 1 => (o.pending /\ ~ b)
    BY <2>2
  <2>4. origins' = [origins EXCEPT ![c] = [o EXCEPT !.pending = b, !.hops = h, !.active = TRUE]]
    BY <1>3 DEF RecvOriginRelay
  <2>. HIDE DEF o, b, h
  <2>5. OriginsGood' BY <2>1, <2>3, <2>4, GoodAnswer, UpdateTyped DEF OriginsGood
  <2>. QED BY <1>3, <2>5 DEF RecvOriginRelay
<1>4. ASSUME NEW k \in PrevKeys \cup NextKeys, NEW a \in BOOLEAN, RecvCreated(k, a)
      PROVE  OriginsGood' /\ nextId' \subseteq Cids
  <2>1. CASE origins' = origins BY <1>4, <2>1 DEF RecvCreated, OriginsGood, Partial
  <2>2. CASE k[2] \in DOMAIN origins
    <3>. DEFINE o == origins[k[2]]
                h == IF o.pending /\ a THEN o.hops + 1 ELSE o.hops
    <3>1. o \in GoodOrigin BY <2>2 DEF OriginsGood, Partial
    <3>2. o.pending \in BOOLEAN /\ o.hops \in Nat BY <3>1, OriginFields DEF GoodOrigin
    <3>3. h \in {o.hops, o.hops + 1} /\ (h = o.hops + 1 => o.pending) BY <3>2
    <3>4. origins' = [origins EXCEPT ![k[2]] = [o EXCEPT !.pending = FALSE, !.hops = h]]
      BY <1>4, <2>2 DEF RecvCreated
    <3>. HIDE DEF o, h
    <3>5. OriginsGood' BY <2>2, <3>1, <3>3, <3>4, GoodAnswer, UpdateTyped DEF OriginsGood
    <3>. QED BY <1>4, <3>5 DEF RecvCreated
  <2>. QED BY <1>4, <2>1, <2>2 DEF RecvCreated
<1>5. ASSUME HourPasses PROVE OriginsGood' /\ nextId' \subseteq Cids
  <2>1. OriginsGood' BY <1>5, GoodIdle DEF HourPasses, OriginsGood, Partial
  <2>. QED BY <1>5, <2>1 DEF HourPasses
<1>6. ASSUME NEW S, origins' = Without(origins, S), nextId' = nextId
      PROVE  OriginsGood' /\ nextId' \subseteq Cids
  BY <1>6, WithoutTyped DEF OriginsGood
<1>7. ASSUME EvictIdleCircuits \/ \E k : Destroy(k) PROVE OriginsGood' /\ nextId' \subseteq Cids
  BY <1>6, <1>7 DEF EvictIdleCircuits, Destroy
<1>8. ASSUME origins' = origins, nextId' = nextId PROVE OriginsGood' /\ nextId' \subseteq Cids
  BY <1>8 DEF OriginsGood
<1>9. ASSUME NEW k \in PrevKeys \cup NextKeys,
             \/ RecvCreate(k) \/ RecvForward(k) \/ RecvEstablishIntro(k)
             \/ \E nk \in NextKeys, d \in BOOLEAN : RecvExtend2(k, nk, d)
             \/ \E ck \in Cookies : RecvEstablishRendezvous(k, ck) \/ RecvRendezvous1(k, ck)
      PROVE  OriginsGood' /\ nextId' \subseteq Cids
  BY <1>8, <1>9 DEF RecvCreate, RecvForward, RecvEstablishIntro, RecvExtend2,
                    RecvEstablishRendezvous, RecvRendezvous1
<1>10. ASSUME UNCHANGED vars \/ \E p \in Peers : PeerRestarts(p)
       PROVE  OriginsGood' /\ nextId' \subseteq Cids
  BY <1>8, <1>10 DEF vars, tables, PeerRestarts
<1>11. CASE OriginStep
  BY <1>1, <1>2, <1>3, <1>7, <1>11 DEF OriginStep, DestroyOrigin
<1>12. CASE RelayStep
  BY <1>4, <1>7, <1>9, <1>12 DEF RelayStep, RecvDestroy
<1>13. CASE NewIdentity BY <1>13, EmptyTyped DEF NewIdentity, OriginsGood
<1>. QED BY <1>5, <1>7, <1>10, <1>11, <1>12, <1>13 DEF Next

(***************************************************************************)
(* No circuit of ours is ever longer than its handshakes allow             *)
(* (OriginCircuit, MAX_RELAY_EARLY), whatever answers come late or twice.  *)
(***************************************************************************)
THEOREM HopsStayWithinBudget == Spec => []HopsWithinBudget
<1>1. Init => OriginsGood /\ nextId \subseteq Cids
  BY EmptyTyped DEF Init, OriginsGood
<1>2. (OriginsGood /\ nextId \subseteq Cids) /\ [Next]_vars
        => (OriginsGood /\ nextId \subseteq Cids)'
  BY OriginsStayGood
<1>3. OriginsGood => HopsWithinBudget
  BY DEF OriginsGood, Partial, GoodOrigin, WithinBudget, HopsWithinBudget
<1>. QED BY <1>1, <1>2, <1>3, PTL DEF Spec

-----------------------------------------------------------------------------
(* The circuits this node relays: what each step does to their routes.     *)

RelaysTyped == Partial(relays, PrevKeys, Relay)

LEMMA RelayUpdate ==
  ASSUME NEW o \in Relay, NEW b \in BOOLEAN
  PROVE  /\ [o EXCEPT !.awaiting = b] \in Relay
         /\ [o EXCEPT !.awaiting = b].next = o.next
         /\ [o EXCEPT !.awaiting = b].leg = o.leg
  BY DEF Relay

\* r is the relay table after a step that leaves every route alone, or every
\* one but k's.
RoutesKept(r) ==
  /\ Partial(r, PrevKeys, Relay)
  /\ DOMAIN r = DOMAIN relays
  /\ \A k \in DOMAIN relays : r[k].next = relays[k].next /\ r[k].leg = relays[k].leg

RouteGiven(r, k, n, l) ==
  /\ Partial(r, PrevKeys, Relay)
  /\ DOMAIN r = DOMAIN relays
  /\ k \in DOMAIN relays /\ r[k].next = n /\ r[k].leg = l
  /\ \A j \in DOMAIN relays \ {k} : r[j].next = relays[j].next /\ r[j].leg = relays[j].leg

\* The shapes a step can have, seen from the routes.
Quiet ==
  /\ RoutesKept(relays')
  /\ UNCHANGED <<byNext, bridges, cookies, drawn, unused, restarts>>

Created(k) ==
  /\ k[2] \in unused[k[1]] /\ unused' = [unused EXCEPT ![k[1]] = @ \ {k[2]}]
  /\ \E r \in Relay : r.next = NoKey /\ r.leg = "none" /\ relays' = Put(relays, k, r)
  /\ UNCHANGED <<byNext, bridges, cookies, drawn, restarts>>

Extended(k, nk) ==
  /\ k \in DOMAIN relays /\ relays[k].next = NoKey
  /\ nk \notin drawn
  /\ RouteGiven(relays', k, nk, relays[k].leg)
  /\ byNext' = Put(byNext, nk, k)
  /\ drawn' = drawn \cup {nk}
  /\ UNCHANGED <<bridges, cookies, unused, restarts>>

CookieSet(k, ck) ==
  /\ k \in DOMAIN relays /\ relays[k].leg = "none"
  /\ ck \notin DOMAIN cookies
  /\ RouteGiven(relays', k, relays[k].next, "client")
  /\ cookies' = Put(cookies, ck, k)
  /\ UNCHANGED <<byNext, bridges, drawn, unused, restarts>>

Bridged(k, ck) ==
  /\ k \in DOMAIN relays /\ relays[k].leg = "none"
  /\ RouteGiven(relays', k, relays[k].next, "service")
  /\ IF ck \in DOMAIN cookies
       THEN /\ bridges' = Put(Put(bridges, cookies[ck], k), k, cookies[ck])
            /\ cookies' = Without(cookies, {ck})
       ELSE UNCHANGED <<bridges, cookies>>
  /\ UNCHANGED <<byNext, drawn, unused, restarts>>

Removed(S) ==
  /\ relays' = Without(relays, S)
  /\ byNext' = Without(byNext, NextOf(S))
  /\ bridges' = Unbridged(S)
  /\ DOMAIN cookies' \subseteq DOMAIN cookies
  /\ \A ck \in DOMAIN cookies' : cookies'[ck] = cookies[ck]
  /\ UNCHANGED <<drawn, unused, restarts>>

Cleared ==
  /\ relays' = Empty /\ byNext' = Empty /\ bridges' = Empty /\ cookies' = Empty
  /\ UNCHANGED <<drawn, unused, restarts>>

Restarted ==
  /\ restarts' = restarts + 1 /\ restarts < MaxRestarts
  /\ \E p \in Peers : unused' = [unused EXCEPT ![p] = Cids]
  /\ UNCHANGED <<relays, byNext, bridges, cookies, drawn>>

Shape ==
  \/ Quiet
  \/ \E k \in PrevKeys : Created(k)
  \/ \E k \in PrevKeys, nk \in NextKeys : Extended(k, nk)
  \/ \E k \in PrevKeys, ck \in Cookies : CookieSet(k, ck) \/ Bridged(k, ck)
  \/ \E S : Removed(S)
  \/ Cleared
  \/ Restarted

LEMMA StepShape ==
  ASSUME RelaysTyped, [Next]_vars
  PROVE  Shape
<1>0. RoutesKept(relays) BY DEF RoutesKept, RelaysTyped
<1>1. ASSUME UNCHANGED <<relays, byNext, bridges, cookies, drawn, unused, restarts>> PROVE Shape
  <2>1. RoutesKept(relays') BY <1>0, <1>1
  <2>. QED BY <1>1, <2>1 DEF Shape, Quiet
<1>2. ASSUME NEW k, Destroy(k) PROVE Shape
  <2>1. Removed({k}) BY <1>2 DEF Destroy, Removed
  <2>. QED BY <2>1 DEF Shape
<1>3. ASSUME RoutesKept(relays'),
             UNCHANGED <<byNext, bridges, cookies, drawn, unused, restarts>>
      PROVE  Shape
  BY <1>3 DEF Shape, Quiet
<1>4. ASSUME NEW k, Route(k) = "forward" PROVE k \in DOMAIN relays
  BY <1>4 DEF Route
<1>5. ASSUME NEW k \in DOMAIN relays, NEW r \in Relay,
             r.next = relays[k].next, r.leg = relays[k].leg,
             relays' = [relays EXCEPT ![k] = r]
      PROVE  RoutesKept(relays')
  BY <1>5 DEF RelaysTyped, RoutesKept, Partial
<1>6. CASE OriginStep
  <2>1. ASSUME NEW g \in Peers, StartCircuit(g) PROVE Shape
    BY <1>1, <2>1 DEF StartCircuit
  <2>2. ASSUME NEW c \in Cids,
               ExtendCircuit(c) \/ \E x, a \in BOOLEAN : RecvOriginRelay(c, x, a)
        PROVE  Shape
    BY <1>1, <2>2 DEF ExtendCircuit, RecvOriginRelay
  <2>. QED BY <1>2, <1>6, <2>1, <2>2 DEF OriginStep, DestroyOrigin
<1>7. ASSUME NEW k \in PrevKeys, RecvCreate(k) PROVE Shape
  <2>1. NewRelay \in Relay
        /\ NewRelay.next = NoKey /\ NewRelay.leg = "none"
    BY DEF NewRelay, Relay
  <2>2. Created(k) BY <1>7, <2>1 DEF RecvCreate, Created
  <2>. QED BY <2>2 DEF Shape
<1>8. ASSUME NEW k \in PrevKeys, RecvForward(k) \/ RecvEstablishIntro(k) PROVE Shape
  <2>1. \E S : relays' = Touched(S) BY <1>8 DEF RecvForward, RecvEstablishIntro
  <2>2. RoutesKept(relays') BY <2>1, TouchedFacts DEF RoutesKept, RelaysTyped
  <2>. QED BY <1>3, <1>8, <2>2 DEF RecvForward, RecvEstablishIntro
<1>9. CASE NewIdentity BY <1>9 DEF NewIdentity, Cleared, Shape
<1>10. ASSUME NEW k \in PrevKeys \cup NextKeys, NEW a \in BOOLEAN, RecvCreated(k, a)
       PROVE  Shape
  <2>1. UNCHANGED <<byNext, bridges, cookies, drawn, unused, restarts>>
    BY <1>10 DEF RecvCreated
  <2>2. CASE relays' = relays BY <1>1, <2>1, <2>2
  <2>3. CASE relays' # relays
    <3>. DEFINE j == byNext[k]
    <3>1. /\ j \in DOMAIN relays
          /\ relays' = [relays EXCEPT ![j] = [relays[j] EXCEPT !.awaiting = FALSE]]
      BY <1>10, <2>3 DEF RecvCreated
    <3>2. relays[j] \in Relay BY <3>1 DEF RelaysTyped, Partial
    <3>. HIDE DEF j
    <3>3. RoutesKept(relays') BY <1>5, <3>1, <3>2, RelayUpdate
    <3>. QED BY <1>3, <2>1, <3>3
  <2>. QED BY <2>2, <2>3
<1>11. ASSUME NEW k \in PrevKeys, NEW n \in NextKeys, NEW d \in BOOLEAN, RecvExtend2(k, n, d)
       PROVE  Shape
  <2>0. /\ k \in DOMAIN relays
        /\ Partial(Touched({k}), PrevKeys, Relay) /\ DOMAIN Touched({k}) = DOMAIN relays
        /\ \A j \in DOMAIN relays : /\ Touched({k})[j].next = relays[j].next
                                    /\ Touched({k})[j].leg = relays[j].leg
    BY <1>4, <1>11, TouchedFacts DEF RecvExtend2, RelaysTyped
  <2>1. CASE relays[k].next = NoKey
    <3>. DEFINE t == Touched({k})
    <3>1. t[k] \in Relay BY <2>0 DEF Partial
    <3>2. relays' = [t EXCEPT ![k] = [t[k] EXCEPT !.next = n, !.awaiting = TRUE]]
      BY <1>11, <2>1 DEF RecvExtend2
    <3>3. RouteGiven(relays', k, n, relays[k].leg)
      <4>. HIDE DEF t
      <4>1. /\ [t[k] EXCEPT !.next = n, !.awaiting = TRUE] \in Relay
            /\ [t[k] EXCEPT !.next = n, !.awaiting = TRUE].next = n
            /\ [t[k] EXCEPT !.next = n, !.awaiting = TRUE].leg = t[k].leg
        BY <3>1 DEF Relay
      <4>. QED BY <2>0, <3>2, <4>1 DEF RouteGiven, Partial, t
    <3>4. Extended(k, n) BY <1>11, <2>0, <2>1, <3>3 DEF RecvExtend2, Extended
    <3>. QED BY <3>4 DEF Shape
  <2>2. CASE relays[k].next # NoKey
    <3>1. RoutesKept(relays') BY <1>11, <2>0, <2>2 DEF RecvExtend2, RoutesKept
    <3>. QED BY <1>3, <1>11, <2>2, <3>1 DEF RecvExtend2
  <2>. QED BY <2>1, <2>2
<1>12. ASSUME NEW k \in PrevKeys, Route(k) = "forward", NEW l \in {"client", "service"},
              relays' = [Touched({k}) EXCEPT ![k].leg = l]
       PROVE  k \in DOMAIN relays /\ RouteGiven(relays', k, relays[k].next, l)
  <2>. DEFINE t == Touched({k})
  <2>0. /\ k \in DOMAIN relays
        /\ Partial(t, PrevKeys, Relay) /\ DOMAIN t = DOMAIN relays
        /\ \A j \in DOMAIN relays : t[j].next = relays[j].next /\ t[j].leg = relays[j].leg
    BY <1>4, <1>12, TouchedFacts DEF RelaysTyped
  <2>1. t[k] \in Relay BY <2>0 DEF Partial
  <2>2. relays' = [t EXCEPT ![k] = [t[k] EXCEPT !.leg = l]] BY <1>12
  <2>. HIDE DEF t
  <2>3. /\ [t[k] EXCEPT !.leg = l] \in Relay
        /\ [t[k] EXCEPT !.leg = l].next = t[k].next /\ [t[k] EXCEPT !.leg = l].leg = l
    BY <2>1 DEF Relay
  <2>. QED BY <2>0, <2>2, <2>3 DEF RouteGiven, Partial
<1>13. ASSUME NEW k \in PrevKeys, NEW ck \in Cookies, RecvEstablishRendezvous(k, ck)
       PROVE  Shape
  <2>1. CookieSet(k, ck) BY <1>12, <1>13 DEF RecvEstablishRendezvous, CookieSet
  <2>. QED BY <2>1 DEF Shape
<1>14. ASSUME NEW k \in PrevKeys, NEW ck \in Cookies, RecvRendezvous1(k, ck) PROVE Shape
  <2>1. Bridged(k, ck) BY <1>12, <1>14 DEF RecvRendezvous1, Bridged
  <2>. QED BY <2>1 DEF Shape
<1>15. CASE RelayStep
  BY <1>2, <1>7, <1>8, <1>10, <1>11, <1>13, <1>14, <1>15 DEF RelayStep, RecvDestroy
<1>16. CASE HourPasses
  <2>1. DOMAIN relays' = DOMAIN relays
        /\ \A k \in DOMAIN relays : relays'[k] = [relays[k] EXCEPT !.active = FALSE]
    BY <1>16 DEF HourPasses
  <2>2. ASSUME NEW k \in DOMAIN relays
        PROVE  /\ relays'[k] \in Relay
               /\ relays'[k].next = relays[k].next /\ relays'[k].leg = relays[k].leg
    <3>1. relays[k] \in Relay BY DEF RelaysTyped, Partial
    <3>2. ASSUME NEW r \in Relay
          PROVE  /\ [r EXCEPT !.active = FALSE] \in Relay
                 /\ [r EXCEPT !.active = FALSE].next = r.next /\ [r EXCEPT !.active = FALSE].leg = r.leg
      BY DEF Relay
    <3>3. relays'[k] = [relays[k] EXCEPT !.active = FALSE] BY <2>1
    <3>. QED BY <3>1, <3>2, <3>3
  <2>3. RoutesKept(relays') BY <2>1, <2>2 DEF RelaysTyped, RoutesKept, Partial
  <2>. QED BY <1>3, <1>16, <2>3 DEF HourPasses
<1>17. CASE EvictIdleCircuits
  <2>. DEFINE S == {k \in DOMAIN relays : ~ relays[k].active}
              C == {ck \in DOMAIN cookies : cookies[ck] \in S}
  <2>1. /\ relays' = Without(relays, S) /\ byNext' = Without(byNext, NextOf(S))
        /\ bridges' = Unbridged(S) /\ cookies' = Without(cookies, C)
        /\ UNCHANGED <<drawn, unused, restarts>>
    BY <1>17 DEF EvictIdleCircuits
  <2>. HIDE DEF S, C
  <2>2. /\ DOMAIN cookies' \subseteq DOMAIN cookies
        /\ \A ck \in DOMAIN cookies' : cookies'[ck] = cookies[ck]
    BY <2>1 DEF Without
  <2>3. Removed(S) BY <2>1, <2>2 DEF Removed
  <2>. QED BY <2>3 DEF Shape
<1>18. CASE \E p \in Peers : PeerRestarts(p)
  <2>1. Restarted BY <1>18 DEF PeerRestarts, Restarted, tables
  <2>. QED BY <2>1 DEF Shape
<1>19. CASE UNCHANGED vars BY <1>1, <1>19 DEF vars, tables
<1>. QED BY <1>6, <1>9, <1>15, <1>16, <1>17, <1>18, <1>19 DEF Next

-----------------------------------------------------------------------------
(* Onward legs. *)

TablesTyped ==
  /\ RelaysTyped
  /\ restarts \in Nat
  /\ unused \in [Peers -> SUBSET Cids]

LEMMA PutRelayTyped ==
  ASSUME RelaysTyped, NEW k \in PrevKeys, NEW r \in Relay
  PROVE  Partial(Put(relays, k, r), PrevKeys, Relay)
  BY PutTyped DEF RelaysTyped

LEMMA TablesStayTyped ==
  ASSUME TablesTyped, [Next]_vars PROVE TablesTyped'
<1>1. Shape BY StepShape DEF TablesTyped
<1>2. RelaysTyped'
  <2>1. CASE Quiet BY <2>1 DEF Quiet, RoutesKept, RelaysTyped
  <2>2. ASSUME NEW k \in PrevKeys, Created(k) PROVE RelaysTyped'
    BY <2>2, PutRelayTyped DEF TablesTyped, Created, RelaysTyped
  <2>3. ASSUME NEW k, NEW n, NEW l, RouteGiven(relays', k, n, l) PROVE RelaysTyped'
    BY <2>3 DEF RouteGiven, RelaysTyped
  <2>4. ASSUME NEW S, Removed(S) PROVE RelaysTyped'
    BY <2>4, WithoutTyped DEF Removed, TablesTyped, RelaysTyped
  <2>5. CASE Restarted BY <2>5 DEF Restarted, TablesTyped, RelaysTyped, Partial
  <2>6. CASE Cleared BY <2>6, EmptyTyped DEF Cleared, RelaysTyped
  <2>. QED BY <1>1, <2>1, <2>2, <2>3, <2>4, <2>5, <2>6 DEF Shape, Extended, CookieSet, Bridged
<1>3. unused' \in [Peers -> SUBSET Cids]
  <2>1. ASSUME NEW k \in PrevKeys, Created(k) PROVE unused' \in [Peers -> SUBSET Cids]
    BY <2>1 DEF Created, TablesTyped
  <2>2. CASE Restarted BY <2>2 DEF Restarted, TablesTyped
  <2>3. CASE unused' = unused BY <2>3 DEF TablesTyped
  <2>. QED BY <1>1, <2>1, <2>2, <2>3 DEF Shape, Quiet, Extended, CookieSet, Bridged, Removed, Cleared
<1>4. restarts' \in Nat
  <2>1. CASE Restarted BY <2>1 DEF Restarted, TablesTyped
  <2>2. CASE restarts' = restarts BY <2>2 DEF TablesTyped
  <2>. QED BY <1>1, <2>1, <2>2
         DEF Shape, Quiet, RoutesKept, Created, Extended, CookieSet, Bridged, Removed, Cleared
<1>. QED BY <1>2, <1>3, <1>4 DEF TablesTyped

LEMMA InitTablesTyped == ASSUME Init PROVE TablesTyped
<1>1. RelaysTyped BY EmptyTyped DEF Init, RelaysTyped
<1>. QED BY <1>1 DEF Init, TablesTyped

\* relay_by_next knows every onward leg, and only legs that were drawn.
LegsInv ==
  /\ OnwardLegsIndexed
  /\ DOMAIN byNext \subseteq drawn
  /\ NoKey \notin DOMAIN byNext

LEMMA LegsStayIndexed ==
  ASSUME TablesTyped, LegsInv, Shape PROVE LegsInv'
<1>0. NoKey \notin NextKeys BY NoKeyAssumption
<1>1. ASSUME DOMAIN relays' = DOMAIN relays,
             \A k \in DOMAIN relays : relays'[k].next = relays[k].next,
             byNext' = byNext, drawn' = drawn
      PROVE  LegsInv'
  BY <1>1 DEF LegsInv, OnwardLegsIndexed
<1>2. CASE Quiet BY <1>1, <1>2 DEF Quiet, RoutesKept
<1>3. ASSUME NEW k \in PrevKeys, Created(k) PROVE LegsInv'
  <2>1. PICK r \in Relay : r.next = NoKey /\ relays' = Put(relays, k, r)
    BY <1>3 DEF Created
  <2>2. /\ DOMAIN relays' = DOMAIN relays \cup {k} /\ relays'[k] = r
        /\ \A j \in DOMAIN relays \ {k} : relays'[j] = relays[j]
    BY <2>1 DEF Put
  <2>. QED BY <1>3, <2>1, <2>2 DEF Created, LegsInv, OnwardLegsIndexed
<1>4. ASSUME NEW k \in PrevKeys, NEW n \in NextKeys, Extended(k, n) PROVE LegsInv'
  <2>1. /\ DOMAIN byNext' = DOMAIN byNext \cup {n} /\ byNext'[n] = k
        /\ \A x \in DOMAIN byNext \ {n} : byNext'[x] = byNext[x]
    BY <1>4 DEF Extended, Put
  <2>2. drawn' = drawn \cup {n} BY <1>4 DEF Extended
  <2>3. n \notin DOMAIN byNext BY <1>4 DEF Extended, LegsInv
  <2>4. /\ DOMAIN relays' = DOMAIN relays /\ relays'[k].next = n
        /\ \A j \in DOMAIN relays \ {k} : relays'[j].next = relays[j].next
    BY <1>4 DEF Extended, RouteGiven
  <2>5. OnwardLegsIndexed' BY <2>1, <2>3, <2>4 DEF LegsInv, OnwardLegsIndexed
  <2>. QED BY <1>0, <2>1, <2>2, <2>5 DEF LegsInv
<1>5. ASSUME NEW k \in PrevKeys, NEW ck \in Cookies, CookieSet(k, ck) \/ Bridged(k, ck)
      PROVE  LegsInv'
  <2>1. /\ DOMAIN relays' = DOMAIN relays
        /\ \A j \in DOMAIN relays : relays'[j].next = relays[j].next
    BY <1>5 DEF CookieSet, Bridged, RouteGiven
  <2>. QED BY <1>1, <1>5, <2>1 DEF CookieSet, Bridged
<1>6. ASSUME NEW S, Removed(S) PROVE LegsInv'
  <2>1. /\ DOMAIN relays' = DOMAIN relays \ S
        /\ \A j \in DOMAIN relays \ S : relays'[j] = relays[j]
    BY <1>6 DEF Removed, Without
  <2>2. /\ DOMAIN byNext' = DOMAIN byNext \ NextOf(S)
        /\ \A x \in DOMAIN byNext \ NextOf(S) : byNext'[x] = byNext[x]
    BY <1>6 DEF Removed, Without
  \* Two circuits share no onward leg: byNext tells them apart.
  <2>3. ASSUME NEW j \in DOMAIN relays \ S, relays[j].next # NoKey
        PROVE  relays[j].next \notin NextOf(S)
    <3> SUFFICES ASSUME NEW i \in S \cap DOMAIN relays, relays[i].next = relays[j].next
                 PROVE  FALSE
      BY DEF NextOf
    <3>1. byNext[relays[i].next] = i /\ byNext[relays[j].next] = j
      BY <2>3 DEF LegsInv, OnwardLegsIndexed
    <3>. QED BY <3>1
  <2>4. OnwardLegsIndexed' BY <2>1, <2>2, <2>3 DEF LegsInv, OnwardLegsIndexed
  <2>5. DOMAIN byNext' \subseteq drawn' /\ NoKey \notin DOMAIN byNext'
    BY <1>6, <2>2 DEF Removed, LegsInv
  <2>. QED BY <2>4, <2>5 DEF LegsInv
<1>7. CASE Restarted BY <1>1, <1>7 DEF Restarted
<1>8. CASE Cleared BY <1>8, EmptyTyped DEF Cleared, LegsInv, OnwardLegsIndexed
<1>. QED BY <1>2, <1>3, <1>4, <1>5, <1>6, <1>7, <1>8 DEF Shape

(***************************************************************************)
(* An answer finds its way back (get_next_relay_mut): every onward leg is  *)
(* in relay_by_next under its circuit, restarts of peers included.         *)
(***************************************************************************)
THEOREM LegsAlwaysIndexed == Spec => []OnwardLegsIndexed
<1>1. Init => TablesTyped /\ LegsInv
  <2>1. Init => LegsInv BY EmptyTyped DEF Init, LegsInv, OnwardLegsIndexed
  <2>. QED BY <2>1, InitTablesTyped
<1>2. (TablesTyped /\ LegsInv) /\ [Next]_vars => (TablesTyped /\ LegsInv)'
  BY TablesStayTyped, LegsStayIndexed, StepShape DEF TablesTyped
<1>3. LegsInv => OnwardLegsIndexed BY DEF LegsInv
<1>. QED BY <1>1, <1>2, <1>3, PTL DEF Spec

-----------------------------------------------------------------------------
(* Keys are not reused: what holds while no peer restarts.                 *)

\* Keys whose circuit has not been created yet.
Unborn == {k \in PrevKeys : k[2] \in unused[k[1]]}

\* A leg of a rendezvous serves one purpose, and is known by one name.
LegsApart ==
  /\ \A k \in DOMAIN bridges : k \in DOMAIN relays => relays[k].leg # "none"
  /\ \A ck \in DOMAIN cookies :
       /\ cookies[ck] \notin DOMAIN bridges
       /\ cookies[ck] \in DOMAIN relays => relays[cookies[ck]].leg # "none"
  /\ \A x, y \in DOMAIN cookies : cookies[x] = cookies[y] => x = y

RoutesInv ==
  /\ restarts = 0
  /\ Unborn \cap DOMAIN relays = {}
  /\ Unborn \cap DOMAIN bridges = {}
  /\ \A ck \in DOMAIN cookies : cookies[ck] \notin Unborn
  /\ NextTableExact
  /\ LegsPaired
  /\ LegsApart

\* Steps after which the routes, bridges and cookies stand.
LEMMA RoutesUntouched ==
  ASSUME RoutesInv,
         DOMAIN relays' = DOMAIN relays,
         \A k \in DOMAIN relays : relays'[k].next = relays[k].next /\ relays'[k].leg = relays[k].leg,
         UNCHANGED <<byNext, bridges, cookies, unused, restarts>>
  PROVE  RoutesInv'
<1>1. Unborn' = Unborn BY DEF Unborn
<1>2. NextTableExact' BY DEF RoutesInv, NextTableExact, OnwardLegsIndexed
<1>3. LegsPaired' BY DEF RoutesInv, LegsPaired
<1>4. LegsApart' BY DEF RoutesInv, LegsApart
<1>. QED BY <1>1, <1>2, <1>3, <1>4 DEF RoutesInv

LEMMA CreatedKeepsRoutes ==
  ASSUME TablesTyped, RoutesInv, NEW k \in PrevKeys, Created(k) PROVE RoutesInv'
<1>1. PICK r \in Relay : r.next = NoKey /\ r.leg = "none" /\ relays' = Put(relays, k, r)
  BY DEF Created
<1>2. /\ DOMAIN relays' = DOMAIN relays \cup {k} /\ relays'[k] = r
      /\ \A j \in DOMAIN relays \ {k} : relays'[j] = relays[j]
  BY <1>1 DEF Put
<1>3. k \in Unborn BY DEF Unborn, Created
<1>4. Unborn' = Unborn \ {k}
  <2>1. \A j \in PrevKeys : j = k <=> (j[1] = k[1] /\ j[2] = k[2]) BY DEF PrevKeys
  <2>2. unused' = [unused EXCEPT ![k[1]] = @ \ {k[2]}] BY DEF Created
  <2>3. \A j \in PrevKeys : j[1] \in Peers BY DEF PrevKeys
  <2>. QED BY <2>1, <2>2, <2>3 DEF Unborn, TablesTyped
<1>5. k \notin DOMAIN relays /\ k \notin DOMAIN bridges
      /\ \A ck \in DOMAIN cookies : cookies[ck] # k
  BY <1>3 DEF RoutesInv
<1>6. UNCHANGED <<byNext, bridges, cookies, restarts>> BY DEF Created
<1>7. NextTableExact'
  BY <1>1, <1>2, <1>5, <1>6 DEF RoutesInv, NextTableExact, OnwardLegsIndexed
<1>8. LegsPaired' BY <1>6 DEF RoutesInv, LegsPaired
<1>9. LegsApart' BY <1>2, <1>5, <1>6 DEF RoutesInv, LegsApart
<1>. QED BY <1>2, <1>4, <1>6, <1>7, <1>8, <1>9 DEF RoutesInv

LEMMA ExtendedKeepsRoutes ==
  ASSUME RoutesInv, LegsInv, NEW k \in PrevKeys, NEW n \in NextKeys, Extended(k, n)
  PROVE  RoutesInv'
<1>1. /\ DOMAIN byNext' = DOMAIN byNext \cup {n} /\ byNext'[n] = k
      /\ \A x \in DOMAIN byNext \ {n} : byNext'[x] = byNext[x]
  BY DEF Extended, Put
<1>2. n \notin DOMAIN byNext /\ k \in DOMAIN relays /\ relays[k].next = NoKey
  BY DEF Extended, LegsInv
<1>3. /\ DOMAIN relays' = DOMAIN relays
      /\ relays'[k].next = n /\ relays'[k].leg = relays[k].leg
      /\ \A j \in DOMAIN relays \ {k} :
           relays'[j].next = relays[j].next /\ relays'[j].leg = relays[j].leg
  BY DEF Extended, RouteGiven
<1>4. UNCHANGED <<bridges, cookies, unused, restarts>> BY DEF Extended
<1>5. Unborn' = Unborn BY <1>4 DEF Unborn
<1>6. NextTableExact'
  <2>1. \A x \in DOMAIN byNext : byNext[x] # k
    <3> SUFFICES ASSUME NEW x \in DOMAIN byNext, byNext[x] = k PROVE FALSE
      OBVIOUS
    <3>1. x = NoKey BY <1>2 DEF RoutesInv, NextTableExact
    <3>. QED BY <3>1 DEF LegsInv
  <2>. QED BY <1>1, <1>2, <1>3, <2>1 DEF RoutesInv, NextTableExact, OnwardLegsIndexed
<1>7. LegsPaired' BY <1>4 DEF RoutesInv, LegsPaired
<1>8. LegsApart' BY <1>3, <1>4 DEF RoutesInv, LegsApart
<1>. QED BY <1>3, <1>4, <1>5, <1>6, <1>7, <1>8 DEF RoutesInv

LEMMA CookieSetKeepsRoutes ==
  ASSUME RoutesInv, NEW k \in PrevKeys, NEW ck \in Cookies, CookieSet(k, ck)
  PROVE  RoutesInv'
<1>1. /\ DOMAIN cookies' = DOMAIN cookies \cup {ck} /\ cookies'[ck] = k
      /\ \A x \in DOMAIN cookies \ {ck} : cookies'[x] = cookies[x]
  BY DEF CookieSet, Put
<1>2. ck \notin DOMAIN cookies /\ k \in DOMAIN relays /\ relays[k].leg = "none"
  BY DEF CookieSet
<1>3. /\ DOMAIN relays' = DOMAIN relays /\ relays'[k].leg = "client"
      /\ \A j \in DOMAIN relays : relays'[j].next = relays[j].next
      /\ \A j \in DOMAIN relays \ {k} : relays'[j].leg = relays[j].leg
  BY DEF CookieSet, RouteGiven
<1>4. UNCHANGED <<byNext, bridges, unused, restarts>> BY DEF CookieSet
<1>5. Unborn' = Unborn /\ k \notin Unborn BY <1>2, <1>4 DEF Unborn, RoutesInv
<1>6. k \notin DOMAIN bridges /\ \A x \in DOMAIN cookies : cookies[x] # k
  BY <1>2 DEF RoutesInv, LegsApart
<1>7. NextTableExact' BY <1>3, <1>4 DEF RoutesInv, NextTableExact, OnwardLegsIndexed
<1>8. LegsPaired' BY <1>4 DEF RoutesInv, LegsPaired
<1>9. LegsApart' BY <1>1, <1>2, <1>3, <1>4, <1>6 DEF RoutesInv, LegsApart
<1>. QED BY <1>1, <1>2, <1>3, <1>4, <1>5, <1>7, <1>8, <1>9 DEF RoutesInv

LEMMA BridgedKeepsRoutes ==
  ASSUME RoutesInv, NEW k \in PrevKeys, NEW ck \in Cookies, Bridged(k, ck)
  PROVE  RoutesInv'
<1>1. k \in DOMAIN relays /\ relays[k].leg = "none" BY DEF Bridged
<1>2. /\ DOMAIN relays' = DOMAIN relays /\ relays'[k].leg = "service"
      /\ \A j \in DOMAIN relays : relays'[j].next = relays[j].next
      /\ \A j \in DOMAIN relays \ {k} : relays'[j].leg = relays[j].leg
  BY DEF Bridged, RouteGiven
<1>3. UNCHANGED <<byNext, unused, restarts>> BY DEF Bridged
<1>4. Unborn' = Unborn /\ k \notin Unborn BY <1>1, <1>3 DEF Unborn, RoutesInv
<1>5. NextTableExact' BY <1>2, <1>3 DEF RoutesInv, NextTableExact, OnwardLegsIndexed
<1>6. CASE ck \notin DOMAIN cookies
  <2>1. bridges' = bridges /\ cookies' = cookies BY <1>6 DEF Bridged
  <2>2. LegsPaired' BY <2>1 DEF RoutesInv, LegsPaired
  <2>3. LegsApart' BY <1>2, <2>1 DEF RoutesInv, LegsApart
  <2>. QED BY <1>2, <1>3, <1>4, <1>5, <2>1, <2>2, <2>3 DEF RoutesInv
<1>7. CASE ck \in DOMAIN cookies
  <2>. DEFINE c == cookies[ck]
  <2>1. c # k /\ c \notin DOMAIN bridges /\ k \notin DOMAIN bridges /\ c \notin Unborn
    BY <1>1, <1>7 DEF RoutesInv, LegsApart
  <2>2. /\ bridges' = Put(Put(bridges, c, k), k, c)
        /\ cookies' = Without(cookies, {ck})
    BY <1>7 DEF Bridged
  <2>3. c \in DOMAIN relays => relays[c].leg # "none" BY <1>7 DEF RoutesInv, LegsApart
  <2>4. \A x \in DOMAIN cookies \ {ck} : cookies[x] # c /\ cookies[x] # k
    BY <1>1, <1>7 DEF RoutesInv, LegsApart
  <2>. HIDE DEF c
  <2>5. /\ DOMAIN bridges' = DOMAIN bridges \cup {c, k}
        /\ bridges'[c] = k /\ bridges'[k] = c
        /\ \A x \in DOMAIN bridges : bridges'[x] = bridges[x]
    BY <2>1, <2>2 DEF Put
  <2>6. /\ DOMAIN cookies' = DOMAIN cookies \ {ck}
        /\ \A x \in DOMAIN cookies' : cookies'[x] = cookies[x]
    BY <2>2 DEF Without
  <2>7. LegsPaired' BY <2>1, <2>5 DEF RoutesInv, LegsPaired
  <2>8. LegsApart' BY <1>2, <2>1, <2>3, <2>4, <2>5, <2>6 DEF RoutesInv, LegsApart
  <2>. QED BY <1>2, <1>3, <1>4, <1>5, <2>1, <2>5, <2>6, <2>7, <2>8 DEF RoutesInv
<1>. QED BY <1>6, <1>7

LEMMA RemovedKeepsRoutes ==
  ASSUME RoutesInv, NEW S, Removed(S) PROVE RoutesInv'
<1>. DEFINE T == S \cup {bridges[k] : k \in S \cap DOMAIN bridges}
<1>1. /\ DOMAIN relays' = DOMAIN relays \ S
      /\ \A j \in DOMAIN relays' : relays'[j] = relays[j]
  BY DEF Removed, Without
<1>2. /\ DOMAIN byNext' = DOMAIN byNext \ NextOf(S)
      /\ \A x \in DOMAIN byNext' : byNext'[x] = byNext[x]
  BY DEF Removed, Without
<1>3. /\ DOMAIN bridges' = DOMAIN bridges \ T
      /\ \A x \in DOMAIN bridges' : bridges'[x] = bridges[x]
  BY DEF Removed, Unbridged, Without
<1>4. /\ DOMAIN cookies' \subseteq DOMAIN cookies
      /\ \A x \in DOMAIN cookies' : cookies'[x] = cookies[x]
      /\ UNCHANGED <<unused, restarts>>
  BY DEF Removed
<1>5. Unborn' = Unborn BY <1>4 DEF Unborn
<1>6. \A x \in DOMAIN bridges \ T : bridges[x] \notin T
  <2> SUFFICES ASSUME NEW x \in DOMAIN bridges, x \notin T, bridges[x] \in T PROVE FALSE
    OBVIOUS
  <2>1. bridges[x] \in DOMAIN bridges /\ bridges[bridges[x]] = x
    BY DEF RoutesInv, LegsPaired
  <2>2. CASE bridges[x] \in S BY <2>1, <2>2
  <2>3. ASSUME NEW k \in S \cap DOMAIN bridges, bridges[x] = bridges[k] PROVE FALSE
    <3>1. bridges[bridges[k]] = k BY DEF RoutesInv, LegsPaired
    <3>. QED BY <2>1, <2>3, <3>1
  <2>. QED BY <2>2, <2>3
<1>. HIDE DEF T
<1>7. NextTableExact'
  <2>1. ASSUME NEW k \in DOMAIN relays \ S, relays[k].next # NoKey
        PROVE  relays[k].next \notin NextOf(S)
    <3> SUFFICES ASSUME NEW i \in S \cap DOMAIN relays, relays[i].next = relays[k].next
                 PROVE  FALSE
      BY DEF NextOf
    <3>1. byNext[relays[i].next] = i /\ byNext[relays[k].next] = k
      BY <2>1 DEF RoutesInv, NextTableExact, OnwardLegsIndexed
    <3>. QED BY <3>1
  <2>2. OnwardLegsIndexed'
    BY <1>1, <1>2, <2>1 DEF RoutesInv, NextTableExact, OnwardLegsIndexed
  <2>3. ASSUME NEW x \in DOMAIN byNext'
        PROVE  byNext'[x] \in DOMAIN relays' /\ relays'[byNext'[x]].next = x
    <3>1. byNext[x] \in DOMAIN relays /\ relays[byNext[x]].next = x
      BY <1>2 DEF RoutesInv, NextTableExact
    <3>2. byNext[x] \notin S BY <1>2, <3>1 DEF NextOf
    <3>. QED BY <1>1, <1>2, <3>1, <3>2
  <2>. QED BY <2>2, <2>3 DEF NextTableExact
<1>8. LegsPaired' BY <1>3, <1>6 DEF RoutesInv, LegsPaired
<1>9. LegsApart' BY <1>1, <1>3, <1>4 DEF RoutesInv, LegsApart
<1>. QED BY <1>1, <1>3, <1>4, <1>5, <1>7, <1>8, <1>9 DEF RoutesInv

LEMMA ClearedKeepsRoutes ==
  ASSUME RoutesInv, Cleared PROVE RoutesInv'
<1>1. /\ DOMAIN relays' = {} /\ DOMAIN byNext' = {}
      /\ DOMAIN bridges' = {} /\ DOMAIN cookies' = {}
  BY EmptyTyped DEF Cleared
<1>2. restarts' = 0 BY DEF Cleared, RoutesInv
<1>3. NextTableExact' /\ LegsPaired' /\ LegsApart'
  BY <1>1 DEF NextTableExact, OnwardLegsIndexed, LegsPaired, LegsApart
<1>. QED BY <1>1, <1>2, <1>3 DEF RoutesInv

\* ... and they are all the steps there are, but for a peer's restart.
LEMMA RoutesStepSafe ==
  ASSUME TablesTyped, LegsInv, RoutesInv, Shape, ~ Restarted PROVE RoutesInv'
<1>1. CASE Quiet BY <1>1, RoutesUntouched DEF Quiet, RoutesKept
<1>2. ASSUME NEW k \in PrevKeys, Created(k) PROVE RoutesInv'
  BY <1>2, CreatedKeepsRoutes
<1>3. ASSUME NEW k \in PrevKeys, NEW n \in NextKeys, Extended(k, n) PROVE RoutesInv'
  BY <1>3, ExtendedKeepsRoutes
<1>4. ASSUME NEW k \in PrevKeys, NEW ck \in Cookies, CookieSet(k, ck) \/ Bridged(k, ck)
      PROVE  RoutesInv'
  BY <1>4, CookieSetKeepsRoutes, BridgedKeepsRoutes
<1>5. ASSUME NEW S, Removed(S) PROVE RoutesInv' BY <1>5, RemovedKeepsRoutes
<1>6. CASE Cleared BY <1>6, ClearedKeepsRoutes
<1>. QED BY <1>1, <1>2, <1>3, <1>4, <1>5, <1>6 DEF Shape

\* A step after which no peer has restarted was no restart.
LEMMA NoRestartStep ==
  ASSUME TablesTyped, Shape, restarts' = 0
  PROVE  restarts = 0 /\ ~ Restarted
<1>1. ~ Restarted BY DEF Restarted, TablesTyped
<1>. QED BY <1>1
       DEF Shape, Quiet, RoutesKept, Created, Extended, CookieSet, Bridged, Removed, Cleared

LEMMA RoutesSafe ==
  Spec => [](TablesTyped /\ LegsInv /\ (restarts = 0 => RoutesInv))
<1>1. Init => TablesTyped /\ LegsInv /\ (restarts = 0 => RoutesInv)
  <2>1. Init => LegsInv BY EmptyTyped DEF Init, LegsInv, OnwardLegsIndexed
  <2>2. Init => RoutesInv
    BY EmptyTyped DEF Init, RoutesInv, NextTableExact, OnwardLegsIndexed, LegsPaired, LegsApart
  <2>. QED BY <2>1, <2>2, InitTablesTyped
<1>2. (TablesTyped /\ LegsInv /\ (restarts = 0 => RoutesInv)) /\ [Next]_vars
        => (TablesTyped /\ LegsInv /\ (restarts = 0 => RoutesInv))'
  <2> SUFFICES ASSUME TablesTyped, LegsInv, restarts = 0 => RoutesInv, [Next]_vars
               PROVE  (TablesTyped /\ LegsInv /\ (restarts = 0 => RoutesInv))'
    OBVIOUS
  <2>1. Shape BY StepShape DEF TablesTyped
  <2>2. TablesTyped' /\ LegsInv' BY <2>1, TablesStayTyped, LegsStayIndexed
  <2>3. ASSUME restarts' = 0 PROVE RoutesInv'
    BY <2>1, <2>3, NoRestartStep, RoutesStepSafe
  <2>. QED BY <2>2, <2>3
<1>. QED BY <1>1, <1>2, PTL DEF Spec

(***************************************************************************)
(* While no peer starts its ids over, relay_by_next is exactly the inverse *)
(* of relays (CircuitManager): nothing is left in it by destroy, eviction  *)
(* or a failed extend to hand cells to a circuit created later.            *)
(***************************************************************************)
THEOREM NextTableStaysInverse == Spec => []NextTableInverse
<1>1. (restarts = 0 => RoutesInv) => NextTableInverse BY DEF RoutesInv, NextTableInverse
<1>. QED BY <1>1, RoutesSafe, PTL

(***************************************************************************)
(* While no peer starts its ids over, a rendezvous bridge joins two        *)
(* different legs that name each other (bridge_rendezvous, and             *)
(* unbridge_rendezvous on every way a leg can go).                         *)
(***************************************************************************)
THEOREM BridgesStayPaired == Spec => []BridgesPaired
<1>1. (restarts = 0 => RoutesInv) => BridgesPaired BY DEF RoutesInv, BridgesPaired
<1>. QED BY <1>1, RoutesSafe, PTL

(***************************************************************************)
(* Whatever cells, evictions, failed dials and new identities come, the    *)
(* tables of a node agree with each other, and the hops of its circuits    *)
(* with the handshakes it started (CircuitManager).                        *)
(***************************************************************************)
THEOREM TablesStayInAgreement == Spec => []TablesAgree
<1>1. OnwardLegsIndexed /\ NextTableInverse /\ BridgesPaired /\ HopsWithinBudget => TablesAgree
  BY DEF TablesAgree
<1>. QED
  BY <1>1, LegsAlwaysIndexed, NextTableStaysInverse, BridgesStayPaired, HopsStayWithinBudget, PTL
=============================================================================

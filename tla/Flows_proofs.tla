---------------------------- MODULE Flows_proofs ----------------------------
(***************************************************************************)
(* What the parts a circuit's traffic goes through guarantee, each on its  *)
(* own and for every choice of its constants: the congestion controller,   *)
(* the exit, measurements, padding, the building of circuits, and the flow *)
(* control of streams.                                                     *)
(***************************************************************************)
EXTENDS Vegas, ExitStreams, Control, Padding, CircuitBuild, StreamFlow, SeqLemmas, FiniteSetTheorems,
        FunctionTheorems

(* The congestion controller. *)

-----------------------------------------------------------------------------
(* Arithmetic. *)

\* set_cwnd keeps the window within its bounds, and is monotone below them.
LEMMA ClampBounds ==
  ASSUME NEW t \in Int
  PROVE  /\ Clamp(t) \in CwndMin .. CwndMax
         /\ \A c \in CwndMin .. CwndMax : t <= c => Clamp(t) <= c
         /\ \A c \in CwndMin .. CwndMax : t <= c + SendmeInc => Clamp(t) <= c + SendmeInc
<1>1. /\ CwndMin \in Nat /\ CwndMax \in Nat /\ CwndMin <= CwndMax /\ SendmeInc \in Nat
  BY WindowAssumption
<1>. QED BY <1>1 DEF Clamp, Most, Least

\* Division with remainder, and that it is unique.
LEMMA DivMod ==
  ASSUME NEW n \in Nat, NEW k \in Nat \ {0}
  PROVE  /\ n % k \in 0 .. k - 1
         /\ n \div k \in Nat
         /\ n = k * (n \div k) + (n % k)
<1>1. n % k \in 0 .. k - 1 BY SMT
<1>2. n \div k \in Int BY SMT
<1>3. n \div k >= 0 BY SMT
<1>4. n = k * (n \div k) + (n % k) BY SMT
<1>. QED BY <1>1, <1>2, <1>3, <1>4

LEMMA RemainderUnique ==
  ASSUME NEW k \in Nat \ {0}, NEW a \in Nat, NEW b \in Nat,
         NEW r \in 0 .. k - 1, NEW t \in 0 .. k - 1,
         k * a + r = k * b + t
  PROVE  r = t
<1>1. ASSUME NEW x \in Nat, NEW y \in Nat, x < y PROVE k * y >= k * x + k
  <2>1. k * y - k * x = k * (y - x) BY SMT
  <2>2. k * (y - x) >= k BY <1>1, SMT
  <2>3. k * x \in Nat /\ k * y \in Nat BY SMT
  <2>. QED BY <2>1, <2>2, <2>3
<1>2. k * a \in Nat /\ k * b \in Nat BY SMT
<1>3. ~ (a < b) BY <1>1, <1>2
<1>4. ~ (b < a) BY <1>1, <1>2
<1>5. a = b BY <1>3, <1>4
<1>. QED BY <1>2, <1>5

\* Counting modulo k.
LEMMA ModStep ==
  ASSUME NEW n \in Nat, NEW k \in Nat \ {0}
  PROVE  /\ n % k \in 0 .. k - 1
         /\ (n + 1) % k = 0 => n % k = k - 1
         /\ (n + 1) % k # 0 => (n + 1) % k = (n % k) + 1
<1>. DEFINE r == n % k  d == n \div k  r1 == (n + 1) % k  d1 == (n + 1) \div k
<1>1. /\ r \in 0 .. k - 1 /\ d \in Nat /\ n = k * d + r
      /\ r1 \in 0 .. k - 1 /\ d1 \in Nat /\ n + 1 = k * d1 + r1
  <2>1. n + 1 \in Nat OBVIOUS
  <2>2. r \in 0 .. k - 1 /\ d \in Nat /\ n = k * d + r BY DivMod
  <2>3. r1 \in 0 .. k - 1 /\ d1 \in Nat /\ n + 1 = k * d1 + r1 BY <2>1, DivMod
  <2>. QED BY <2>2, <2>3
<1>. HIDE DEF r, d, r1, d1
<1>2. k * d \in Nat /\ k * d1 \in Nat BY <1>1, SMT
<1>3. CASE r < k - 1
  <2>1. r + 1 \in 0 .. k - 1 /\ k * d1 + r1 = k * d + (r + 1) BY <1>1, <1>2, <1>3
  <2>2. r1 = r + 1 BY <2>1, <1>1, RemainderUnique
  <2>. QED BY <2>2, <1>1 DEF r, r1
<1>4. CASE r = k - 1
  <2>1. k * (d + 1) = k * d + k BY <1>1, SMT
  <2>2. k * d1 + r1 = k * (d + 1) + 0 BY <2>1, <1>1, <1>2, <1>4
  <2>3. r1 = 0 BY <2>2, <1>1, RemainderUnique
  <2>. QED BY <2>3, <1>1, <1>4 DEF r, r1
<1>. QED BY <1>1, <1>3, <1>4

\* An average weighted 7 to 1 lies between what it averages.
LEMMA FoldBounds ==
  ASSUME NEW m \in Nat, NEW e \in Nat, NEW x \in Nat, m <= e
  PROVE  /\ (7 * e + x) \div 8 \in Nat
         /\ Least(m, x) \in Nat
         /\ Least(m, x) <= (7 * e + x) \div 8
  BY SMT DEF Least

-----------------------------------------------------------------------------

VegasInv == TypeOK /\ MinBelowEwma /\ InflightExact

LEMMA InitVegasInv ==
  ASSUME Init PROVE VegasInv
<1>1. TypeOK
  <2>1. slowStart \in BOOLEAN BY DEF Init
  <2>2. cwnd \in CwndMin .. CwndMax BY WindowAssumption DEF Init
  <2>. QED BY <2>1, <2>2 DEF Init, TypeOK
<1>2. MinBelowEwma BY DEF Init, MinBelowEwma
<1>3. InflightExact
  <2>1. SendmeInc * 0 = 0 /\ 0 % SendmeInc = 0 BY WindowAssumption, SMT
  <2>. QED BY <2>1 DEF Init, InflightExact
<1>. QED BY <1>1, <1>2, <1>3 DEF VegasInv

LEMMA OnSendKeepsInv ==
  ASSUME VegasInv, OnSend PROVE VegasInv'
<1>t. /\ inflight \in Nat /\ totalSent \in Nat /\ now \in Nat
      /\ unanswered \in Seq(Nat) /\ Len(unanswered) \in Nat
      /\ SendmeInc \in Nat \ {0}
  BY WindowAssumption DEF VegasInv, TypeOK
<1>1. TypeOK'
  <2>1. slowStart' \in BOOLEAN BY DEF VegasInv, TypeOK, OnSend
  <2>2. trigger' \in (0 .. now') \cup {None} BY <1>t DEF VegasInv, TypeOK, OnSend
  <2>3. unanswered' \in Seq(Nat)
    <3>1. unanswered' = unanswered \/ unanswered' = Append(unanswered, now) BY DEF OnSend
    <3>2. Append(unanswered, now) \in Seq(Nat) BY <1>t
    <3>. QED BY <1>t, <3>1, <3>2
  <2>4. inflight' \in Nat /\ totalSent' \in Nat BY <1>t DEF OnSend
  <2>. QED BY <2>1, <2>2, <2>3, <2>4 DEF VegasInv, TypeOK, OnSend
<1>2. MinBelowEwma' BY DEF VegasInv, MinBelowEwma, OnSend
<1>3. InflightExact'
  <2>1. inflight' = inflight + 1 /\ totalSent' = totalSent + 1 BY DEF OnSend
  <2>2. inflight = SendmeInc * Len(unanswered) + (totalSent % SendmeInc)
    BY DEF VegasInv, InflightExact
  <2>3. SendmeInc * Len(unanswered) \in Nat BY <1>t, SMT
  <2>4. totalSent % SendmeInc \in 0 .. SendmeInc - 1 BY <1>t, ModStep
  <2>5. CASE (totalSent + 1) % SendmeInc = 0
    <3>1. totalSent % SendmeInc = SendmeInc - 1 BY <2>5, <1>t, ModStep
    <3>2. Len(unanswered') = Len(unanswered) + 1 BY <2>5, <1>t DEF OnSend
    <3>3. SendmeInc * (Len(unanswered) + 1) = SendmeInc * Len(unanswered) + SendmeInc
      BY <1>t, SMT
    <3>. QED BY <2>1, <2>2, <2>3, <2>5, <3>1, <3>2, <3>3, <1>t DEF InflightExact
  <2>6. CASE (totalSent + 1) % SendmeInc # 0
    <3>1. (totalSent + 1) % SendmeInc = (totalSent % SendmeInc) + 1
      BY <2>6, <1>t, ModStep
    <3>2. unanswered' = unanswered BY <2>6 DEF OnSend
    <3>. QED BY <2>1, <2>2, <2>3, <2>4, <3>1, <3>2, <1>t DEF InflightExact
  <2>. QED BY <2>5, <2>6
<1>. QED BY <1>1, <1>2, <1>3 DEF VegasInv

\* update_cwnd keeps the window within its bounds, adds one increment at most,
\* and never goes back to slow start.
LEMMA UpdateCwndBounds ==
  ASSUME VegasInv, NEW queue, UpdateCwnd(queue)
  PROVE  /\ cwnd' \in CwndMin .. CwndMax
         /\ cwnd' <= cwnd + SendmeInc
         /\ slowStart' \in BOOLEAN /\ (slowStart' => slowStart)
<1>1. /\ cwnd \in CwndMin .. CwndMax
      /\ cwnd \in Nat /\ SendmeInc \in Nat /\ CwndMin \in Nat /\ CwndMax \in Nat
  BY WindowAssumption DEF VegasInv, TypeOK
<1>2. slowStart \in BOOLEAN BY DEF VegasInv, TypeOK
<1>3. slowStart' \in BOOLEAN /\ (slowStart' => slowStart)
  <2>1. slowStart' = FALSE \/ slowStart' = slowStart BY DEF UpdateCwnd
  <2>2. CASE slowStart' = FALSE BY <2>2
  <2>3. CASE slowStart' = slowStart BY <2>3, <1>2
  <2>. QED BY <2>1, <2>2, <2>3
<1>4. /\ (3 * cwnd) \div 4 \in Int /\ (3 * cwnd) \div 4 <= cwnd
      /\ cwnd + SendmeInc \in Int
      /\ Most(0, cwnd - SendmeInc) \in Int /\ Most(0, cwnd - SendmeInc) <= cwnd
  BY <1>1 DEF Most
<1>5. \/ cwnd' = Clamp((3 * cwnd) \div 4)
      \/ cwnd' = Clamp(cwnd + SendmeInc)
      \/ cwnd' = Clamp(Most(0, cwnd - SendmeInc))
      \/ cwnd' = cwnd
  BY DEF UpdateCwnd
<1>6. CASE cwnd' = Clamp((3 * cwnd) \div 4)
  <2>1. cwnd' \in CwndMin .. CwndMax /\ cwnd' <= cwnd BY <1>1, <1>4, <1>6, ClampBounds
  <2>. QED BY <2>1, <1>1, <1>3
<1>7. CASE cwnd' = Clamp(cwnd + SendmeInc)
  <2>1. cwnd' \in CwndMin .. CwndMax /\ cwnd' <= cwnd + SendmeInc
    BY <1>1, <1>4, <1>7, ClampBounds
  <2>. QED BY <2>1, <1>3
<1>8. CASE cwnd' = Clamp(Most(0, cwnd - SendmeInc))
  <2>1. cwnd' \in CwndMin .. CwndMax /\ cwnd' <= cwnd BY <1>1, <1>4, <1>8, ClampBounds
  <2>. QED BY <2>1, <1>1, <1>3
<1>9. CASE cwnd' = cwnd BY <1>1, <1>3, <1>9
<1>. QED BY <1>5, <1>6, <1>7, <1>8, <1>9

\* What a SENDME does to the window: nothing before the first RTT sample.
LEMMA OnSendmeBounds ==
  ASSUME VegasInv, OnSendme
  PROVE  /\ cwnd' \in CwndMin .. CwndMax
         /\ cwnd' <= cwnd + SendmeInc
         /\ slowStart' \in BOOLEAN /\ (slowStart' => slowStart)
<1>1. CASE rttEwma' # None
  <2>1. UpdateCwnd(QueueEstimate(rttEwma', rttMin')) BY <1>1 DEF OnSendme
  <2>. QED BY <2>1, UpdateCwndBounds
<1>2. CASE rttEwma' = None
  <2>1. cwnd' = cwnd BY <1>2 DEF OnSendme
  <2>2. slowStart' = slowStart BY <1>2 DEF OnSendme
  <2>3. slowStart \in BOOLEAN BY DEF VegasInv, TypeOK
  <2>4. /\ cwnd \in CwndMin .. CwndMax /\ SendmeInc \in Nat
        /\ CwndMin \in Nat /\ CwndMax \in Nat
    BY WindowAssumption DEF VegasInv, TypeOK
  <2>. QED BY <2>1, <2>2, <2>3, <2>4
<1>. QED BY <1>1, <1>2

LEMMA OnSendmeKeepsInv ==
  ASSUME VegasInv, OnSendme PROVE VegasInv'
<1>t. /\ inflight \in Nat /\ totalSent \in Nat /\ now \in Nat
      /\ unanswered \in Seq(Nat) /\ Len(unanswered) \in Nat /\ unanswered # <<>>
      /\ SendmeInc \in Nat \ {0}
      /\ totalSent' = totalSent /\ now' = now /\ unanswered' = Tail(unanswered)
      /\ inflight' = inflight - Least(SendmeInc, inflight)
  BY WindowAssumption DEF VegasInv, TypeOK, OnSendme
<1>1. /\ rttMin' \in Nat \cup {None} /\ rttEwma' \in Nat \cup {None}
      /\ (rttMin' = None) <=> (rttEwma' = None)
      /\ rttMin' # None => rttMin' <= rttEwma'
  <2>1. /\ rttMin \in Nat \cup {None} /\ rttEwma \in Nat \cup {None}
        /\ (rttMin = None) <=> (rttEwma = None)
        /\ rttMin # None => rttMin <= rttEwma
    BY DEF VegasInv, TypeOK, MinBelowEwma
  <2>2. CASE trigger = None
    <3>1. rttMin' = rttMin /\ rttEwma' = rttEwma BY <2>2 DEF OnSendme
    <3>. QED BY <3>1, <2>1
  <2>3. CASE trigger # None
    <3>1. now - trigger \in Nat BY <2>3, <1>t DEF VegasInv, TypeOK
    <3>2. rttMin' = FoldMin(now - trigger) /\ rttEwma' = FoldEwma(now - trigger)
      BY <2>3 DEF OnSendme
    <3>3. CASE rttMin = None
      <4>1. rttMin' = now - trigger /\ rttEwma' = now - trigger
        BY <3>2, <3>3, <2>1 DEF FoldMin, FoldEwma
      <4>. QED BY <4>1, <3>1, NoneAssumption
    <3>4. CASE rttMin # None
      <4>1. rttMin \in Nat /\ rttEwma \in Nat /\ rttMin <= rttEwma BY <2>1, <3>4
      <4>2. /\ rttMin' = Least(rttMin, now - trigger)
            /\ rttEwma' = (7 * rttEwma + (now - trigger)) \div 8
        BY <3>2, <3>4, <2>1 DEF FoldMin, FoldEwma
      <4>3. rttMin' \in Nat /\ rttEwma' \in Nat /\ rttMin' <= rttEwma'
        BY <3>1, <4>1, <4>2, FoldBounds
      <4>. QED BY <4>3, NoneAssumption
    <3>. QED BY <3>3, <3>4
  <2>. QED BY <2>2, <2>3
<1>2. TypeOK'
  <2>1. cwnd' \in CwndMin .. CwndMax /\ slowStart' \in BOOLEAN BY OnSendmeBounds
  <2>2. inflight' \in Nat BY <1>t DEF Least
  <2>3. unanswered' \in Seq(Nat) BY <1>t
  <2>4. trigger' = None BY DEF OnSendme
  <2>. QED BY <2>1, <2>2, <2>3, <2>4, <1>1, <1>t DEF TypeOK
<1>3. MinBelowEwma' BY <1>1 DEF MinBelowEwma
<1>4. InflightExact'
  <2>1. inflight = SendmeInc * Len(unanswered) + (totalSent % SendmeInc)
    BY DEF VegasInv, InflightExact
  <2>2. totalSent % SendmeInc \in 0 .. SendmeInc - 1 BY <1>t, ModStep
  <2>3. Len(unanswered') = Len(unanswered) - 1 /\ Len(unanswered) \in Nat \ {0} BY <1>t
  <2>4. /\ SendmeInc * (Len(unanswered) - 1) = SendmeInc * Len(unanswered) - SendmeInc
        /\ SendmeInc * (Len(unanswered) - 1) \in Nat
    BY <2>3, <1>t, SMT
  <2>5. SendmeInc <= inflight BY <2>1, <2>2, <2>4, <1>t
  <2>6. inflight' = inflight - SendmeInc BY <2>5, <1>t DEF Least
  <2>. QED BY <2>1, <2>2, <2>3, <2>4, <2>6, <1>t DEF InflightExact
<1>. QED BY <1>2, <1>3, <1>4 DEF VegasInv

LEMMA TickKeepsInv ==
  ASSUME VegasInv, Tick \/ UNCHANGED vars PROVE VegasInv'
<1>1. /\ UNCHANGED <<cwnd, inflight, rttMin, rttEwma, trigger, totalSent, unanswered>>
      /\ now' \in {now, now + 1} /\ now \in Nat
  BY DEF VegasInv, TypeOK, Tick, vars
<1>2. slowStart' = slowStart BY DEF Tick, vars
<1>3. TypeOK'
  <2>1. slowStart' \in BOOLEAN BY <1>2 DEF VegasInv, TypeOK
  <2>2. trigger' \in (0 .. now') \cup {None} BY <1>1 DEF VegasInv, TypeOK
  <2>. QED BY <1>1, <2>1, <2>2 DEF VegasInv, TypeOK
<1>4. MinBelowEwma' /\ InflightExact' BY <1>1 DEF VegasInv, MinBelowEwma, InflightExact
<1>. QED BY <1>3, <1>4 DEF VegasInv

LEMMA VegasSafe == Spec => []VegasInv
<1>1. Init => VegasInv BY InitVegasInv
<1>2. VegasInv /\ [Next]_vars => VegasInv'
  BY OnSendKeepsInv, OnSendmeKeepsInv, TickKeepsInv DEF Next
<1>. QED BY <1>1, <1>2, PTL DEF Spec

(***************************************************************************)
(* The window stays within CC_CWND_MIN .. CC_CWND_MAX (set_cwnd), whatever *)
(* the estimates say, and every field keeps its type.                      *)
(***************************************************************************)
THEOREM WindowWithinBounds == Spec => []TypeOK
<1>1. VegasInv => TypeOK BY DEF VegasInv
<1>. QED BY <1>1, VegasSafe, PTL

(***************************************************************************)
(* fold_rtt keeps the smoothed RTT at or above the minimum, for ever, in   *)
(* spite of its rounding: queue_estimate subtracts without saturating.     *)
(***************************************************************************)
THEOREM MinStaysBelowEwma == Spec => []MinBelowEwma
<1>1. VegasInv => MinBelowEwma BY DEF VegasInv
<1>. QED BY <1>1, VegasSafe, PTL

(***************************************************************************)
(* on_send and on_sendme keep an exact account of the cells in flight: no  *)
(* SENDME ever finds fewer than one increment to take off.                 *)
(***************************************************************************)
THEOREM InflightStaysExact == Spec => []InflightExact
<1>1. VegasInv => InflightExact BY DEF VegasInv
<1>. QED BY <1>1, VegasSafe, PTL

(***************************************************************************)
(* A sender that cannot send (can_send is false) is owed a SENDME: the     *)
(* window, however small it was cut, is at least one increment.            *)
(***************************************************************************)
THEOREM FullWindowIsAnswered == Spec => []FullWindowAnswered
<1>1. VegasInv => FullWindowAnswered
  <2> SUFFICES ASSUME VegasInv, inflight >= cwnd, unanswered = <<>> PROVE FALSE
    BY DEF FullWindowAnswered
  <2>1. /\ SendmeInc \in Nat \ {0} /\ CwndMin \in Nat /\ CwndMax \in Nat
        /\ SendmeInc <= CwndMin /\ totalSent \in Nat /\ cwnd \in CwndMin .. CwndMax
        /\ inflight \in Nat
    BY WindowAssumption DEF VegasInv, TypeOK
  <2>2. inflight = SendmeInc * 0 + (totalSent % SendmeInc) BY DEF VegasInv, InflightExact
  <2>3. totalSent % SendmeInc \in 0 .. SendmeInc - 1 BY <2>1, ModStep
  <2>. QED BY <2>1, <2>2, <2>3
<1>. QED BY <1>1, VegasSafe, PTL

(***************************************************************************)
(* No SENDME grows the window by more than one increment, and slow start   *)
(* is never entered again (update_cwnd).                                   *)
(***************************************************************************)
THEOREM GrowthIsBounded == Spec => GrowthBounded
<1>1. VegasInv /\ [Next]_vars
        => [cwnd' <= cwnd + SendmeInc /\ (slowStart' => slowStart)]_vars
  <2> SUFFICES ASSUME VegasInv, Next
               PROVE  cwnd' <= cwnd + SendmeInc /\ (slowStart' => slowStart)
    OBVIOUS
  <2>1. CASE OnSendme BY <2>1, OnSendmeBounds
  <2>2. CASE OnSend \/ Tick
    <3>1. cwnd' = cwnd BY <2>2 DEF OnSend, Tick
    <3>2. slowStart' => slowStart BY <2>2 DEF OnSend, Tick
    <3>3. cwnd \in Nat /\ SendmeInc \in Nat
      BY WindowAssumption DEF VegasInv, TypeOK
    <3>. QED BY <3>1, <3>2, <3>3
  <2>. QED BY <2>1, <2>2 DEF Next
<1>. QED BY <1>1, VegasSafe, PTL DEF Spec, GrowthBounded

(***************************************************************************)
(* What the controller knows of its cells is exact, for every clamp,       *)
(* threshold and order of SENDMEs (on_send, on_sendme).                    *)
(***************************************************************************)
THEOREM AcksStayExact == Spec => []AcksExact
<1>1. MinBelowEwma /\ InflightExact /\ FullWindowAnswered => AcksExact BY DEF AcksExact
<1>. QED BY <1>1, MinStaysBelowEwma, InflightStaysExact, FullWindowIsAnswered, PTL

-----------------------------------------------------------------------------
(* The exit. *)

(***************************************************************************)
(* Why a rejected target gets nothing: it never comes past the connect, so *)
(* no table entry and no task is made for it.  A stream that has not been  *)
(* begun has neither, which lets BEGIN name any target.                    *)
(***************************************************************************)
Served(s) == reader[s] # "no" \/ received[s] # {} \/ \E k \in DOMAIN writers : writers[k] = s

PolicyInv ==
    /\ begin \in [Opens -> {"no", "connecting", "registered", "over"}]
    /\ to \in [Opens -> Target]
    /\ DOMAIN reader = Opens /\ DOMAIN received = Opens
    /\ \A s \in Opens : KeyOf(s) \in DOMAIN writers
    /\ \A s \in Opens :
         /\ begin[s] \in {"no", "connecting"} => ~Served(s)
         /\ begin[s] = "registered" => CheckPostResolve(to[s])
         /\ Served(s) => CheckPostResolve(to[s])

\* No stream is the missing one.
LEMMA NoTargetIsNone == NoTarget \notin Opens
BY ExitAssumption DEF NoTarget

\* Steps that make no entry, task or target, and bring no stream nearer to one.
LEMMA QuietSteps ==
    ASSUME PolicyInv, UNCHANGED <<begin, to, received>>, DOMAIN reader' = Opens,
           \A s \in Opens : reader'[s] # "no" => reader[s] # "no",
           DOMAIN writers' = DOMAIN writers,
           \A k \in DOMAIN writers : writers'[k] \in {NoTarget, writers[k]}
    PROVE  PolicyInv'
<1>1. \A s \in Opens : Served(s)' => Served(s)
  BY NoTargetIsNone DEF PolicyInv, Served
<1>. QED BY <1>1 DEF PolicyInv, CheckPostResolve

LEMMA BeginKeeps ==
    ASSUME PolicyInv, NEW s \in Opens, NEW target \in Target, Begin(s, target)
    PROVE  PolicyInv'
<1>1. /\ UNCHANGED <<writers, reader, received>> /\ begin[s] = "no"
      /\ to' = [to EXCEPT ![s] = target]
      /\ \E b \in {"registered", "connecting", "over"} :
            begin' = [begin EXCEPT ![s] = b] /\ (b = "registered" => target = "bw-test")
  BY DEF Begin
<1>2. \A o \in Opens : Served(o)' <=> Served(o)
  BY <1>1 DEF Served
<1>3. ~Served(s)
  BY <1>1 DEF PolicyInv
<1>4. to' \in [Opens -> Target] /\ begin' \in [Opens -> {"no", "connecting", "registered", "over"}]
  BY <1>1 DEF PolicyInv
<1>5. ASSUME NEW o \in Opens
      PROVE  /\ begin'[o] \in {"no", "connecting"} => ~Served(o)'
             /\ begin'[o] = "registered" => CheckPostResolve(to[o])'
             /\ Served(o)' => CheckPostResolve(to[o])'
  BY <1>1, <1>2, <1>3 DEF PolicyInv, CheckPostResolve
<1>. QED BY <1>1, <1>4, <1>5 DEF PolicyInv

\* The connect ends: what the policy accepts is registered, the rest is over.
LEMMA ConnectKeeps ==
    ASSUME PolicyInv, NEW s \in Opens, Connects(s) \/ ConnectFails(s)
    PROVE  PolicyInv'
<1>1. /\ UNCHANGED <<writers, reader, received, to>>
      /\ \E b \in {"registered", "over"} :
            begin' = [begin EXCEPT ![s] = b] /\ (b = "registered" => CheckPostResolve(to[s]))
  BY DEF Connects, ConnectFails
<1>2. \A o \in Opens : Served(o)' <=> Served(o)
  BY <1>1 DEF Served
<1>. QED BY <1>1, <1>2 DEF PolicyInv, CheckPostResolve

\* The entry and the task are made for a stream the policy accepted.
LEMMA SpawnKeeps ==
    ASSUME PolicyInv, NEW s \in Opens, SpawnReader(s)
    PROVE  PolicyInv'
<1>1. /\ UNCHANGED <<received, to>> /\ begin[s] = "registered"
      /\ begin' = [begin EXCEPT ![s] = "over"]
      /\ reader' = [reader EXCEPT ![s] = "reading"]
      /\ UNCHANGED writers \/ writers' = [writers EXCEPT ![KeyOf(s)] = s]
  BY DEF SpawnReader
<1>2. \A o \in Opens : Served(o)' => Served(o) \/ o = s
  BY <1>1 DEF Served, PolicyInv
<1>3. CheckPostResolve(to[s])
  BY <1>1 DEF PolicyInv
<1>. QED BY <1>1, <1>2, <1>3 DEF PolicyInv, CheckPostResolve

\* DATA is written to a connection that is entered, and so was accepted.
LEMMA DataKeeps ==
    ASSUME PolicyInv, NEW s \in Opens, NEW due \in BOOLEAN, ExitData(s, due)
    PROVE  PolicyInv'
<1>1. /\ UNCHANGED <<writers, reader, begin, to>>
      /\ \/ UNCHANGED received
         \/ /\ writers[KeyOf(s)] # NoTarget
            /\ received' = [received EXCEPT ![writers[KeyOf(s)]] = @ \cup {s}]
  BY DEF ExitData
<1>2. \A o \in Opens : Served(o)' => Served(o)
  BY <1>1 DEF Served, PolicyInv
<1>. QED BY <1>1, <1>2 DEF PolicyInv, CheckPostResolve

\* The rest: cells queued, END, SENDME, a task's turns, a circuit that goes.
LEMMA OthersKeep ==
    ASSUME PolicyInv,
           \/ \E t \in Task : Queue(t)
           \/ \E s \in Opens : \/ ExitEnd(s) \/ ReadsSome(s) \/ SendsBack(s)
                               \/ ReadsEof(s) \/ ReaderCleansUp(s)
           \/ \E c \in Circ : ExitSendme(c) \/ ExitCircuitGone(c)
    PROVE  PolicyInv'
<1>1. CASE \E t \in Task : Queue(t)
  BY <1>1, QuietSteps DEF Queue, PolicyInv
<1>2. ASSUME NEW s \in Opens, ExitEnd(s) PROVE PolicyInv'
  BY <1>2, QuietSteps DEF ExitEnd, PolicyInv
<1>3. ASSUME NEW s \in Opens, ReadsSome(s) \/ SendsBack(s) \/ ReadsEof(s)
      PROVE  PolicyInv'
  <2>1. /\ UNCHANGED <<begin, to, received, writers>> /\ reader[s] # "no"
        /\ \E r \in {"reading", "holding", "closing", "over"} : reader' = [reader EXCEPT ![s] = r]
    BY <1>3 DEF ReadsSome, SendsBack, ReadsEof
  <2>. QED BY <2>1, QuietSteps DEF PolicyInv
<1>4. ASSUME NEW s \in Opens, ReaderCleansUp(s) PROVE PolicyInv'
  <2>1. /\ UNCHANGED <<begin, to, received>> /\ reader[s] # "no"
        /\ reader' = [reader EXCEPT ![s] = "over"]
        /\ UNCHANGED writers \/ writers' = [writers EXCEPT ![KeyOf(s)] = NoTarget]
    BY <1>4 DEF ReaderCleansUp
  <2>. QED BY <2>1, QuietSteps DEF PolicyInv
<1>5. ASSUME NEW c \in Circ, ExitSendme(c) \/ ExitCircuitGone(c) PROVE PolicyInv'
  BY <1>5, QuietSteps DEF ExitSendme, ExitCircuitGone, PolicyInv
<1>. QED BY <1>1, <1>2, <1>3, <1>4, <1>5

(***************************************************************************)
(* A destination the exit policy rejects, by its address or by the address *)
(* its name resolved to, is never written to and never read                *)
(* (handle_exit_begin), however the streams of clients share their ids.    *)
(***************************************************************************)
THEOREM RejectedIsNeverServed == ExitSpec => []RejectedIsNotServed
<1>1. ExitInit => PolicyInv
  <2>. SUFFICES ASSUME ExitInit PROVE PolicyInv
    OBVIOUS
  <2>1. \A s \in Opens : ~Served(s)
    BY NoTargetIsNone DEF ExitInit, Served
  <2>. QED BY <2>1 DEF ExitInit, PolicyInv, Target
<1>2. PolicyInv /\ [ExitNext]_exitVars => PolicyInv'
  <2>. SUFFICES ASSUME PolicyInv, [ExitNext]_exitVars PROVE PolicyInv'
    OBVIOUS
  <2>1. ASSUME NEW s \in Opens, NEW target \in Target, Begin(s, target) PROVE PolicyInv'
    BY <2>1, BeginKeeps
  <2>2. ASSUME NEW s \in Opens, Connects(s) \/ ConnectFails(s) PROVE PolicyInv'
    BY <2>2, ConnectKeeps
  <2>3. ASSUME NEW s \in Opens, SpawnReader(s) PROVE PolicyInv'
    BY <2>3, SpawnKeeps
  <2>4. ASSUME NEW s \in Opens, NEW due \in BOOLEAN, ExitData(s, due) PROVE PolicyInv'
    BY <2>4, DataKeeps
  <2>5. CASE UNCHANGED exitVars
    BY <2>5, QuietSteps DEF exitVars, PolicyInv
  <2>. QED BY <2>1, <2>2, <2>3, <2>4, <2>5, OthersKeep DEF ExitNext
<1>3. PolicyInv => RejectedIsNotServed
  BY DEF PolicyInv, RejectedIsNotServed, Served, CheckPostResolve
<1>. QED BY <1>1, <1>2, <1>3, PTL DEF ExitSpec

-----------------------------------------------------------------------------
(* Measurements. *)

(***************************************************************************)
(* Why nothing stays: a job that has its circuit is in the circuit table   *)
(* only to its end, its stream is in the stream table only from            *)
(* stream_open, and without either nothing is received for it.  One whose  *)
(* build failed may keep what was built.                                   *)
(***************************************************************************)
TablesFollowStages ==
    /\ stage \in [Job -> {"no", "build", "open", "ready", "first", "drain", "ended", "unbuilt"}]
    /\ got \in [Job -> Nat]
    /\ \A j \in Job : /\ j \in measuring => stage[j] \notin {"no", "build", "ended"}
                      /\ j \in streaming => stage[j] \notin {"no", "build", "open", "ended", "unbuilt"}
                      /\ stage[j] \in {"no", "build", "unbuilt"} => got[j] = 0

LEMMA CtlInitFollows ==
    ASSUME CtlInit PROVE TablesFollowStages
BY DEF CtlInit, TablesFollowStages

\* A request starts a job that was not there, or none.
LEMMA CallersFollow ==
    ASSUME TablesFollowStages,
           DaemonStarts \/ (\E k \in Caller : GivesUp(k) \/ \E j \in Job : Ask(k, j))
    PROVE  TablesFollowStages'
<1>1. CASE DaemonStarts
  BY <1>1 DEF TablesFollowStages, DaemonStarts
<1>2. CASE \E k \in Caller : GivesUp(k)
  BY <1>2 DEF TablesFollowStages, GivesUp
<1>3. ASSUME NEW k \in Caller, NEW j \in Job, Ask(k, j)
      PROVE  TablesFollowStages'
  BY <1>3 DEF TablesFollowStages, Ask, Go
<1>. QED BY <1>1, <1>2, <1>3

\* Steps of a job that go on: its circuit, then its stream, and what arrives.
LEMMA ProgressFollows ==
    ASSUME TablesFollowStages, NEW j \in Job,
           Built(j) \/ Opened(j) \/ Ready(j) \/ Chunk(j)
    PROVE  TablesFollowStages'
BY DEF TablesFollowStages, Built, Opened, Ready, Chunk, Go

\* Steps that end it: whatever the error or the result, both tables are rid of it once it
\* had its circuit, and without one it has no stream.
LEMMA EndsFollow ==
    ASSUME TablesFollowStages, NEW j \in Job,
           CircuitFails(j) \/ OpenFails(j) \/ ReadyFails(j) \/ FirstCloses(j) \/ Measured(j)
    PROVE  TablesFollowStages'
<1>1. CASE CircuitFails(j)
  BY <1>1 DEF TablesFollowStages, CircuitFails, Ends, Go
<1>2. CASE OpenFails(j) \/ ReadyFails(j) \/ FirstCloses(j) \/ Measured(j)
  <2>1. /\ stage' = [stage EXCEPT ![j] = "ended"]
        /\ measuring' = measuring \ {j} /\ streaming' = streaming \ {j} /\ got' = got
    BY <1>2 DEF OpenFails, ReadyFails, FirstCloses, Measured, Answers, Ends, Go, Discards
  <2>. QED BY <2>1 DEF TablesFollowStages
<1>. QED BY <1>1, <1>2

(***************************************************************************)
(* However a measurement ends that had its circuit (bw_measure), neither   *)
(* that circuit nor its stream stays in the tables of the daemon; one      *)
(* whose build failed has no stream and received nothing.                  *)
(***************************************************************************)
THEOREM MeasurementsCleanUp == CtlSpec => []MeasurementCleansUp
<1>1. CtlInit => TablesFollowStages
  BY CtlInitFollows
<1>2. TablesFollowStages /\ [CtlNext]_ctlVars => TablesFollowStages'
  <2>. SUFFICES ASSUME TablesFollowStages, [CtlNext]_ctlVars PROVE TablesFollowStages'
    OBVIOUS
  <2>1. CASE DaemonStarts \/ (\E k \in Caller : GivesUp(k) \/ \E j \in Job : Ask(k, j))
    BY <2>1, CallersFollow
  <2>2. ASSUME NEW j \in Job, JobStep(j) PROVE TablesFollowStages'
    BY <2>2, ProgressFollows, EndsFollow DEF JobStep
  <2>3. ASSUME NEW j \in Job, HalfBuiltGoes(j) \/ StreamEnds(j) PROVE TablesFollowStages'
    BY <2>3 DEF TablesFollowStages, HalfBuiltGoes, StreamEnds
  <2>4. CASE UNCHANGED ctlVars
    BY <2>4 DEF TablesFollowStages, ctlVars
  <2>. QED BY <2>1, <2>2, <2>3, <2>4 DEF CtlNext
<1>3. TablesFollowStages => MeasurementCleansUp
  BY DEF TablesFollowStages, MeasurementCleansUp
<1>. QED BY <1>1, <1>2, <1>3, PTL DEF CtlSpec

-----------------------------------------------------------------------------
(* Padding. *)

\* Ages, up to the one past which they are all the same.
Ages == 0 .. AgeCap

\* The last DROP cell of a scheduler is as old as its last_padding says, or too
\* old to tell, and before it has a scheduler a circuit has sent none.
PadInv ==
  /\ policy \in [PadCircuit -> {"none", "constant", "adaptive"}]
  /\ lastPad \in [PadCircuit -> Ages] /\ padAges \in [PadCircuit -> Ages \X Ages]
  /\ \A c \in PadCircuit :
       /\ policy[c] = "none" => padAges[c] = <<AgeCap, AgeCap>>
       /\ padAges[c][1] = AgeCap \/ padAges[c][1] = lastPad[c]
  /\ PaddingIsSpaced

\* The invariant holds at the start.
LEMMA PadInitially == PadInit => PadInv
<1> SUFFICES ASSUME PadInit PROVE PadInv
  OBVIOUS
<1>1. AgeCap \in Ages /\ 0 \in Ages
  BY PaddingAssumption DEF Ages
<1>2. QED BY <1>1 DEF PadInit, PadInv, PaddingIsSpaced

\* Growing older stays within the ages, and does not shorten what is past.
LEMMA PadAgeSteps ==
  ASSUME NEW age \in Ages
  PROVE  Older(age) \in Ages /\ (Older(age) = AgeCap \/ Older(age) = age + 1) /\ (age = AgeCap => Older(age) = AgeCap)
BY PaddingAssumption DEF Ages, Older

\* A new scheduler starts with no padding sent.
LEMMA SchedulerKeepsPad ==
  ASSUME PadInv, NEW c \in PadCircuit, NEW p \in {"constant", "adaptive"}, SetPaddingScheduler(c, p)
  PROVE  PadInv'
<1>1. AgeCap \in Ages /\ 0 \in Ages
  BY PaddingAssumption DEF Ages
<1>2. QED BY <1>1 DEF PadInv, PaddingIsSpaced, SetPaddingScheduler

\* A turn of the pump sends a DROP only when the scheduler lets it.
LEMMA TurnKeepsPad ==
  ASSUME PadInv, NEW c \in PadCircuit, PumpTurn(c)
  PROVE  PadInv'
<1>1. CASE UNCHANGED <<lastPad, padAges>>
  BY <1>1 DEF PadInv, PaddingIsSpaced, PumpTurn
<1>2. CASE policy[c] # "none" /\ ShouldPadNow(c).pad /\ OnPaddingCell(c)
           /\ padAges' = [padAges EXCEPT ![c] = <<0, @[1]>>]
  <2>1. /\ AgeCap \in Nat /\ Interval \in Nat /\ Interval <= AgeCap /\ Ages \subseteq Nat /\ 0 \in Ages
        /\ lastPad[c] \in Ages /\ padAges[c] \in Ages \X Ages
    BY PaddingAssumption DEF PadInv, Ages
  <2>2. lastPad[c] >= Interval
    BY <1>2 DEF ShouldPadNow, Rate, SleepFor
  <2>3. lastPad' = [lastPad EXCEPT ![c] = 0] /\ policy' = policy
    BY <1>2 DEF OnPaddingCell, PumpTurn
  <2>4. padAges'[c] = <<0, padAges[c][1]>> /\ lastPad'[c] = 0
    BY <1>2, <2>3 DEF PadInv
  <2>5. padAges[c][1] = AgeCap \/ padAges[c][1] - 0 >= Interval
    <3>1. padAges[c][1] = AgeCap \/ padAges[c][1] = lastPad[c]
      BY DEF PadInv
    <3>2. lastPad[c] \in Nat
      BY <2>1
    <3>3. QED BY <2>2, <3>1, <3>2
  <2>6. padAges' \in [PadCircuit -> Ages \X Ages] /\ lastPad' \in [PadCircuit -> Ages]
    BY <1>2, <2>1, <2>3 DEF PadInv
  <2>7. \A d \in PadCircuit \ {c} : padAges'[d] = padAges[d] /\ lastPad'[d] = lastPad[d]
    BY <1>2, <2>3 DEF PadInv
  <2>8. ASSUME NEW d \in PadCircuit
        PROVE  /\ policy'[d] = "none" => padAges'[d] = <<AgeCap, AgeCap>>
               /\ padAges'[d][1] = AgeCap \/ padAges'[d][1] = lastPad'[d]
               /\ padAges'[d][2] = AgeCap \/ padAges'[d][2] - padAges'[d][1] >= Interval
    BY <1>2, <2>3, <2>4, <2>5, <2>7 DEF PadInv, PaddingIsSpaced
  <2>9. QED BY <2>3, <2>6, <2>8 DEF PadInv, PaddingIsSpaced
<1>3. QED
  BY <1>1, <1>2 DEF PumpTurn

\* What is sent and when the scheduler believes it was age together.
LEMMA TickKeepsPad == ASSUME PadInv, PadTick PROVE PadInv'
<1>1. AgeCap \in Nat /\ Interval \in Nat /\ Ages \subseteq Nat /\ \A a \in Ages : a <= AgeCap
  BY PaddingAssumption DEF Ages
<1>2. lastPad' \in [PadCircuit -> Ages] /\ padAges' \in [PadCircuit -> Ages \X Ages] /\ policy' = policy
  BY PadAgeSteps DEF PadInv, PadTick
<1>3. ASSUME NEW d \in PadCircuit
      PROVE  /\ policy'[d] = "none" => padAges'[d] = <<AgeCap, AgeCap>>
             /\ padAges'[d][1] = AgeCap \/ padAges'[d][1] = lastPad'[d]
             /\ padAges'[d][2] = AgeCap \/ padAges'[d][2] - padAges'[d][1] >= Interval
  <2> DEFINE a == padAges[d][1]
             b == padAges[d][2]
  <2>1. padAges'[d] = <<Older(a), Older(b)>> /\ lastPad'[d] = Older(lastPad[d])
    BY DEF PadTick
  <2>2. a \in Ages /\ b \in Ages /\ lastPad[d] \in Ages /\ padAges[d] = <<a, b>>
    BY DEF PadInv
  <2>3. /\ policy[d] = "none" => a = AgeCap /\ b = AgeCap
        /\ a = AgeCap \/ a = lastPad[d]
        /\ b = AgeCap \/ b - a >= Interval
    BY DEF PadInv, PaddingIsSpaced
  <2> HIDE DEF a, b
  <2>4. policy'[d] = "none" => padAges'[d] = <<AgeCap, AgeCap>>
    BY <1>2, <2>1, <2>2, <2>3, PadAgeSteps
  <2>5. Older(a) = AgeCap \/ Older(a) = Older(lastPad[d])
    BY <2>2, <2>3, PadAgeSteps
  <2>6. Older(b) = AgeCap \/ Older(b) - Older(a) >= Interval
    <3>1. CASE b = AgeCap
      BY <3>1, <2>2, PadAgeSteps
    <3>2. CASE b # AgeCap
      <4>1. a \in Nat /\ b \in Nat /\ b < AgeCap /\ a <= b
        <5>1. a \in Nat /\ b \in Nat /\ b <= AgeCap /\ b - a >= Interval
          BY <1>1, <2>2, <2>3, <3>2
        <5>2. QED BY <1>1, <3>2, <5>1
      <4>2. Older(a) = a + 1 /\ Older(b) = b + 1
        BY <1>1, <4>1 DEF Older
      <4>3. QED BY <1>1, <2>3, <3>2, <4>1, <4>2
    <3> QED BY <3>1, <3>2
  <2>7. QED BY <2>1, <2>4, <2>5, <2>6
<1>4. QED BY <1>2, <1>3 DEF PadInv, PaddingIsSpaced

\* However turns, cells and ticks interleave, two DROP cells of one scheduler of a circuit
\* are at least the minimum interval apart (padding.rs, next_padding_in and on_padding_sent).
THEOREM PaddingStaysSpaced == PadSpec => []PaddingIsSpaced
<1>1. PadInv /\ [PadNext]_padVars => PadInv'
  <2> SUFFICES ASSUME PadInv, [PadNext]_padVars PROVE PadInv'
    OBVIOUS
  <2>1. ASSUME NEW c \in PadCircuit, Spawned(c) \/ PumpEndsTurn(c) \/ PumpSendFails(c) \/ PadCircuitGone(c)
        PROVE PadInv'
    BY <2>1 DEF PadInv, PaddingIsSpaced, Spawned, PumpEndsTurn, PumpSendFails, PadCircuitGone
  <2>2. CASE UNCHANGED padVars
    BY <2>2 DEF PadInv, PaddingIsSpaced, padVars
  <2>3. QED BY <2>1, <2>2, SchedulerKeepsPad, TurnKeepsPad, TickKeepsPad DEF PadNext
<1>2. PadInv => PaddingIsSpaced
  BY DEF PadInv
<1>3. QED BY <1>1, <1>2, PadInitially, PTL DEF PadSpec

-----------------------------------------------------------------------------
(* Building circuits. *)

\* The sample that nearest rank picks: it is one of them, and at least r do not exceed it.
LEMMA NearestRankIs ==
    ASSUME NEW s \in Seq(Nat), NEW r \in 1 .. Len(s)
    PROVE  NearestRank(s, r) \in Nat /\ Covers(s, NearestRank(s, r)) >= r
<1> DEFINE T == {v \in {s[i] : i \in DOMAIN s} : Covers(s, v) >= r}
<1>1. DOMAIN s = 1 .. Len(s) /\ Len(s) \in Nat /\ \A i \in DOMAIN s : s[i] \in Nat
  OBVIOUS
<1>2. PICK i \in DOMAIN s : \A j \in DOMAIN s : s[j] <= s[i]
  <2>1. Len(s) > 0
    BY <1>1
  <2> QED BY <2>1, SeqMax
<1>3. Covers(s, s[i]) = Len(s)
  <2>1. {j \in DOMAIN s : s[j] <= s[i]} = 1 .. Len(s)
    BY <1>1, <1>2
  <2>2. Cardinality(1 .. Len(s)) = Len(s)
    <3>1. Cardinality(1 .. Len(s)) = IF 1 > Len(s) THEN 0 ELSE Len(s) - 1 + 1
      BY <1>1, FS_Interval
    <3> QED BY <1>1, <3>1
  <2> QED BY <2>1, <2>2 DEF Covers
<1>4. T \in SUBSET Nat /\ T # {}
  BY <1>1, <1>2, <1>3
<1>5. PICK x \in T : \A y \in T : x <= y
  BY <1>4, NatMin
<1>6. x \in {s[j] : j \in DOMAIN s} /\ Covers(s, x) >= r /\ \A j \in DOMAIN s : Covers(s, s[j]) >= r => x <= s[j]
  BY <1>5
<1>7. NearestRank(s, r) \in {s[j] : j \in DOMAIN s} /\ Covers(s, NearestRank(s, r)) >= r
  BY <1>6, Zenon DEF NearestRank
<1> QED BY <1>1, <1>7

\* Covering grows with the time waited.
LEMMA CoversMore ==
    ASSUME NEW s \in Seq(Nat), NEW v \in Nat, NEW w \in Nat, v <= w
    PROVE  Covers(s, v) \in Nat /\ Covers(s, w) \in Nat /\ Covers(s, v) <= Covers(s, w)
<1>1. IsFiniteSet(1 .. Len(s)) /\ DOMAIN s = 1 .. Len(s) /\ \A i \in DOMAIN s : s[i] \in Nat
  BY FS_Interval
<1>2. {i \in DOMAIN s : s[i] <= v} \subseteq {i \in DOMAIN s : s[i] <= w}
  BY <1>1
<1>3. IsFiniteSet({i \in DOMAIN s : s[i] <= w}) /\ IsFiniteSet({i \in DOMAIN s : s[i] <= v})
  BY <1>1, FS_Subset
<1> QED BY <1>2, <1>3, FS_Subset, FS_CardinalityType DEF Covers

\* The rank that RankOf asks for is one of a sample that is not empty.
LEMMA RankInRange ==
    ASSUME NEW n \in Nat, n > 0
    PROVE  RankOf(n) \in 1 .. n /\ 5 * RankOf(n) >= 4 * n
BY DEF RankOf

-----------------------------------------------------------------------------
\* A build, and those of a guard that have not ended.
Jobs == [building : BOOLEAN, guard : Guard, up : Nat, age : Nat, wait : Nat, limit : Nat]
UnderWay(g) == {b \in Builder : job[b].building /\ job[b].guard = g}

\* What a build, the counters of path bias and the samples of the timing are.
BuildTyped ==
    /\ job \in [Builder -> {Idle} \cup Jobs]
    /\ samples \in Seq(Nat) /\ Len(samples) <= Window
    /\ attempts \in [Guard -> Nat] /\ successes \in [Guard -> Nat]
    /\ failed \subseteq Guard

\* Every build through a guard that was not completed is under way, or the guard failed one.
AttemptsAccounted ==
    \A g \in Guard \ failed : attempts[g] = successes[g] + Cardinality(UnderWay(g))

\* Together: the counters of a guard differ by the builds it has under way.
BuildInv == BuildTyped /\ AttemptsAccounted

\* The timeout covers the share of the builds it is meant to, once there are enough.
LEMMA TimeoutTyped ==
    ASSUME samples \in Seq(Nat)
    PROVE  /\ Timeout \in Nat
           /\ Len(samples) >= MinSamples =>
                Timeout = MaxTimeout \/ 5 * Covers(samples, Timeout) >= 4 * Len(samples)
<1>1. /\ MinTimeout \in Nat /\ MaxTimeout \in Nat /\ DefaultTimeout \in Nat /\ MinSamples \in Nat /\ MinSamples > 0
      /\ Len(samples) \in Nat
  BY CircuitBuildAssumption
<1>2. CASE Len(samples) < MinSamples
  <2>1. Timeout = DefaultTimeout
    BY <1>2 DEF Timeout
  <2> QED BY <2>1, <1>1, <1>2
<1>3. CASE Len(samples) >= MinSamples
  <2> DEFINE r == RankOf(Len(samples))
             v == NearestRank(samples, r)
             t == (3 * v) \div 2
  <2>1. r \in 1 .. Len(samples) /\ 5 * r >= 4 * Len(samples)
    <3>1. Len(samples) > 0
      BY <1>1, <1>3
    <3> QED BY <3>1, <1>1, RankInRange
  <2>2. v \in Nat /\ Covers(samples, v) >= r
    BY <2>1, NearestRankIs
  <2>3. Timeout = Clamped(t)
    <3>1. ~(Len(samples) < MinSamples)
      BY <1>1, <1>3
    <3> QED BY <3>1 DEF Timeout
  <2> HIDE DEF r, v
  <2>4. t \in Nat /\ v <= t
    BY <2>2
  <2> HIDE DEF t
  <2>5. Timeout \in Nat /\ (Timeout = MaxTimeout \/ v <= Timeout)
    BY <2>3, <2>4, <2>2, <1>1 DEF Clamped
  <2>6. CASE v <= Timeout
    <3>1. Covers(samples, v) \in Nat /\ Covers(samples, Timeout) \in Nat /\ Covers(samples, v) <= Covers(samples, Timeout)
      BY <2>2, <2>5, <2>6, CoversMore
    <3> QED BY <2>1, <2>2, <2>5, <3>1, <1>1
  <2> QED BY <2>5, <2>6
<1> QED BY <1>1, <1>2, <1>3

-----------------------------------------------------------------------------
\* A builder that is building has a build.
LEMMA JobTyped == ASSUME NEW j \in {Idle} \cup Jobs, j.building PROVE j \in Jobs /\ j.guard \in Guard
<1>1. Idle.building = FALSE
  BY DEF Idle
<1>2. j \in Jobs
  BY <1>1
<1> QED BY <1>2 DEF Jobs

\* One field of a build set to a value of its type.
WithUp(j, v, w) == [j EXCEPT !.up = v, !.wait = w]
WithAge(j, v, w) == [j EXCEPT !.age = v, !.wait = w]
LEMMA JobSet ==
    ASSUME NEW j \in Jobs, NEW v \in Nat, NEW w \in Nat
    PROVE  /\ WithUp(j, v, w) \in Jobs /\ WithAge(j, v, w) \in Jobs
           /\ WithUp(j, v, w).guard = j.guard /\ WithAge(j, v, w).guard = j.guard
           /\ WithUp(j, v, w).building = j.building /\ WithAge(j, v, w).building = j.building
BY DEF Jobs, WithUp, WithAge

\* The invariant holds at the start.
LEMMA BuildInitInv == ASSUME IsFiniteSet(Builder), BuildInit PROVE BuildInv
<1>1. BuildTyped
  BY CircuitBuildAssumption DEF BuildInit, BuildTyped
<1>2. ASSUME NEW g \in Guard PROVE attempts[g] = successes[g] + Cardinality(UnderWay(g))
  <2>1. UnderWay(g) = {}
    BY DEF BuildInit, UnderWay, Idle
  <2> QED BY <2>1, FS_EmptySet DEF BuildInit
<1> QED BY <1>1, <1>2 DEF BuildInv, AttemptsAccounted

\* The builds under way are finitely many, and one more or one less at each step.
LEMMA UnderWayFinite ==
    ASSUME IsFiniteSet(Builder), NEW g
    PROVE  IsFiniteSet(UnderWay(g)) /\ Cardinality(UnderWay(g)) \in Nat /\ Cardinality(UnderWay(g)) <= Cardinality(Builder)
<1>1. UnderWay(g) \subseteq Builder
  BY DEF UnderWay
<1> QED BY <1>1, FS_Subset, FS_CardinalityType

\* A build that ends without a circuit condemns its guard, and no other.
LEMMA BuildLost ==
    ASSUME BuildInv, NEW b \in Builder, job[b].building,
           job' = [job EXCEPT ![b] = Idle], failed' = failed \cup {job[b].guard},
           UNCHANGED <<samples, attempts, successes>>
    PROVE  BuildInv'
<1>1. job[b] \in Jobs /\ job[b].guard \in Guard
  BY JobTyped DEF BuildInv, BuildTyped
<1>2. BuildTyped'
  BY <1>1 DEF BuildInv, BuildTyped
<1>3. ASSUME NEW g \in Guard \ failed' PROVE UnderWay(g)' = UnderWay(g)
  BY <1>1, <1>3 DEF UnderWay, Idle, BuildInv, BuildTyped
<1> QED BY <1>2, <1>3 DEF BuildInv, AttemptsAccounted

\* Every step keeps it.
LEMMA BuildStep == ASSUME IsFiniteSet(Builder), BuildInv, [BuildNext]_buildVars PROVE BuildInv'
<1>0. job \in [Builder -> {Idle} \cup Jobs] /\ samples \in Seq(Nat) /\ attempts \in [Guard -> Nat] /\ successes \in [Guard -> Nat]
  BY DEF BuildInv, BuildTyped
<1>1. ASSUME NEW b \in Builder, NEW g \in Guard, StartBuild(b, g) PROVE BuildInv'
  <2> DEFINE j == [building |-> TRUE, guard |-> g, up |-> 0, age |-> 0, wait |-> 0, limit |-> Timeout]
  <2>1. /\ ~job[b].building /\ job' = [job EXCEPT ![b] = j] /\ attempts' = [attempts EXCEPT ![g] = @ + 1]
        /\ UNCHANGED <<samples, successes, failed>>
    BY <1>1 DEF StartBuild
  <2>2. j \in Jobs /\ j.building = TRUE /\ j.guard = g
    BY <1>0, TimeoutTyped DEF Jobs
  <2> HIDE DEF j
  <2>3. BuildTyped'
    BY <2>1, <2>2 DEF BuildInv, BuildTyped
  <2>4. ASSUME NEW h \in Guard PROVE UnderWay(h)' = IF h = g THEN UnderWay(g) \cup {b} ELSE UnderWay(h)
    BY <2>1, <2>2, <1>0 DEF UnderWay
  <2>5. b \notin UnderWay(g)
    BY <2>1 DEF UnderWay
  <2>6. Cardinality(UnderWay(g) \cup {b}) = Cardinality(UnderWay(g)) + 1
    BY <2>5, UnderWayFinite, FS_AddElement
  <2>7. ASSUME NEW h \in Guard \ failed' PROVE attempts'[h] = successes'[h] + Cardinality(UnderWay(h)')
    <3>1. attempts[h] = successes[h] + Cardinality(UnderWay(h)) /\ Cardinality(UnderWay(h)) \in Nat
      BY <2>1, UnderWayFinite DEF BuildInv, AttemptsAccounted
    <3>2. CASE h = g
      <4>1. Cardinality(UnderWay(h)') = Cardinality(UnderWay(h)) + 1
        BY <3>2, <2>4, <2>6
      <4>2. attempts'[h] = attempts[h] + 1 /\ successes'[h] = successes[h]
        BY <3>2, <2>1, <1>0
      <4> QED BY <4>1, <4>2, <3>1, <1>0
    <3>3. CASE h # g
      BY <3>3, <3>1, <2>1, <2>4, <1>0
    <3> QED BY <3>2, <3>3
  <2> QED BY <2>3, <2>7 DEF BuildInv, AttemptsAccounted
<1>2. ASSUME NEW b \in Builder, HopAnswers(b) PROVE BuildInv'
  <2>1. job[b] \in Jobs
    BY <1>0, <1>2, JobTyped DEF HopAnswers
  <2>2. PICK j \in Jobs : job' = [job EXCEPT ![b] = j] /\ j.guard = job[b].guard /\ j.building
    <3> DEFINE j == WithUp(job[b], job[b].up + 1, 0)
    <3>1. j \in Jobs /\ j.guard = job[b].guard /\ j.building = job[b].building
      <4>1. job[b].up + 1 \in Nat /\ 0 \in Nat
        BY <2>1 DEF Jobs
      <4> QED BY <2>1, <4>1, JobSet
    <3>2. job' = [job EXCEPT ![b] = j]
      BY <1>2, <1>0, <2>1 DEF HopAnswers, Jobs, WithUp
    <3> QED BY <3>1, <3>2, <1>2 DEF HopAnswers
  <2>3. BuildTyped'
    BY <2>2, <1>2 DEF BuildInv, BuildTyped, HopAnswers
  <2>4. ASSUME NEW h \in Guard PROVE UnderWay(h)' = UnderWay(h)
    BY <2>1, <2>2, <1>0, <1>2 DEF UnderWay, HopAnswers
  <2> QED BY <2>3, <2>4, <1>2 DEF BuildInv, AttemptsAccounted, HopAnswers
<1>3. ASSUME NEW b \in Builder, BuildCompletes(b) PROVE BuildInv'
  <2> DEFINE g == job[b].guard
  <2>1. /\ job[b].building /\ job' = [job EXCEPT ![b] = Idle] /\ successes' = [successes EXCEPT ![g] = @ + 1]
        /\ UNCHANGED <<attempts, failed>> /\ samples' = Recorded(samples, job[b].age)
    BY <1>3 DEF BuildCompletes
  <2>2. job[b] \in Jobs /\ g \in Guard /\ job[b].age \in Nat
    <3>1. job[b] \in Jobs /\ g \in Guard
      BY <1>0, <2>1, JobTyped
    <3> QED BY <3>1 DEF Jobs
  <2>3. samples' \in Seq(Nat) /\ Len(samples') <= Window
    <3>1. Len(samples) <= Window /\ Window \in Nat /\ Window > 0
      BY CircuitBuildAssumption DEF BuildInv, BuildTyped
    <3>2. CASE Len(samples) >= Window
      <4>1. Len(samples) > 0 /\ Tail(samples) \in Seq(Nat) /\ Len(Tail(samples)) = Len(samples) - 1
        BY <3>1, <3>2, <1>0
      <4>2. samples' = Append(Tail(samples), job[b].age)
        BY <3>2, <2>1 DEF Recorded
      <4> QED BY <4>1, <4>2, <3>1, <2>2
    <3>3. CASE ~(Len(samples) >= Window)
      <4>1. samples' = Append(samples, job[b].age)
        BY <3>3, <2>1 DEF Recorded
      <4> QED BY <4>1, <3>1, <3>3, <1>0, <2>2
    <3> QED BY <3>2, <3>3
  <2>4. BuildTyped'
    BY <2>1, <2>2, <2>3 DEF BuildInv, BuildTyped
  <2>5. ASSUME NEW h \in Guard PROVE UnderWay(h)' = IF h = g THEN UnderWay(g) \ {b} ELSE UnderWay(h)
    BY <2>1, <2>2, <1>0 DEF UnderWay, Idle
  <2>6. Cardinality(UnderWay(g) \ {b}) = Cardinality(UnderWay(g)) - 1
    <3>1. b \in UnderWay(g)
      BY <2>1 DEF UnderWay
    <3> QED BY <3>1, UnderWayFinite, FS_RemoveElement
  <2>7. ASSUME NEW h \in Guard \ failed' PROVE attempts'[h] = successes'[h] + Cardinality(UnderWay(h)')
    <3>1. attempts[h] = successes[h] + Cardinality(UnderWay(h)) /\ Cardinality(UnderWay(h)) \in Nat
      BY <2>1, UnderWayFinite DEF BuildInv, AttemptsAccounted
    <3>2. CASE h = g
      <4>1. Cardinality(UnderWay(h)') = Cardinality(UnderWay(h)) - 1
        BY <3>2, <2>5, <2>6
      <4>2. successes'[h] = successes[h] + 1 /\ attempts'[h] = attempts[h]
        BY <3>2, <2>1, <2>2, <1>0
      <4> QED BY <4>1, <4>2, <3>1, <1>0
    <3>3. CASE h # g
      BY <3>3, <3>1, <2>1, <2>5, <1>0
    <3> QED BY <3>2, <3>3
  <2> QED BY <2>4, <2>7 DEF BuildInv, AttemptsAccounted
<1>4. ASSUME NEW b \in Builder, BuildTimesOut(b) \/ BuildFails(b) PROVE BuildInv'
  BY <1>4, BuildLost DEF BuildTimesOut, BuildFails, Overdue
<1>5. CASE BuildTick
  <2>1. job' = [b \in Builder |-> Aged(job[b])] /\ UNCHANGED <<samples, attempts, successes, failed>>
    BY <1>5 DEF BuildTick
  <2>2. ASSUME NEW j \in {Idle} \cup Jobs
        PROVE  /\ Aged(j) \in {Idle} \cup Jobs /\ Aged(j).building = j.building
               /\ j.building => Aged(j).guard = j.guard
    <3>1. CASE j = Idle
      BY <3>1 DEF Aged, Idle
    <3>2. CASE j \in Jobs /\ j.building
      <4> DEFINE k == WithAge(j, j.age + 1, j.wait + 1)
      <4>1. Aged(j) = k
        BY <3>2 DEF Aged, WithAge
      <4>2. j.age + 1 \in Nat /\ j.wait + 1 \in Nat
        BY <3>2 DEF Jobs
      <4>3. k \in Jobs /\ k.guard = j.guard /\ k.building = j.building
        BY <3>2, <4>2, JobSet
      <4>4. QED BY <4>1, <4>3
    <3>3. CASE ~j.building
      BY <3>3 DEF Aged
    <3> QED BY <3>1, <3>2, <3>3
  <2>3. BuildTyped'
    BY <2>1, <2>2 DEF BuildInv, BuildTyped
  <2>4. ASSUME NEW h \in Guard PROVE UnderWay(h)' = UnderWay(h)
    BY <2>1, <2>2, <1>0 DEF UnderWay
  <2> QED BY <2>1, <2>3, <2>4 DEF BuildInv, AttemptsAccounted
<1>6. CASE NetworkSlows \/ UNCHANGED buildVars
  BY <1>6 DEF BuildInv, BuildTyped, AttemptsAccounted, UnderWay, NetworkSlows, buildVars
<1>7. ASSUME NEW b \in Builder, NEW g \in Guard, DialGuard(b, g) \/ DialFails(b, g) PROVE BuildInv'
  BY <1>7 DEF BuildInv, BuildTyped, AttemptsAccounted, UnderWay, DialGuard, DialFails
<1> QED BY <1>1, <1>2, <1>3, <1>4, <1>5, <1>6, <1>7 DEF BuildNext

\* A guard that never failed a build is not suspected of failing them, as long as the
\* builds under way at once are too few to outweigh the attempts that must have been
\* made: for MIN_ATTEMPTS = 20, fourteen of them (path_bias.rs, is_suspicious). And a
\* timeout learned from enough samples covers four fifths of them (circuit_timing.rs).
THEOREM BuildsAreJudged ==
    ASSUME IsFiniteSet(Builder), 10 * Cardinality(Builder) <= 7 * MinAttempts
    PROVE  BuildSpec => []BuildsJudged
<1>1. ASSUME BuildInv PROVE TimeoutCoversMost
  BY <1>1, TimeoutTyped DEF BuildInv, BuildTyped, TimeoutCoversMost
<1>2. ASSUME BuildInv PROVE UnfailedNotSuspected
  <2> SUFFICES ASSUME NEW g \in Guard \ failed PROVE ~Suspicious(g)
    BY DEF UnfailedNotSuspected
  <2>1. attempts[g] = successes[g] + Cardinality(UnderWay(g)) /\ attempts[g] \in Nat /\ successes[g] \in Nat
    BY <1>2 DEF BuildInv, BuildTyped, AttemptsAccounted
  <2>2. /\ Cardinality(UnderWay(g)) \in Nat /\ Cardinality(Builder) \in Nat /\ MinAttempts \in Nat
        /\ Cardinality(UnderWay(g)) <= Cardinality(Builder)
    BY UnderWayFinite, FS_CardinalityType, CircuitBuildAssumption
  <2>3. ASSUME attempts[g] >= MinAttempts PROVE 10 * successes[g] >= 3 * attempts[g]
    BY <2>1, <2>2, <2>3
  <2> QED BY <2>1, <2>3 DEF Suspicious
<1>3. BuildInit => BuildInv
  BY BuildInitInv
<1>4. BuildInv /\ [BuildNext]_buildVars => BuildInv'
  BY BuildStep
<1> QED BY <1>1, <1>2, <1>3, <1>4, PTL DEF BuildSpec, BuildsJudged

-----------------------------------------------------------------------------
(* The flow control of streams. *)


\* A DATA cell of a stream.
IsData(c, s) == c.cmd = "data" /\ c.stream = s

\* Every cell but a SENDME is of a stream.
CellsAddressed ==
  /\ \A i \in DOMAIN up : up[i].cmd # "sendme" => up[i].stream \in Streams
  /\ \A i \in DOMAIN down : down[i].cmd # "sendme" => down[i].stream \in Streams

\* A stream is opened once: its BEGIN is under way at most once and before the exit
\* has heard of it.
BegunOnce ==
  /\ \A s \in Streams : client[s].state = "none" =>
       exit[s].state = "none" /\ \A i \in DOMAIN up : up[i].cmd = "begin" => up[i].stream # s
  /\ \A i \in DOMAIN up : up[i].cmd = "begin" =>
       /\ exit[up[i].stream].state = "none"
       /\ \A j \in DOMAIN up \ {i} : up[j].cmd = "begin" => up[j].stream # up[i].stream

\* Until the exit has answered the BEGIN, nothing is sent or given of the stream.
UnheardIsQuiet ==
  \A s \in Streams : exit[s].state = "none" =>
    /\ s \notin exitWriter /\ gotUp[s] = <<>> /\ client[s].sent = 0
    /\ writer[s] = "idle" /\ client[s].state # "open"
    /\ \A i \in DOMAIN up : ~ IsData(up[i], s)
    /\ \A i \in DOMAIN down : down[i].cmd = "connected" => down[i].stream # s

\* The DATA under way is numbered upwards; while the target has its writer, it is
\* all that the target has not been given.
UploadKept ==
  \A s \in Streams :
    /\ Len(gotUp[s]) <= client[s].sent
    /\ \A i \in DOMAIN up : IsData(up[i], s) => up[i].n \in 1 .. client[s].sent
    /\ \A i, j \in DOMAIN up : IsData(up[i], s) /\ IsData(up[j], s) /\ i < j => up[i].n < up[j].n
    /\ s \in exitWriter =>
         /\ \A i \in DOMAIN up : IsData(up[i], s) => up[i].n > Len(gotUp[s])
         /\ \A n \in Len(gotUp[s]) + 1 .. client[s].sent :
              \E i \in DOMAIN up : IsData(up[i], s) /\ up[i].n = n

\* What the exit counts in flight is on the wire, counted by the client, or answered
\* (the streams' own SENDMEs count too, for they go out on stream 0).
DownloadCredit ==
  relay.inflight <= Count(down, "data") + flowOrigin.delivered + CircInc * Count(up, "sendme")

(***************************************************************************)
(* Why the windows are exact: the DATA of a stream under way is numbered   *)
(* in order and is all that its target has not been given; a stream is     *)
(* begun once, and is quiet until the exit has heard of it; and what       *)
(* either end counts in flight is under way, counted by the other, or      *)
(* answered.                                                               *)
(***************************************************************************)
FlowInv ==
  /\ FlowTypeOK /\ CellsAddressed /\ BegunOnce /\ UnheardIsQuiet /\ UploadKept
  /\ UploadCredit /\ DownloadCredit /\ UploadInOrder

\* The cells of a kind on a channel are counted by a number, more than 0 if there is one.
LEMMA CountIs ==
  ASSUME NEW ch \in Seq(Cells), NEW cmd
  PROVE  /\ IsFiniteSet({i \in DOMAIN ch : ch[i].cmd = cmd}) /\ Count(ch, cmd) \in Nat
         /\ Count(ch, cmd) > 0 <=> \E i \in DOMAIN ch : ch[i].cmd = cmd
<1> DEFINE I == {i \in DOMAIN ch : ch[i].cmd = cmd}
<1>1. IsFiniteSet(I)
  <2>1. Len(ch) \in Nat /\ I \in SUBSET (1 .. Len(ch))
    OBVIOUS
  <2>2. IsFiniteSet(1 .. Len(ch))
    BY <2>1, FS_Interval
  <2>3. QED BY <2>1, <2>2, FS_Subset
<1>2. Cardinality(I) \in Nat /\ (Cardinality(I) = 0 <=> I = {})
  BY <1>1, FS_CardinalityType, FS_EmptySet
<1>3. I # {} <=> \E i \in DOMAIN ch : ch[i].cmd = cmd
  OBVIOUS
<1> HIDE DEF I
<1>4. Cardinality(I) > 0 <=> \E i \in DOMAIN ch : ch[i].cmd = cmd
  BY <1>2, <1>3
<1>5. QED BY <1>1, <1>2, <1>4 DEF Count, I

\* An empty channel has none.
LEMMA CountEmpty == \A cmd : Count(<<>>, cmd) = 0
BY FS_EmptySet DEF Count

\* A cell put on a channel is counted,
LEMMA CountAppend ==
  ASSUME NEW ch \in Seq(Cells), NEW c \in Cells, NEW cmd
  PROVE  Count(Append(ch, c), cmd) = Count(ch, cmd) + (IF c.cmd = cmd THEN 1 ELSE 0)
<1> DEFINE I == {i \in DOMAIN ch : ch[i].cmd = cmd}
           more == Append(ch, c)
           J == {i \in DOMAIN more : more[i].cmd = cmd}
<1>1. /\ Len(ch) \in Nat /\ DOMAIN ch = 1 .. Len(ch) /\ DOMAIN more = 1 .. Len(ch) + 1
      /\ more[Len(ch) + 1] = c /\ \A i \in 1 .. Len(ch) : more[i] = ch[i]
  OBVIOUS
<1>2. IsFiniteSet(I) /\ Len(ch) + 1 \notin I
  <2>1. IsFiniteSet(I)
    BY CountIs
  <2>2. Len(ch) + 1 \notin DOMAIN ch
    BY <1>1
  <2>3. QED BY <2>1, <2>2
<1> HIDE DEF more
<1>3. J = IF c.cmd = cmd THEN I \cup {Len(ch) + 1} ELSE I
  BY <1>1
<1>4. Cardinality(I \cup {Len(ch) + 1}) = Cardinality(I) + 1
  BY <1>2, FS_AddElement
<1> HIDE DEF I, J
<1>5. Cardinality(J) = Cardinality(I) + (IF c.cmd = cmd THEN 1 ELSE 0)
  <2>1. Cardinality(I) \in Nat
    BY <1>2, FS_CardinalityType
  <2>2. QED BY <1>3, <1>4, <2>1
<1>6. QED BY <1>5 DEF Count, I, J, more

\* and one taken off it no longer is.
LEMMA CountTail ==
  ASSUME NEW ch \in Seq(Cells), ch # <<>>, NEW cmd
  PROVE  Count(Tail(ch), cmd) = Count(ch, cmd) - (IF Head(ch).cmd = cmd THEN 1 ELSE 0)
<1> DEFINE I == {i \in DOMAIN ch : ch[i].cmd = cmd}
           rest == Tail(ch)
           J == {i \in DOMAIN rest : rest[i].cmd = cmd}
           shift == [i \in I \ {1} |-> i - 1]
<1>1. /\ Len(ch) \in Nat /\ Len(ch) > 0 /\ DOMAIN ch = 1 .. Len(ch) /\ DOMAIN rest = 1 .. Len(ch) - 1
      /\ Head(ch) = ch[1] /\ \A i \in 1 .. Len(ch) - 1 : rest[i] = ch[i + 1]
  OBVIOUS
<1>2. IsFiniteSet(I)
  BY CountIs
<1> HIDE DEF rest
<1>3. \A i \in I \ {1} : i \in 2 .. Len(ch) /\ i - 1 \in J
  BY <1>1
<1>4. \A j \in J : j + 1 \in I \ {1} /\ (j + 1) - 1 = j
  BY <1>1
<1>5. I \ {1} \subseteq Nat
  BY <1>1
<1>6. shift \in Bijection(I \ {1}, J)
  <2> HIDE DEF I, J
  <2>1. shift \in [I \ {1} -> J] /\ \A a, b \in I \ {1} : shift[a] = shift[b] => a = b
    BY <1>3, <1>5
  <2>2. \A j \in J : \E i \in I \ {1} : shift[i] = j
    BY <1>4
  <2> HIDE DEF shift
  <2>3. QED BY <2>1, <2>2, Fun_IsBij
<1>7. IsFiniteSet(I \ {1}) /\ Cardinality(I \ {1}) = IF 1 \in I THEN Cardinality(I) - 1 ELSE Cardinality(I)
  BY <1>2, FS_RemoveElement
<1>8. Cardinality(J) = Cardinality(I \ {1})
  BY <1>6, <1>7, FS_Bijection, Fun_ExistsBij
<1>9. 1 \in I <=> Head(ch).cmd = cmd
  BY <1>1
<1>10. Cardinality(I) \in Nat
  BY <1>2, FS_CardinalityType
<1> HIDE DEF I, J
<1>11. Cardinality(J) = Cardinality(I) - (IF Head(ch).cmd = cmd THEN 1 ELSE 0)
  BY <1>7, <1>8, <1>9, <1>10
<1>12. QED BY <1>11 DEF Count, I, J, rest

\* SENDMEs put after the cells of a channel.
LEMMA SendmesAdded ==
  ASSUME NEW ch \in Seq(Cells), NEW b \in BOOLEAN
  PROVE  /\ ch \o Sendmes(b) \in Seq(Cells) /\ Len(ch \o Sendmes(b)) = Len(ch) + (IF b THEN 1 ELSE 0)
         /\ \A i \in 1 .. Len(ch) : (ch \o Sendmes(b))[i] = ch[i]
         /\ \A i \in 1 .. Len(ch \o Sendmes(b)) : i > Len(ch) => (ch \o Sendmes(b))[i].cmd = "sendme"
         /\ \A cmd : Count(ch \o Sendmes(b), cmd)
                       = Count(ch, cmd) + (IF b /\ cmd = "sendme" THEN 1 ELSE 0)
<1>1. CircuitSendme \in Cells /\ CircuitSendme.cmd = "sendme"
  BY DEF CircuitSendme, Cell, Cells
<1>2. CASE b
  <2>1. ch \o Sendmes(b) = Append(ch, CircuitSendme)
    BY <1>1, <1>2 DEF Sendmes
  <2>2. \A cmd : Count(Append(ch, CircuitSendme), cmd)
                   = Count(ch, cmd) + (IF cmd = "sendme" THEN 1 ELSE 0)
    BY <1>1, CountAppend
  <2>3. /\ Append(ch, CircuitSendme) \in Seq(Cells) /\ Len(Append(ch, CircuitSendme)) = Len(ch) + 1
        /\ \A i \in 1 .. Len(ch) : Append(ch, CircuitSendme)[i] = ch[i]
        /\ Append(ch, CircuitSendme)[Len(ch) + 1] = CircuitSendme
    BY <1>1
  <2>4. \A i \in 1 .. Len(ch) + 1 : i > Len(ch) => i = Len(ch) + 1
    OBVIOUS
  <2>5. \A cmd : Count(ch \o Sendmes(b), cmd) = Count(ch, cmd) + (IF b /\ cmd = "sendme" THEN 1 ELSE 0)
    BY <1>2, <2>1, <2>2
  <2> HIDE DEF Count
  <2>6. \A i \in 1 .. Len(ch) + 1 : i > Len(ch) => Append(ch, CircuitSendme)[i].cmd = "sendme"
    BY <1>1, <2>3, <2>4
  <2>7. QED BY <1>2, <2>1, <2>3, <2>5, <2>6
<1>3. CASE ~ b
  <2>1. ch \o Sendmes(b) = ch
    BY <1>3 DEF Sendmes
  <2>2. \A cmd : Count(ch, cmd) \in Nat
    BY CountIs
  <2>3. QED BY <1>3, <2>1, <2>2
<1> QED BY <1>2, <1>3

\* The channel less its first cell.
LEMMA TailIs ==
  ASSUME NEW ch \in Seq(Cells), ch # <<>>
  PROVE  /\ Tail(ch) \in Seq(Cells) /\ Len(Tail(ch)) = Len(ch) - 1 /\ Head(ch) = ch[1] /\ Head(ch) \in Cells
         /\ Len(ch) \in Nat /\ Len(ch) > 0 /\ DOMAIN Tail(ch) = 1 .. Len(ch) - 1
         /\ \A i \in 1 .. Len(ch) - 1 : Tail(ch)[i] = ch[i + 1] /\ i + 1 \in DOMAIN ch
         /\ \A i \in DOMAIN ch : i = 1 \/ (i - 1 \in 1 .. Len(ch) - 1 /\ Tail(ch)[i - 1] = ch[i])
<1>1. /\ Tail(ch) \in Seq(Cells) /\ Len(Tail(ch)) = Len(ch) - 1 /\ Head(ch) = ch[1] /\ Head(ch) \in Cells
      /\ Len(ch) \in Nat /\ Len(ch) > 0
  OBVIOUS
<1>2. DOMAIN Tail(ch) = 1 .. Len(ch) - 1 /\ DOMAIN ch = 1 .. Len(ch)
  OBVIOUS
<1>3. \A i \in 1 .. Len(ch) - 1 : Tail(ch)[i] = ch[i + 1] /\ i + 1 \in 1 .. Len(ch)
  OBVIOUS
<1>4. \A i \in 1 .. Len(ch) : i = 1 \/ (i - 1 \in 1 .. Len(ch) - 1 /\ (i - 1) + 1 = i)
  BY <1>1
<1>5. \A i \in 1 .. Len(ch) : i = 1 \/ (i - 1 \in 1 .. Len(ch) - 1 /\ Tail(ch)[i - 1] = ch[i])
  <2> TAKE i \in 1 .. Len(ch)
  <2>1. i = 1 \/ (i - 1 \in 1 .. Len(ch) - 1 /\ (i - 1) + 1 = i)
    BY <1>4
  <2>2. i - 1 \in 1 .. Len(ch) - 1 => Tail(ch)[i - 1] = ch[(i - 1) + 1]
    BY <1>3
  <2>3. i - 1 \in 1 .. Len(ch) - 1 => Tail(ch)[i - 1] = ch[i]
    BY <2>1, <2>2, <1>1
  <2>4. CASE i = 1
    BY <2>4
  <2>5. CASE i - 1 \in 1 .. Len(ch) - 1
    BY <2>3, <2>5
  <2>6. QED BY <2>1, <2>4, <2>5
<1>6. QED BY <1>1, <1>2, <1>3, <1>5

\* The channel and one more cell.
LEMMA AppendIs ==
  ASSUME NEW ch \in Seq(Cells), NEW c \in Cells
  PROVE  /\ Append(ch, c) \in Seq(Cells) /\ Len(Append(ch, c)) = Len(ch) + 1 /\ Len(ch) \in Nat
         /\ DOMAIN ch = 1 .. Len(ch) /\ DOMAIN Append(ch, c) = 1 .. Len(ch) + 1
         /\ \A i \in 1 .. Len(ch) : i \in 1 .. Len(ch) + 1 /\ Append(ch, c)[i] = ch[i]
         /\ Append(ch, c)[Len(ch) + 1] = c
         /\ \A i \in 1 .. Len(ch) + 1 : i \in 1 .. Len(ch) \/ i = Len(ch) + 1
OBVIOUS

\* A channel after the SENDMEs a cell may earn, the stream's and the circuit's.
Answered(ch, a, b) == ch \o Sendmes(a) \o Sendmes(b)

\* After the answers the channel begins as before, goes on in SENDMEs, and counts them.
LEMMA TwoSendmes ==
  ASSUME NEW ch \in Seq(Cells), NEW a \in BOOLEAN, NEW b \in BOOLEAN
  PROVE  /\ Answered(ch, a, b) \in Seq(Cells) /\ Len(Answered(ch, a, b)) \in Nat /\ Len(ch) \in Nat
         /\ DOMAIN Answered(ch, a, b) = 1 .. Len(Answered(ch, a, b))
         /\ Len(ch) <= Len(Answered(ch, a, b)) /\ DOMAIN ch = 1 .. Len(ch)
         /\ \A i \in 1 .. Len(ch) : i \in 1 .. Len(Answered(ch, a, b)) /\ Answered(ch, a, b)[i] = ch[i]
         /\ \A i \in 1 .. Len(Answered(ch, a, b)) : i \in 1 .. Len(ch) \/ Answered(ch, a, b)[i].cmd = "sendme"
         /\ Count(Answered(ch, a, b), "data") = Count(ch, "data")
         /\ Count(Answered(ch, a, b), "sendme") = Count(ch, "sendme") + (IF a THEN 1 ELSE 0) + (IF b THEN 1 ELSE 0)
<1> DEFINE more == ch \o Sendmes(a) \o Sendmes(b)
           mid == ch \o Sendmes(a)
<1>1. /\ mid \in Seq(Cells) /\ Len(mid) = Len(ch) + (IF a THEN 1 ELSE 0)
      /\ \A i \in 1 .. Len(ch) : mid[i] = ch[i]
      /\ \A i \in 1 .. Len(mid) : i > Len(ch) => mid[i].cmd = "sendme"
      /\ \A cmd : Count(mid, cmd) = Count(ch, cmd) + (IF a /\ cmd = "sendme" THEN 1 ELSE 0)
  BY SendmesAdded
<1> HIDE DEF mid
<1>2. /\ mid \o Sendmes(b) \in Seq(Cells) /\ Len(mid \o Sendmes(b)) = Len(mid) + (IF b THEN 1 ELSE 0)
      /\ \A i \in 1 .. Len(mid) : (mid \o Sendmes(b))[i] = mid[i]
      /\ \A i \in 1 .. Len(mid \o Sendmes(b)) : i > Len(mid) => (mid \o Sendmes(b))[i].cmd = "sendme"
      /\ \A cmd : Count(mid \o Sendmes(b), cmd) = Count(mid, cmd) + (IF b /\ cmd = "sendme" THEN 1 ELSE 0)
  <2>1. mid \in Seq(Cells)
    BY <1>1
  <2>2. QED BY <2>1, SendmesAdded
<1>3. more = mid \o Sendmes(b)
  BY DEF mid
<1> HIDE DEF Count
<1> HIDE DEF more
<1>4. /\ more \in Seq(Cells) /\ Len(more) = Len(mid) + (IF b THEN 1 ELSE 0)
      /\ \A i \in 1 .. Len(mid) : more[i] = mid[i]
      /\ \A i \in 1 .. Len(more) : i > Len(mid) => more[i].cmd = "sendme"
      /\ \A cmd : Count(more, cmd) = Count(mid, cmd) + (IF b /\ cmd = "sendme" THEN 1 ELSE 0)
  BY <1>2, <1>3, Zenon
<1>5. Len(ch) \in Nat /\ DOMAIN ch = 1 .. Len(ch)
  OBVIOUS
<1>6. Len(more) \in Nat /\ DOMAIN more = 1 .. Len(more)
  <2>1. more \in Seq(Cells)
    BY <1>4
  <2>2. QED BY <2>1
<1>7. Len(mid) = Len(ch) + (IF a THEN 1 ELSE 0) /\ Len(more) = Len(mid) + (IF b THEN 1 ELSE 0)
  BY <1>1, <1>4
<1>8. Len(ch) <= Len(mid) /\ Len(mid) <= Len(more) /\ Len(mid) \in Nat
  <2>1. Len(mid) = Len(ch) + 0 \/ Len(mid) = Len(ch) + 1
    BY <1>7, Zenon
  <2>2. Len(more) = Len(mid) + 0 \/ Len(more) = Len(mid) + 1
    BY <1>7, Zenon
  <2>3. QED BY <1>5, <2>1, <2>2
<1>9. \A i \in 1 .. Len(ch) : i \in 1 .. Len(mid) /\ i \in 1 .. Len(more)
  BY <1>5, <1>6, <1>8
<1>10. \A i \in 1 .. Len(more) : i \in 1 .. Len(ch) \/ (i > Len(ch) /\ i \in 1 .. Len(mid)) \/ i > Len(mid)
  BY <1>5, <1>6, <1>8
<1>11. \A i \in 1 .. Len(more) : i \in 1 .. Len(ch) \/ more[i].cmd = "sendme"
  <2> TAKE i \in 1 .. Len(more)
  <2>1. CASE i > Len(ch) /\ i \in 1 .. Len(mid)
    BY <1>1, <1>4, <2>1
  <2>2. CASE i > Len(mid)
    BY <1>4, <2>2
  <2>3. QED BY <1>10, <2>1, <2>2
<1>12. /\ Count(mid, "data") = Count(ch, "data") + (IF a /\ "data" = "sendme" THEN 1 ELSE 0)
       /\ Count(mid, "sendme") = Count(ch, "sendme") + (IF a /\ "sendme" = "sendme" THEN 1 ELSE 0)
       /\ Count(more, "data") = Count(mid, "data") + (IF b /\ "data" = "sendme" THEN 1 ELSE 0)
       /\ Count(more, "sendme") = Count(mid, "sendme") + (IF b /\ "sendme" = "sendme" THEN 1 ELSE 0)
  BY <1>1, <1>4, Zenon
<1>13. Count(ch, "data") \in Nat /\ Count(ch, "sendme") \in Nat
  BY CountIs
<1>14. /\ Count(more, "data") = Count(ch, "data")
       /\ Count(more, "sendme") = Count(ch, "sendme") + (IF a THEN 1 ELSE 0) + (IF b THEN 1 ELSE 0)
  BY <1>12, <1>13
<1>15. \A i \in 1 .. Len(ch) : more[i] = ch[i]
  BY <1>1, <1>4, <1>9
<1>16. Len(ch) <= Len(more)
  BY <1>5, <1>6, <1>8
<1>17. QED BY <1>4, <1>5, <1>6, <1>9, <1>11, <1>14, <1>15, <1>16, Zenon DEF more, Answered

-----------------------------------------------------------------------------

\* A stream at its client and at the exit.
ClientStreams == [state : {"none", "connecting", "open", "removed"},
                  window : 0 .. StreamWindow, delivered : 0 .. StreamInc - 1,
                  queued : 0 .. AppCap, sent : Nat]
ExitStreamStates == [state : {"none", "open", "ended"}, sent : Nat]

\* The constants are numbers, and a full increment fits in the least window.
LEMMA FlowNumbers ==
  /\ StreamWindow \in Nat /\ StreamInc \in Nat \ {0} /\ CircInc \in Nat \ {0} /\ AppCap \in Nat
  /\ FlowCwndMin \in Nat /\ FlowCwndMax \in Nat /\ CircInc <= FlowCwndMin /\ FlowCwndMin <= FlowCwndMax
  /\ MaxUp \in [Streams -> Nat] /\ MaxDown \in [Streams -> Nat]
  /\ 0 \notin Streams /\ Streams \subseteq Nat
BY StreamsAssumption, WindowsAssumption

\* What a DATA cell and a SENDME do to a circuit.
LEMMA CircuitMoves ==
  ASSUME NEW c \in Circuit
  PROVE  /\ NoteSend(c) \in Circuit /\ NoteSend(c).inflight = c.inflight + 1 /\ NoteSend(c).delivered = c.delivered
         /\ Delivered(c) \in Circuit /\ Delivered(c).inflight = c.inflight
         /\ Due(c) \in BOOLEAN
         /\ Delivered(c).delivered + (IF Due(c) THEN CircInc ELSE 0) = c.delivered + 1
         /\ \A d \in AfterSendme(c) : /\ d \in Circuit /\ d.delivered = c.delivered
                                      /\ d.inflight = IF c.inflight < CircInc THEN 0 ELSE c.inflight - CircInc
<1>1. c.inflight \in Nat /\ c.cwnd \in FlowCwndMin .. FlowCwndMax /\ c.delivered \in 0 .. CircInc - 1
      /\ c = [inflight |-> c.inflight, cwnd |-> c.cwnd, delivered |-> c.delivered]
  BY DEF Circuit
<1>2. NoteSend(c) \in Circuit /\ NoteSend(c).inflight = c.inflight + 1 /\ NoteSend(c).delivered = c.delivered
  BY <1>1 DEF NoteSend, Circuit
<1>3. Delivered(c) \in Circuit /\ Delivered(c).inflight = c.inflight
  BY <1>1, FlowNumbers DEF Delivered, Due, Circuit
<1>4. Delivered(c).delivered = IF Due(c) THEN 0 ELSE c.delivered + 1
  BY <1>1 DEF Delivered
<1>5. (IF Due(c) THEN 0 ELSE c.delivered + 1) + (IF Due(c) THEN CircInc ELSE 0) = c.delivered + 1
  BY <1>1, FlowNumbers DEF Due
<1>6. ASSUME NEW d \in AfterSendme(c)
      PROVE  /\ d \in Circuit /\ d.delivered = c.delivered
             /\ d.inflight = IF c.inflight < CircInc THEN 0 ELSE c.inflight - CircInc
  <2>1. PICK w \in FlowCwndMin .. FlowCwndMax :
          d = [c EXCEPT !.inflight = IF @ < CircInc THEN 0 ELSE @ - CircInc, !.cwnd = w]
    BY DEF AfterSendme
  <2>2. (IF c.inflight < CircInc THEN 0 ELSE c.inflight - CircInc) \in Nat
    BY <1>1, FlowNumbers
  <2>3. QED BY <1>1, <2>1, <2>2 DEF Circuit
<1>7. Due(c) \in BOOLEAN
  BY DEF Due
<1>8. QED BY <1>2, <1>3, <1>4, <1>5, <1>6, <1>7

\* One field of one stream's record set to a value of its type.
LEMMA ClientSet ==
  ASSUME client \in [Streams -> ClientStreams], NEW s \in Streams
  PROVE  /\ \A v \in {"none", "connecting", "open", "removed"} :
              [client EXCEPT ![s].state = v] \in [Streams -> ClientStreams]
         /\ \A v \in 0 .. StreamWindow : [client EXCEPT ![s].window = v] \in [Streams -> ClientStreams]
         /\ \A v \in 0 .. AppCap : [client EXCEPT ![s].queued = v] \in [Streams -> ClientStreams]
         /\ \A v \in Nat : [client EXCEPT ![s].sent = v] \in [Streams -> ClientStreams]
         /\ \A v \in 0 .. AppCap, d \in 0 .. StreamInc - 1 :
              [client EXCEPT ![s].queued = v, ![s].delivered = d] \in [Streams -> ClientStreams]
BY DEF ClientStreams

\* And at the exit.
LEMMA ExitSet ==
  ASSUME exit \in [Streams -> ExitStreamStates], NEW s \in Streams
  PROVE  /\ \A v \in {"none", "open", "ended"} : [exit EXCEPT ![s].state = v] \in [Streams -> ExitStreamStates]
         /\ \A v \in Nat : [exit EXCEPT ![s].sent = v] \in [Streams -> ExitStreamStates]
BY DEF ExitStreamStates

\* The type invariant, with the channels as sequences of cells.
FlowTyped ==
  /\ up \in Seq(Cells) /\ down \in Seq(Cells)
  /\ client \in [Streams -> ClientStreams] /\ writer \in [Streams -> {"idle", "slot", "granted"}]
  /\ exit \in [Streams -> ExitStreamStates] /\ exitWriter \in SUBSET Streams
  /\ flowOrigin \in Circuit /\ relay \in Circuit
  /\ gotUp \in [Streams -> Seq(Nat)] /\ gotDown \in [Streams -> Seq(Nat)]

\* Every step keeps the types.
LEMMA FlowTypesHold ==
  ASSUME FlowTyped, CellsAddressed, FlowNext PROVE FlowTyped'
<1>0. /\ up \in Seq(Cells) /\ down \in Seq(Cells)
      /\ client \in [Streams -> ClientStreams] /\ writer \in [Streams -> {"idle", "slot", "granted"}]
      /\ exit \in [Streams -> ExitStreamStates] /\ exitWriter \in SUBSET Streams
      /\ flowOrigin \in Circuit /\ relay \in Circuit
      /\ gotUp \in [Streams -> Seq(Nat)] /\ gotDown \in [Streams -> Seq(Nat)]
  BY DEF FlowTyped
<1>a. \A s \in Streams, n \in Nat : \A c \in {"begin", "data", "end", "connected"} : Cell(c, s, n) \in Cells
  BY DEF Cell, Cells
<1>b. \A s \in Streams : /\ client[s].window \in 0 .. StreamWindow /\ client[s].delivered \in 0 .. StreamInc - 1
                         /\ client[s].queued \in 0 .. AppCap /\ client[s].sent \in Nat /\ exit[s].sent \in Nat
                         /\ client[s].state \in {"none", "connecting", "open", "removed"}
  BY <1>0 DEF ClientStreams, ExitStreamStates
<1>1. ASSUME NEW s \in Streams, StreamOpen(s) PROVE FlowTyped'
  <2>1. client' \in [Streams -> ClientStreams]
    BY <1>0, <1>1, ClientSet DEF StreamOpen
  <2>2. up' \in Seq(Cells)
    BY <1>0, <1>a, <1>1, AppendIs DEF StreamOpen
  <2>3. QED BY <1>0, <1>1, <2>1, <2>2 DEF StreamOpen, FlowTyped
<1>2. ASSUME NEW s \in Streams, TakeStreamSlot(s) PROVE FlowTyped'
  <2>1. client[s].window - 1 \in 0 .. StreamWindow
    BY <1>b, <1>2, FlowNumbers DEF TakeStreamSlot
  <2>2. client' \in [Streams -> ClientStreams]
    BY <1>0, <1>2, <2>1, ClientSet DEF TakeStreamSlot
  <2>3. QED BY <1>0, <1>2, <2>2 DEF TakeStreamSlot, FlowTyped
<1>3. ASSUME NEW s \in Streams, TakeCircSlot(s) PROVE FlowTyped'
  <2>1. flowOrigin' \in Circuit
    BY <1>0, <1>3, CircuitMoves DEF TakeCircSlot
  <2>2. QED BY <1>0, <1>3, <2>1 DEF TakeCircSlot, FlowTyped
<1>4. ASSUME NEW s \in Streams, SendStreamRelay(s) PROVE FlowTyped'
  <2>1. client[s].sent + 1 \in Nat
    BY <1>b
  <2>2. client' \in [Streams -> ClientStreams]
    BY <1>0, <1>4, <2>1, ClientSet DEF SendStreamRelay
  <2>3. up' \in Seq(Cells)
    BY <1>0, <1>a, <1>4, <2>1, AppendIs DEF SendStreamRelay
  <2>4. QED BY <1>0, <1>4, <2>2, <2>3 DEF SendStreamRelay, FlowTyped
<1>5. ASSUME NEW s \in Streams, StreamClose(s) PROVE FlowTyped'
  <2>1. client' \in [Streams -> ClientStreams]
    BY <1>0, <1>5, ClientSet DEF StreamClose
  <2>2. up' \in Seq(Cells)
    BY <1>0, <1>a, <1>5, AppendIs DEF StreamClose
  <2>3. QED BY <1>0, <1>5, <2>1, <2>2 DEF StreamClose, FlowTyped
<1>6. ASSUME NEW s \in Streams, AppRead(s) PROVE FlowTyped'
  <2>1. client[s].queued - 1 \in 0 .. AppCap
    BY <1>b, <1>6, FlowNumbers DEF AppRead
  <2>2. client' \in [Streams -> ClientStreams]
    BY <1>0, <1>6, <2>1, ClientSet DEF AppRead
  <2>3. QED BY <1>0, <1>6, <2>2 DEF AppRead, FlowTyped
<1>7. ASSUME NEW s \in Streams, Pump(s) PROVE FlowTyped'
  <2>1. exit[s].sent + 1 \in Nat
    BY <1>b
  <2>2. relay' \in Circuit
    BY <1>0, <1>7, CircuitMoves DEF Pump
  <2>3. exit' \in [Streams -> ExitStreamStates]
    BY <1>0, <1>7, <2>1, ExitSet DEF Pump
  <2>4. down' \in Seq(Cells)
    BY <1>0, <1>a, <1>7, <2>1, AppendIs DEF Pump
  <2>5. QED BY <1>0, <1>7, <2>2, <2>3, <2>4 DEF Pump, FlowTyped
<1>8. ASSUME NEW s \in Streams, StreamPumpEnds(s) PROVE FlowTyped'
  <2>1. exit' \in [Streams -> ExitStreamStates]
    BY <1>0, <1>8, ExitSet DEF StreamPumpEnds
  <2>2. down' \in Seq(Cells)
    BY <1>0, <1>a, <1>8, AppendIs DEF StreamPumpEnds
  <2>3. QED BY <1>0, <1>8, <2>1, <2>2 DEF StreamPumpEnds, FlowTyped
<1>9. ASSUME ClientRecvData PROVE FlowTyped'
  <2> DEFINE s == Head(down).stream  n == Head(down).n
  <2>1. s \in Streams /\ n \in Nat /\ down' \in Seq(Cells)
    <3>1. 1 \in DOMAIN down /\ Head(down) = down[1] /\ Head(down) \in Cells /\ down' \in Seq(Cells)
      BY <1>0, <1>9, TailIs DEF ClientRecvData
    <3>2. QED BY <1>9, <3>1, CellsAddressed DEF ClientRecvData, CellsAddressed, Cells
  <2>2. flowOrigin' \in Circuit /\ Due(flowOrigin) \in BOOLEAN /\ BatchDone(s) \in BOOLEAN
    BY <1>0, <1>9, CircuitMoves DEF ClientRecvData, BatchDone
  <2>3. up' \in Seq(Cells)
    BY <1>0, <1>9, <2>2, TwoSendmes DEF ClientRecvData, Answered
  <2>4. CASE StreamAccepts(s)
    <3>1. client[s].queued + 1 \in 0 .. AppCap
      <4>1. client[s].queued \in 0 .. AppCap
        BY <1>b, <2>1
      <4>2. client[s].queued < AppCap
        BY <2>4 DEF StreamAccepts
      <4>3. QED BY <4>1, <4>2, FlowNumbers
    <3>2. (IF BatchDone(s) THEN 0 ELSE client[s].delivered + 1) \in 0 .. StreamInc - 1
      <4>1. client[s].delivered \in 0 .. StreamInc - 1
        BY <1>b, <2>1
      <4>2. ~ BatchDone(s) => ~ (client[s].delivered + 1 >= StreamInc)
        BY <2>4 DEF BatchDone
      <4>3. QED BY <4>1, <4>2, FlowNumbers
    <3>3. client' = [client EXCEPT ![s].queued = client[s].queued + 1,
                                   ![s].delivered = IF BatchDone(s) THEN 0 ELSE client[s].delivered + 1]
      BY <1>9, <2>4, <2>1, <1>0 DEF ClientRecvData, ClientStreams
    <3>4. client' \in [Streams -> ClientStreams]
      BY <1>0, <2>1, <3>1, <3>2, <3>3, ClientSet
    <3>5. gotDown' = [gotDown EXCEPT ![s] = Append(gotDown[s], n)]
      BY <1>9, <2>4 DEF ClientRecvData
    <3>6. gotDown' \in [Streams -> Seq(Nat)]
      <4>1. Append(gotDown[s], n) \in Seq(Nat)
        BY <1>0, <2>1
      <4>2. QED BY <1>0, <3>5, <4>1, <2>1
    <3>7. QED BY <1>0, <1>9, <2>1, <2>2, <2>3, <3>4, <3>6 DEF ClientRecvData, FlowTyped
  <2>5. CASE ~ StreamAccepts(s)
    BY <1>0, <1>9, <2>1, <2>2, <2>3, <2>5 DEF ClientRecvData, FlowTyped
  <2>6. QED BY <2>4, <2>5
<1>10. ASSUME ClientRecvSendme PROVE FlowTyped'
  BY <1>0, <1>10, CircuitMoves, TailIs DEF ClientRecvSendme, FlowTyped
<1>11. ASSUME ClientRecvControl PROVE FlowTyped'
  <2> DEFINE s == Head(down).stream
             v == IF Head(down).cmd = "end" THEN "removed"
                  ELSE IF client[s].state = "connecting" THEN "open" ELSE client[s].state
  <2>1. s \in Streams /\ down' \in Seq(Cells)
    <3>1. 1 \in DOMAIN down /\ Head(down) = down[1] /\ Head(down) \in Cells /\ down' \in Seq(Cells)
      BY <1>0, <1>11, TailIs DEF ClientRecvControl
    <3>2. QED BY <1>11, <3>1, CellsAddressed DEF ClientRecvControl, CellsAddressed
  <2>2. client' = [client EXCEPT ![s].state = v]
    BY <1>0, <1>11, <2>1 DEF ClientRecvControl
  <2>3. v \in {"none", "connecting", "open", "removed"}
    BY <1>b, <2>1
  <2>4. client' \in [Streams -> ClientStreams]
    BY <1>0, <2>1, <2>2, <2>3, ClientSet
  <2>5. QED BY <1>0, <1>11, <2>1, <2>4 DEF ClientRecvControl, FlowTyped
<1>12. ASSUME NEW b \in BOOLEAN, ExitRecvBegin(b) PROVE FlowTyped'
  <2> DEFINE s == Head(up).stream
  <2>1. s \in Streams /\ up' \in Seq(Cells)
    <3>1. 1 \in DOMAIN up /\ Head(up) = up[1] /\ Head(up) \in Cells /\ up' \in Seq(Cells)
      BY <1>0, <1>12, TailIs DEF ExitRecvBegin
    <3>2. QED BY <1>12, <3>1, CellsAddressed DEF ExitRecvBegin, CellsAddressed
  <2>2. Cell(IF b THEN "connected" ELSE "end", s, 0) \in Cells
    BY <2>1 DEF Cell, Cells
  <2>3. down' \in Seq(Cells)
    BY <1>0, <1>12, <2>2, AppendIs DEF ExitRecvBegin
  <2>4. exit' \in [Streams -> ExitStreamStates]
    <3>1. exit' = [exit EXCEPT ![s].state = IF b THEN "open" ELSE "ended"]
      BY <1>12 DEF ExitRecvBegin
    <3>2. (IF b THEN "open" ELSE "ended") \in {"none", "open", "ended"}
      OBVIOUS
    <3>3. QED BY <1>0, <2>1, <3>1, <3>2, ExitSet
  <2>5. QED BY <1>0, <1>12, <2>1, <2>3, <2>4 DEF ExitRecvBegin, FlowTyped
<1>13. ASSUME ExitRecvData PROVE FlowTyped'
  <2> DEFINE s == Head(up).stream
  <2>1. s \in Streams /\ Head(up).n \in Nat /\ up' \in Seq(Cells)
    <3>1. 1 \in DOMAIN up /\ Head(up) = up[1] /\ Head(up) \in Cells /\ up' \in Seq(Cells)
      BY <1>0, <1>13, TailIs DEF ExitRecvData
    <3>2. QED BY <1>13, <3>1, CellsAddressed DEF ExitRecvData, CellsAddressed, Cells
  <2>2. relay' \in Circuit /\ Due(relay) \in BOOLEAN
    BY <1>0, <1>13, CircuitMoves DEF ExitRecvData
  <2>3. down' \in Seq(Cells)
    BY <1>0, <1>13, <2>2, SendmesAdded DEF ExitRecvData
  <2>4. gotUp' \in [Streams -> Seq(Nat)]
    <3>1. Append(gotUp[s], Head(up).n) \in Seq(Nat)
      BY <1>0, <2>1
    <3>2. gotUp' = gotUp \/ gotUp' = [gotUp EXCEPT ![s] = Append(gotUp[s], Head(up).n)]
      BY <1>13 DEF ExitRecvData
    <3>3. QED BY <1>0, <2>1, <3>1, <3>2
  <2>5. QED BY <1>0, <1>13, <2>1, <2>2, <2>3, <2>4 DEF ExitRecvData, FlowTyped
<1>14. ASSUME ExitRecvSendme PROVE FlowTyped'
  BY <1>0, <1>14, CircuitMoves, TailIs DEF ExitRecvSendme, FlowTyped
<1>15. ASSUME ExitRecvEnd PROVE FlowTyped'
  BY <1>0, <1>15, TailIs DEF ExitRecvEnd, FlowTyped
<1>16. QED BY <1>1, <1>2, <1>3, <1>4, <1>5, <1>6, <1>7, <1>8, <1>9, <1>10, <1>11, <1>12, <1>13, <1>14, <1>15
            DEF FlowNext, ClientRecv, ExitRecv

-----------------------------------------------------------------------------

\* The cells of a kind on the way up are among those that were, in the same order.
UpFrom(cmd) ==
  \E k \in {0, 1} : \A i \in DOMAIN up' :
    i \in Nat /\ (up'[i].cmd = cmd => i + k \in DOMAIN up /\ up'[i] = up[i + k])

\* And those of a kind that were are still there.
UpHolds(cmd) == \A i \in DOMAIN up : up[i].cmd = cmd => \E j \in DOMAIN up' : up'[j] = up[i]

\* The same on the way down.
DownFrom(cmd) ==
  \A i \in DOMAIN down' : down'[i].cmd = cmd => \E j \in DOMAIN down : down[j] = down'[i]

\* A channel that is left alone,
LEMMA UpSame == ASSUME FlowTyped, up' = up PROVE \A cmd : UpFrom(cmd) /\ UpHolds(cmd)
<1>1. \A i \in DOMAIN up : i \in Nat /\ i + 0 = i
  BY DEF FlowTyped
<1>2. QED BY <1>1 DEF UpFrom, UpHolds

\* one that gets a cell,
LEMMA UpAppended ==
  ASSUME FlowTyped, NEW c \in Cells, up' = Append(up, c)
  PROVE  \A cmd : UpHolds(cmd) /\ (cmd # c.cmd => UpFrom(cmd))
<1>1. /\ DOMAIN up = 1 .. Len(up) /\ DOMAIN up' = 1 .. Len(up) + 1 /\ up'[Len(up) + 1] = c /\ Len(up) \in Nat
      /\ \A i \in 1 .. Len(up) : i \in 1 .. Len(up) + 1 /\ up'[i] = up[i]
      /\ \A i \in 1 .. Len(up) + 1 : i \in 1 .. Len(up) \/ i = Len(up) + 1
  BY AppendIs DEF FlowTyped
<1>2. \A i \in 1 .. Len(up) + 1 : i \in Nat /\ i + 0 = i
  BY <1>1
<1>3. ASSUME NEW cmd, cmd # c.cmd PROVE UpFrom(cmd)
  BY <1>1, <1>2, <1>3 DEF UpFrom
<1>4. ASSUME NEW cmd PROVE UpHolds(cmd)
  BY <1>1 DEF UpHolds
<1>5. QED BY <1>3, <1>4

\* one whose first cell is taken,
LEMMA UpTaken ==
  ASSUME FlowTyped, up # <<>>, up' = Tail(up)
  PROVE  /\ \A cmd : UpFrom(cmd) /\ (Head(up).cmd # cmd => UpHolds(cmd))
         /\ 1 \in DOMAIN up /\ Head(up) = up[1] /\ Head(up) \in Cells
<1>1. /\ Len(up) \in Nat /\ Len(up) > 0 /\ Head(up) = up[1] /\ Head(up) \in Cells /\ DOMAIN up' = 1 .. Len(up) - 1
      /\ \A i \in 1 .. Len(up) - 1 : up'[i] = up[i + 1] /\ i + 1 \in DOMAIN up
      /\ \A i \in DOMAIN up : i = 1 \/ (i - 1 \in 1 .. Len(up) - 1 /\ up'[i - 1] = up[i])
  BY TailIs DEF FlowTyped
<1>2. \A i \in 1 .. Len(up) - 1 : i \in Nat
  OBVIOUS
<1>3. 1 \in DOMAIN up
  BY <1>1 DEF FlowTyped
<1>4. ASSUME NEW cmd PROVE UpFrom(cmd)
  BY <1>1, <1>2 DEF UpFrom
<1>5. ASSUME NEW cmd, Head(up).cmd # cmd PROVE UpHolds(cmd)
  BY <1>1, <1>5 DEF UpHolds
<1>6. QED BY <1>1, <1>3, <1>4, <1>5

\* and one that gets the answers a cell earned.
LEMMA UpAnswered ==
  ASSUME FlowTyped, NEW a \in BOOLEAN, NEW b \in BOOLEAN, up' = up \o Sendmes(a) \o Sendmes(b)
  PROVE  /\ \A cmd : UpHolds(cmd) /\ (cmd # "sendme" => UpFrom(cmd))
         /\ \A i \in DOMAIN up' : up'[i].cmd # "sendme" => i \in DOMAIN up /\ up'[i] = up[i]
<1>1. /\ DOMAIN up = 1 .. Len(up) /\ DOMAIN up' = 1 .. Len(up') /\ Len(up') \in Nat
      /\ \A i \in 1 .. Len(up) : i \in 1 .. Len(up') /\ up'[i] = up[i]
      /\ \A i \in 1 .. Len(up') : i \in 1 .. Len(up) \/ up'[i].cmd = "sendme"
  <2>1. up \in Seq(Cells)
    BY DEF FlowTyped
  <2> DEFINE more == Answered(up, a, b)
  <2>2. /\ DOMAIN more = 1 .. Len(more) /\ Len(more) \in Nat /\ DOMAIN up = 1 .. Len(up)
        /\ \A i \in 1 .. Len(up) : i \in 1 .. Len(more) /\ more[i] = up[i]
        /\ \A i \in 1 .. Len(more) : i \in 1 .. Len(up) \/ more[i].cmd = "sendme"
    <3>1. more \in Seq(Cells) /\ Len(more) \in Nat
      BY <2>1, TwoSendmes
    <3>2. DOMAIN more = 1 .. Len(more) /\ DOMAIN up = 1 .. Len(up)
      BY <2>1, TwoSendmes
    <3>3. \A i \in 1 .. Len(up) : i \in 1 .. Len(more) /\ more[i] = up[i]
      BY <2>1, TwoSendmes
    <3>4. ASSUME NEW i \in 1 .. Len(more), i \notin 1 .. Len(up) PROVE more[i].cmd = "sendme"
      BY <3>4, <2>1, TwoSendmes
    <3>5. QED BY <3>1, <3>2, <3>3, <3>4
  <2>3. up' = more
    BY DEF Answered
  <2> HIDE DEF more
  <2>4. QED BY <2>2, <2>3, Zenon
<1>2. \A i \in 1 .. Len(up') : i \in Nat /\ i + 0 = i
  OBVIOUS
<1>3. ASSUME NEW cmd, cmd # "sendme" PROVE UpFrom(cmd)
  <2>1. \A i \in DOMAIN up' : i \in Nat /\ (up'[i].cmd = cmd => i + 0 \in DOMAIN up /\ up'[i] = up[i + 0])
    BY <1>1, <1>2, <1>3
  <2>2. QED BY <2>1 DEF UpFrom
<1>4. ASSUME NEW cmd PROVE UpHolds(cmd)
  BY <1>1 DEF UpHolds
<1>5. QED BY <1>1, <1>3, <1>4

\* The same four on the way down.
LEMMA DownMoves ==
  ASSUME FlowTyped
  PROVE  /\ down' = down => \A cmd : DownFrom(cmd)
         /\ \A c \in Cells : down' = Append(down, c) => \A cmd : cmd # c.cmd => DownFrom(cmd)
         /\ down # <<>> /\ down' = Tail(down) =>
              (\A cmd : DownFrom(cmd)) /\ 1 \in DOMAIN down /\ Head(down) = down[1] /\ Head(down) \in Cells
         /\ \A b \in BOOLEAN : down' = down \o Sendmes(b) => \A cmd : cmd # "sendme" => DownFrom(cmd)
<1>0. down \in Seq(Cells) /\ Len(down) \in Nat /\ DOMAIN down = 1 .. Len(down)
  BY DEF FlowTyped
<1>1. ASSUME down' = down PROVE \A cmd : DownFrom(cmd)
  BY <1>1 DEF DownFrom
<1>2. ASSUME NEW c \in Cells, down' = Append(down, c), NEW cmd, cmd # c.cmd PROVE DownFrom(cmd)
  <2>1. /\ DOMAIN down' = 1 .. Len(down) + 1 /\ down'[Len(down) + 1] = c
        /\ \A i \in 1 .. Len(down) : down'[i] = down[i]
        /\ \A i \in 1 .. Len(down) + 1 : i \in 1 .. Len(down) \/ i = Len(down) + 1
    BY <1>0, <1>2, AppendIs
  <2>2. QED BY <1>0, <1>2, <2>1 DEF DownFrom
<1>3. ASSUME down # <<>>, down' = Tail(down)
      PROVE (\A cmd : DownFrom(cmd)) /\ 1 \in DOMAIN down /\ Head(down) = down[1] /\ Head(down) \in Cells
  <2>1. /\ Len(down) > 0 /\ Head(down) = down[1] /\ Head(down) \in Cells /\ DOMAIN down' = 1 .. Len(down) - 1
        /\ \A i \in 1 .. Len(down) - 1 : down'[i] = down[i + 1] /\ i + 1 \in DOMAIN down
    BY <1>0, <1>3, TailIs
  <2>2. 1 \in DOMAIN down
    BY <1>0, <2>1
  <2>3. QED BY <2>1, <2>2 DEF DownFrom
<1>4. ASSUME NEW b \in BOOLEAN, down' = down \o Sendmes(b), NEW cmd, cmd # "sendme" PROVE DownFrom(cmd)
  <2>1. /\ down' \in Seq(Cells) /\ \A i \in 1 .. Len(down) : down'[i] = down[i]
        /\ \A i \in 1 .. Len(down') : i > Len(down) => down'[i].cmd = "sendme"
    BY <1>0, <1>4, SendmesAdded
  <2>2. Len(down') \in Nat /\ DOMAIN down' = 1 .. Len(down')
    BY <2>1
  <2>3. \A i \in 1 .. Len(down') : i > Len(down) \/ i \in 1 .. Len(down)
    BY <1>0, <2>2
  <2>4. \A i \in DOMAIN down' : down'[i].cmd = cmd => i \in 1 .. Len(down)
    BY <1>4, <2>1, <2>2, <2>3
  <2>5. QED BY <1>0, <2>1, <2>4 DEF DownFrom
<1>5. QED BY <1>1, <1>2, <1>3, <1>4

\* The kinds that carry a stream.
Addressed == {"begin", "connected", "data", "end"}

\* Cells stay addressed if those put on the channels are.
LEMMA StreamsStayAddressed ==
  ASSUME FlowTyped, FlowTyped', CellsAddressed,
         \A cmd \in Addressed : UpFrom(cmd) \/ (\E s \in Streams, n \in Nat : up' = Append(up, Cell(cmd, s, n))),
         \A cmd \in Addressed : DownFrom(cmd) \/ (\E s \in Streams, n \in Nat : down' = Append(down, Cell(cmd, s, n)))
  PROVE  CellsAddressed'
<1>1. ASSUME NEW i \in DOMAIN up', up'[i].cmd # "sendme" PROVE up'[i].stream \in Streams
  <2>1. up'[i].cmd \in Addressed
    <3>1. up' \in Seq(Cells)
      BY DEF FlowTyped
    <3>2. up'[i] \in Cells
      BY <1>1, <3>1
    <3>3. QED BY <1>1, <3>2 DEF Cells, Addressed
  <2>2. CASE UpFrom(up'[i].cmd)
    BY <1>1, <2>2 DEF UpFrom, CellsAddressed
  <2>3. ASSUME NEW s \in Streams, NEW n \in Nat, up' = Append(up, Cell(up'[i].cmd, s, n)) PROVE up'[i].stream \in Streams
    <3> DEFINE c == Cell(up'[i].cmd, s, n)
    <3>1. c \in Cells /\ c.stream = s
      BY <2>1 DEF Addressed, Cell, Cells
    <3> HIDE DEF c
    <3>2. up' = Append(up, c)
      BY <2>3 DEF c
    <3>3. (i \in DOMAIN up /\ up'[i] = up[i]) \/ up'[i] = c
      BY <3>1, <3>2, <1>1, AppendIs DEF FlowTyped
    <3>4. QED BY <1>1, <3>1, <3>3 DEF CellsAddressed
  <2>4. QED BY <2>1, <2>2, <2>3
<1>2. ASSUME NEW i \in DOMAIN down', down'[i].cmd # "sendme" PROVE down'[i].stream \in Streams
  <2>1. down'[i].cmd \in Addressed
    <3>1. down' \in Seq(Cells)
      BY DEF FlowTyped
    <3>2. down'[i] \in Cells
      BY <1>2, <3>1
    <3>3. QED BY <1>2, <3>2 DEF Cells, Addressed
  <2>2. CASE DownFrom(down'[i].cmd)
    BY <1>2, <2>2 DEF DownFrom, CellsAddressed
  <2>3. ASSUME NEW s \in Streams, NEW n \in Nat, down' = Append(down, Cell(down'[i].cmd, s, n)) PROVE down'[i].stream \in Streams
    <3> DEFINE c == Cell(down'[i].cmd, s, n)
    <3>1. c \in Cells /\ c.stream = s
      BY <2>1 DEF Addressed, Cell, Cells
    <3> HIDE DEF c
    <3>2. down' = Append(down, c)
      BY <2>3 DEF c
    <3>3. (i \in DOMAIN down /\ down'[i] = down[i]) \/ down'[i] = c
      BY <3>1, <3>2, <1>2, AppendIs DEF FlowTyped
    <3>4. QED BY <1>2, <3>1, <3>3 DEF CellsAddressed
  <2>4. QED BY <2>1, <2>2, <2>3
<1>3. QED BY <1>1, <1>2 DEF CellsAddressed

\* What each action does to the two channels.
LEMMA Moves ==
  ASSUME FlowTyped, CellsAddressed
  PROVE  /\ \A s \in Streams :
              /\ StreamOpen(s) => \A cmd : UpHolds(cmd) /\ (cmd # "begin" => UpFrom(cmd)) /\ DownFrom(cmd)
              /\ SendStreamRelay(s) => \A cmd : UpHolds(cmd) /\ (cmd # "data" => UpFrom(cmd)) /\ DownFrom(cmd)
              /\ StreamClose(s) => \A cmd : UpHolds(cmd) /\ (cmd # "end" => UpFrom(cmd)) /\ DownFrom(cmd)
              /\ TakeStreamSlot(s) \/ TakeCircSlot(s) \/ AppRead(s) =>
                   \A cmd : UpHolds(cmd) /\ UpFrom(cmd) /\ DownFrom(cmd)
              /\ Pump(s) => \A cmd : UpHolds(cmd) /\ UpFrom(cmd) /\ (cmd # "data" => DownFrom(cmd))
              /\ StreamPumpEnds(s) => \A cmd : UpHolds(cmd) /\ UpFrom(cmd) /\ (cmd # "end" => DownFrom(cmd))
         /\ ClientRecv => 1 \in DOMAIN down /\ Head(down) = down[1] /\ Head(down) \in Cells
         /\ ExitRecv => 1 \in DOMAIN up /\ Head(up) = up[1] /\ Head(up) \in Cells
         /\ ClientRecvData => \A cmd : UpHolds(cmd) /\ (cmd # "sendme" => UpFrom(cmd)) /\ DownFrom(cmd)
         /\ ClientRecvSendme \/ ClientRecvControl => \A cmd : UpHolds(cmd) /\ UpFrom(cmd) /\ DownFrom(cmd)
         /\ \A b \in BOOLEAN : ExitRecvBegin(b) =>
              \A cmd : (cmd # "begin" => UpHolds(cmd)) /\ UpFrom(cmd)
                       /\ (cmd # (IF b THEN "connected" ELSE "end") => DownFrom(cmd))
         /\ ExitRecvData => \A cmd : (cmd # "data" => UpHolds(cmd)) /\ UpFrom(cmd) /\ (cmd # "sendme" => DownFrom(cmd))
         /\ ExitRecvSendme => \A cmd : (cmd # "sendme" => UpHolds(cmd)) /\ UpFrom(cmd) /\ DownFrom(cmd)
         /\ ExitRecvEnd => \A cmd : (cmd # "end" => UpHolds(cmd)) /\ UpFrom(cmd) /\ DownFrom(cmd)
<1>0. \A s \in Streams, n \in Nat : \A cmd \in Addressed : Cell(cmd, s, n) \in Cells /\ Cell(cmd, s, n).cmd = cmd
  BY DEF Cell, Cells, Addressed
<1>1. ASSUME NEW s \in Streams, StreamOpen(s)
      PROVE  \A cmd : UpHolds(cmd) /\ (cmd # "begin" => UpFrom(cmd)) /\ DownFrom(cmd)
  BY <1>0, <1>1, UpAppended, DownMoves DEF StreamOpen, Addressed
<1>2. ASSUME NEW s \in Streams, SendStreamRelay(s)
      PROVE  \A cmd : UpHolds(cmd) /\ (cmd # "data" => UpFrom(cmd)) /\ DownFrom(cmd)
  <2>1. client[s].sent + 1 \in Nat
    BY DEF FlowTyped, ClientStreams
  <2>2. QED BY <1>0, <1>2, <2>1, UpAppended, DownMoves DEF SendStreamRelay, Addressed
<1>3. ASSUME NEW s \in Streams, StreamClose(s)
      PROVE  \A cmd : UpHolds(cmd) /\ (cmd # "end" => UpFrom(cmd)) /\ DownFrom(cmd)
  BY <1>0, <1>3, UpAppended, DownMoves DEF StreamClose, Addressed
<1>4. ASSUME NEW s \in Streams, TakeStreamSlot(s) \/ TakeCircSlot(s) \/ AppRead(s)
      PROVE  \A cmd : UpHolds(cmd) /\ UpFrom(cmd) /\ DownFrom(cmd)
  BY <1>4, UpSame, DownMoves DEF TakeStreamSlot, TakeCircSlot, AppRead
<1>5. ASSUME NEW s \in Streams, Pump(s)
      PROVE  \A cmd : UpHolds(cmd) /\ UpFrom(cmd) /\ (cmd # "data" => DownFrom(cmd))
  <2>1. exit[s].sent + 1 \in Nat
    BY DEF FlowTyped, ExitStreamStates
  <2>2. QED BY <1>0, <1>5, <2>1, UpSame, DownMoves DEF Pump, Addressed
<1>6. ASSUME NEW s \in Streams, StreamPumpEnds(s)
      PROVE  \A cmd : UpHolds(cmd) /\ UpFrom(cmd) /\ (cmd # "end" => DownFrom(cmd))
  BY <1>0, <1>6, UpSame, DownMoves DEF StreamPumpEnds, Addressed
<1>7. ASSUME ClientRecv PROVE 1 \in DOMAIN down /\ Head(down) = down[1] /\ Head(down) \in Cells
  BY <1>7, DownMoves DEF ClientRecv, ClientRecvData, ClientRecvSendme, ClientRecvControl
<1>8. ASSUME ExitRecv PROVE 1 \in DOMAIN up /\ Head(up) = up[1] /\ Head(up) \in Cells
  BY <1>8, UpTaken DEF ExitRecv, ExitRecvBegin, ExitRecvData, ExitRecvSendme, ExitRecvEnd
<1>9. ASSUME ClientRecvData
      PROVE  \A cmd : UpHolds(cmd) /\ (cmd # "sendme" => UpFrom(cmd)) /\ DownFrom(cmd)
  <2>1. BatchDone(Head(down).stream) \in BOOLEAN /\ Due(flowOrigin) \in BOOLEAN
    BY DEF BatchDone, Due
  <2>2. /\ up' = up \o Sendmes(BatchDone(Head(down).stream)) \o Sendmes(Due(flowOrigin))
        /\ down # <<>> /\ down' = Tail(down)
    BY <1>9 DEF ClientRecvData
  <2>3. QED BY <2>1, <2>2, UpAnswered, DownMoves
<1>10. ASSUME ClientRecvSendme \/ ClientRecvControl PROVE \A cmd : UpHolds(cmd) /\ UpFrom(cmd) /\ DownFrom(cmd)
  BY <1>10, UpSame, DownMoves DEF ClientRecvSendme, ClientRecvControl
<1>11. ASSUME NEW b \in BOOLEAN, ExitRecvBegin(b), NEW cmd
       PROVE  (cmd # "begin" => UpHolds(cmd)) /\ UpFrom(cmd) /\ (cmd # (IF b THEN "connected" ELSE "end") => DownFrom(cmd))
  <2>1. Head(up).stream \in Streams
    BY <1>8, <1>11 DEF ExitRecv, ExitRecvBegin, CellsAddressed
  <2>2. (IF b THEN "connected" ELSE "end") \in Addressed
    BY DEF Addressed
  <2> DEFINE c == Cell(IF b THEN "connected" ELSE "end", Head(up).stream, 0)
  <2>3. c \in Cells /\ c.cmd = (IF b THEN "connected" ELSE "end")
    BY <1>0, <2>1, <2>2
  <2>4. up # <<>> /\ up' = Tail(up) /\ Head(up).cmd = "begin" /\ down' = Append(down, c)
    BY <1>11 DEF ExitRecvBegin
  <2> HIDE DEF c
  <2>5. (cmd # "begin" => UpHolds(cmd)) /\ UpFrom(cmd)
    BY <2>4, UpTaken
  <2>6. cmd # (IF b THEN "connected" ELSE "end") => DownFrom(cmd)
    BY <2>3, <2>4, DownMoves
  <2>7. QED BY <2>5, <2>6
<1>12. ASSUME ExitRecvData, NEW cmd
       PROVE  (cmd # "data" => UpHolds(cmd)) /\ UpFrom(cmd) /\ (cmd # "sendme" => DownFrom(cmd))
  <2>1. Due(relay) \in BOOLEAN
    BY DEF Due
  <2>2. QED BY <1>12, <2>1, UpTaken, DownMoves DEF ExitRecvData
<1>13. ASSUME ExitRecvSendme, NEW cmd PROVE (cmd # "sendme" => UpHolds(cmd)) /\ UpFrom(cmd) /\ DownFrom(cmd)
  BY <1>13, UpTaken, DownMoves DEF ExitRecvSendme
<1>14. ASSUME ExitRecvEnd, NEW cmd PROVE (cmd # "end" => UpHolds(cmd)) /\ UpFrom(cmd) /\ DownFrom(cmd)
  BY <1>14, UpTaken, DownMoves DEF ExitRecvEnd
<1>15. QED BY <1>1, <1>2, <1>3, <1>4, <1>5, <1>6, <1>7, <1>8, <1>9, <1>10, <1>11, <1>12, <1>13, <1>14

\* Every step keeps CellsAddressed,
LEMMA CellsStayAddressed == ASSUME FlowTyped, CellsAddressed, FlowNext PROVE CellsAddressed'
<1>0. FlowTyped'
  BY FlowTypesHold
<1> DEFINE UpOk == \A cmd \in Addressed :
             UpFrom(cmd) \/ (\E s \in Streams, n \in Nat : up' = Append(up, Cell(cmd, s, n)))
           DownOk == \A cmd \in Addressed :
             DownFrom(cmd) \/ (\E s \in Streams, n \in Nat : down' = Append(down, Cell(cmd, s, n)))
<1>1. SUFFICES UpOk /\ DownOk
  BY <1>0, StreamsStayAddressed
<1>2. ASSUME NEW s \in Streams, StreamOpen(s) PROVE UpOk /\ DownOk
  BY <1>2, Moves DEF StreamOpen
<1>3. ASSUME NEW s \in Streams, SendStreamRelay(s) PROVE UpOk /\ DownOk
  <2>1. client[s].sent + 1 \in Nat
    BY DEF FlowTyped, ClientStreams
  <2>2. QED BY <1>3, <2>1, Moves DEF SendStreamRelay
<1>4. ASSUME NEW s \in Streams, StreamClose(s) PROVE UpOk /\ DownOk
  BY <1>4, Moves DEF StreamClose
<1>5. ASSUME NEW s \in Streams, TakeStreamSlot(s) \/ TakeCircSlot(s) \/ AppRead(s) PROVE UpOk /\ DownOk
  BY <1>5, Moves
<1>6. ASSUME NEW s \in Streams, Pump(s) PROVE UpOk /\ DownOk
  <2>1. exit[s].sent + 1 \in Nat
    BY DEF FlowTyped, ExitStreamStates
  <2>2. QED BY <1>6, <2>1, Moves DEF Pump
<1>7. ASSUME NEW s \in Streams, StreamPumpEnds(s) PROVE UpOk /\ DownOk
  BY <1>7, Moves DEF StreamPumpEnds
<1>8. ASSUME ClientRecv PROVE UpOk /\ DownOk
  BY <1>8, Moves DEF ClientRecv, Addressed
<1>9. ASSUME NEW b \in BOOLEAN, ExitRecvBegin(b) PROVE UpOk /\ DownOk
  <2>1. Head(up).stream \in Streams
    BY <1>9, Moves DEF ExitRecv, ExitRecvBegin, CellsAddressed
  <2>2. QED BY <1>9, <2>1, Moves DEF ExitRecvBegin
<1>10. ASSUME ExitRecvData \/ ExitRecvSendme \/ ExitRecvEnd PROVE UpOk /\ DownOk
  BY <1>10, Moves DEF Addressed
<1>11. QED BY <1>2, <1>3, <1>4, <1>5, <1>6, <1>7, <1>8, <1>9, <1>10 DEF FlowNext, ExitRecv

\* A step that begins no stream and tells the exit of none.
LEMMA BegunFrame ==
  ASSUME FlowTyped, FlowTyped', CellsAddressed, BegunOnce, UpFrom("begin"),
         \A s \in Streams : client'[s].state = "none" => client[s].state = "none",
         \A s \in Streams : exit[s].state = "none" => exit'[s].state = "none"
  PROVE  BegunOnce'
<1>1. PICK k \in {0, 1} : \A i \in DOMAIN up' :
        i \in Nat /\ (up'[i].cmd = "begin" => i + k \in DOMAIN up /\ up'[i] = up[i + k])
  BY DEF UpFrom
<1>2. ASSUME NEW i \in DOMAIN up', up'[i].cmd = "begin"
      PROVE  i \in Nat /\ i + k \in DOMAIN up /\ up'[i] = up[i + k] /\ up[i + k].cmd = "begin"
             /\ up[i + k].stream \in Streams
  BY <1>1, <1>2 DEF CellsAddressed
<1>3. ASSUME NEW s \in Streams, client'[s].state = "none"
      PROVE  exit'[s].state = "none" /\ \A i \in DOMAIN up' : up'[i].cmd = "begin" => up'[i].stream # s
  BY <1>2, <1>3 DEF BegunOnce
<1>4. ASSUME NEW i \in DOMAIN up', up'[i].cmd = "begin"
      PROVE  /\ exit'[up'[i].stream].state = "none"
             /\ \A j \in DOMAIN up' \ {i} : up'[j].cmd = "begin" => up'[j].stream # up'[i].stream
  <2>1. exit'[up'[i].stream].state = "none"
    BY <1>2, <1>4 DEF BegunOnce
  <2>2. ASSUME NEW j \in DOMAIN up', j # i, up'[j].cmd = "begin" PROVE up'[j].stream # up'[i].stream
    <3>1. j + k # i + k
      BY <1>2, <1>4, <2>2
    <3>2. j + k \in DOMAIN up \ {i + k} /\ up[j + k].cmd = "begin"
      BY <1>2, <2>2, <3>1
    <3>3. up[j + k].stream # up[i + k].stream
      BY <1>2, <1>4, <3>2 DEF BegunOnce
    <3>4. QED BY <1>2, <1>4, <2>2, <3>3
  <2>3. QED BY <2>1, <2>2
<1>5. QED BY <1>3, <1>4 DEF BegunOnce

\* DATA for the client changes no stream's state and nothing it has sent.
LEMMA DataKept ==
  ASSUME FlowTyped, ClientRecvData
  PROVE  \A t \in Streams : client'[t].state = client[t].state /\ client'[t].sent = client[t].sent
<1> DEFINE s == Head(down).stream
<1>1. client \in [Streams -> ClientStreams]
  BY DEF FlowTyped
<1>2. \/ client' = client
      \/ \E q, d : client' = [client EXCEPT ![s].queued = q, ![s].delivered = d]
  BY DEF ClientRecvData
<1> HIDE DEF s
<1>3. ASSUME NEW q, NEW d, client' = [client EXCEPT ![s].queued = q, ![s].delivered = d], NEW t \in Streams
      PROVE  client'[t].state = client[t].state /\ client'[t].sent = client[t].sent
  <2>1. client'[t] = IF t = s THEN [[client[t] EXCEPT !.queued = q] EXCEPT !.delivered = d] ELSE client[t]
    BY <1>1, <1>3
  <2>2. client[t] \in ClientStreams
    BY <1>1
  <2>3. QED BY <2>1, <2>2 DEF ClientStreams
<1>4. QED BY <1>2, <1>3

\* BegunOnce,
LEMMA BegunStaysOnce == ASSUME FlowTyped, CellsAddressed, BegunOnce, FlowNext PROVE BegunOnce'
<1>0. FlowTyped'
  BY FlowTypesHold
<1>t. /\ client \in [Streams -> ClientStreams] /\ exit \in [Streams -> ExitStreamStates]
  BY DEF FlowTyped
<1>1. ASSUME NEW s \in Streams, StreamOpen(s) PROVE BegunOnce'
  <2> DEFINE c == Cell("begin", s, 0)
  <2>1. c \in Cells /\ c.cmd = "begin" /\ c.stream = s /\ up' = Append(up, c)
    BY <1>1 DEF StreamOpen, Cell, Cells
  <2> HIDE DEF c
  <2>2. /\ DOMAIN up' = 1 .. Len(up) + 1 /\ up'[Len(up) + 1] = c /\ DOMAIN up = 1 .. Len(up)
        /\ \A i \in 1 .. Len(up) : up'[i] = up[i]
        /\ \A i \in 1 .. Len(up) + 1 : i \in 1 .. Len(up) \/ i = Len(up) + 1
    BY <2>1, AppendIs DEF FlowTyped
  <2>3. /\ exit' = exit /\ client[s].state = "none" /\ client'[s].state = "connecting"
        /\ \A t \in Streams \ {s} : client'[t] = client[t]
    BY <1>1, <1>t DEF StreamOpen, ClientStreams
  <2>4. exit[s].state = "none" /\ \A i \in DOMAIN up : up[i].cmd = "begin" => up[i].stream # s
    BY <2>3 DEF BegunOnce
  <2>5. ASSUME NEW t \in Streams, client'[t].state = "none"
        PROVE  exit'[t].state = "none" /\ \A i \in DOMAIN up' : up'[i].cmd = "begin" => up'[i].stream # t
    <3>1. t # s /\ client[t].state = "none"
      BY <2>3, <2>5
    <3>2. exit[t].state = "none" /\ \A i \in DOMAIN up : up[i].cmd = "begin" => up[i].stream # t
      BY <3>1 DEF BegunOnce
    <3>3. QED BY <2>1, <2>2, <2>3, <3>1, <3>2
  <2>6. ASSUME NEW i \in DOMAIN up', up'[i].cmd = "begin"
        PROVE  /\ exit'[up'[i].stream].state = "none"
               /\ \A j \in DOMAIN up' \ {i} : up'[j].cmd = "begin" => up'[j].stream # up'[i].stream
    <3>1. CASE i = Len(up) + 1
      <4>1. \A j \in DOMAIN up' \ {i} : j \in DOMAIN up /\ up'[j] = up[j]
        BY <2>2, <3>1
      <4>2. QED BY <2>1, <2>2, <2>3, <2>4, <3>1, <4>1
    <3>2. CASE i \in DOMAIN up
      <4>1. up'[i] = up[i] /\ up[i].cmd = "begin"
        BY <2>2, <2>6, <3>2
      <4>2. exit[up[i].stream].state = "none" /\ up[i].stream # s
        BY <2>4, <3>2, <4>1 DEF BegunOnce
      <4>3. ASSUME NEW j \in DOMAIN up' \ {i}, up'[j].cmd = "begin" PROVE up'[j].stream # up'[i].stream
        <5>1. CASE j = Len(up) + 1
          BY <2>1, <2>2, <4>1, <4>2, <5>1
        <5>2. CASE j \in DOMAIN up
          <6>1. up'[j] = up[j]
            BY <2>2, <5>2
          <6>2. QED BY <3>2, <4>1, <4>3, <5>2, <6>1 DEF BegunOnce
        <5>3. QED BY <2>2, <4>3, <5>1, <5>2
      <4>4. QED BY <2>3, <4>1, <4>2, <4>3
    <3>3. QED BY <2>2, <2>6, <3>1, <3>2
  <2>7. QED BY <2>5, <2>6 DEF BegunOnce
<1>2. ASSUME NEW s \in Streams,
             TakeStreamSlot(s) \/ TakeCircSlot(s) \/ SendStreamRelay(s) \/ StreamClose(s) \/ AppRead(s)
      PROVE  BegunOnce'
  <2>1. exit' = exit /\ UpFrom("begin")
    BY <1>2, Moves DEF TakeStreamSlot, TakeCircSlot, SendStreamRelay, StreamClose, AppRead
  <2>2. \A t \in Streams : client'[t].state = "none" => client[t].state = "none"
    BY <1>2, <1>t DEF TakeStreamSlot, TakeCircSlot, SendStreamRelay, StreamClose, AppRead, ClientStreams
  <2>3. QED BY <1>0, <2>1, <2>2, BegunFrame
<1>3. ASSUME NEW s \in Streams, Pump(s) PROVE BegunOnce'
  <2>1. client' = client /\ UpFrom("begin")
    BY <1>3, Moves DEF Pump
  <2>2. \A t \in Streams : exit'[t].state = exit[t].state
    BY <1>3, <1>t DEF Pump, ExitStreamStates
  <2>3. QED BY <1>0, <2>1, <2>2, BegunFrame
<1>4. ASSUME NEW s \in Streams, StreamPumpEnds(s) PROVE BegunOnce'
  <2>1. client' = client /\ UpFrom("begin")
    BY <1>4, Moves DEF StreamPumpEnds
  <2>2. \A t \in Streams : exit[t].state = "none" => exit'[t].state = "none"
    BY <1>4, <1>t DEF StreamPumpEnds, ExitStreamStates
  <2>3. QED BY <1>0, <2>1, <2>2, BegunFrame
<1>5. ASSUME ClientRecv PROVE BegunOnce'
  <2>1. exit' = exit /\ UpFrom("begin")
    BY <1>5, Moves DEF ClientRecv, ClientRecvData, ClientRecvSendme, ClientRecvControl
  <2>2. \A t \in Streams : client'[t].state = "none" => client[t].state = "none"
    <3>1. CASE ClientRecvData
      BY <3>1, DataKept
    <3>2. CASE ClientRecvSendme
      BY <3>2 DEF ClientRecvSendme
    <3>3. CASE ClientRecvControl
      BY <3>3, <1>t DEF ClientRecvControl, ClientStreams
    <3>4. QED BY <1>5, <3>1, <3>2, <3>3 DEF ClientRecv
  <2>3. QED BY <1>0, <2>1, <2>2, BegunFrame
<1>6. ASSUME NEW b \in BOOLEAN, ExitRecvBegin(b) PROVE BegunOnce'
  <2> DEFINE s == Head(up).stream
  <2>1. /\ 1 \in DOMAIN up /\ Head(up) = up[1] /\ up[1].cmd = "begin" /\ s \in Streams
    BY <1>6, Moves DEF ExitRecv, ExitRecvBegin, CellsAddressed
  <2>2. /\ DOMAIN up' = 1 .. Len(up) - 1 /\ Len(up) \in Nat
        /\ \A i \in 1 .. Len(up) - 1 : up'[i] = up[i + 1] /\ i + 1 \in DOMAIN up
    BY <1>6, TailIs DEF ExitRecvBegin, FlowTyped
  <2>3. \A i \in 1 .. Len(up) - 1 : i + 1 # 1 /\ i \in Nat
    OBVIOUS
  <2>4. client' = client /\ \A t \in Streams \ {s} : exit'[t] = exit[t]
    BY <1>6, <1>t DEF ExitRecvBegin
  <2>5. client[s].state # "none" /\ \A i \in DOMAIN up \ {1} : up[i].cmd = "begin" => up[i].stream # s
    BY <2>1 DEF BegunOnce
  <2> HIDE DEF s
  <2>6. ASSUME NEW t \in Streams, client'[t].state = "none"
        PROVE  exit'[t].state = "none" /\ \A i \in DOMAIN up' : up'[i].cmd = "begin" => up'[i].stream # t
    BY <2>2, <2>4, <2>5, <2>6 DEF BegunOnce
  <2>7. ASSUME NEW i \in DOMAIN up', up'[i].cmd = "begin"
        PROVE  /\ exit'[up'[i].stream].state = "none"
               /\ \A j \in DOMAIN up' \ {i} : up'[j].cmd = "begin" => up'[j].stream # up'[i].stream
    <3>1. up'[i] = up[i + 1] /\ i + 1 \in DOMAIN up \ {1} /\ up[i + 1].cmd = "begin" /\ i \in Nat
      BY <2>2, <2>3, <2>7
    <3>2. up[i + 1].stream # s /\ up[i + 1].stream \in Streams
      BY <2>5, <3>1 DEF CellsAddressed
    <3>3. exit'[up'[i].stream].state = "none"
      BY <2>4, <3>1, <3>2 DEF BegunOnce
    <3>4. ASSUME NEW j \in DOMAIN up', j # i, up'[j].cmd = "begin" PROVE up'[j].stream # up'[i].stream
      <4>1. up'[j] = up[j + 1] /\ j + 1 \in DOMAIN up /\ up[j + 1].cmd = "begin" /\ j \in Nat
        BY <2>2, <2>3, <3>4
      <4>2. j + 1 # i + 1
        BY <3>1, <3>4, <4>1
      <4>3. QED BY <3>1, <4>1, <4>2 DEF BegunOnce
    <3>5. QED BY <3>3, <3>4
  <2>8. QED BY <2>6, <2>7 DEF BegunOnce
<1>7. ASSUME ExitRecvData \/ ExitRecvSendme \/ ExitRecvEnd PROVE BegunOnce'
  <2>1. client' = client /\ exit' = exit /\ UpFrom("begin")
    BY <1>7, Moves DEF ExitRecvData, ExitRecvSendme, ExitRecvEnd
  <2>2. QED BY <1>0, <2>1, BegunFrame
<1>8. QED BY <1>1, <1>2, <1>3, <1>4, <1>5, <1>6, <1>7 DEF FlowNext, ExitRecv

\* and UnheardIsQuiet.
LEMMA UnheardStaysQuiet ==
  ASSUME FlowTyped, CellsAddressed, BegunOnce, UnheardIsQuiet, FlowNext PROVE UnheardIsQuiet'
<1>0. FlowTyped'
  BY FlowTypesHold
<1>t. /\ client \in [Streams -> ClientStreams] /\ exit \in [Streams -> ExitStreamStates]
      /\ writer \in [Streams -> {"idle", "slot", "granted"}] /\ gotUp \in [Streams -> Seq(Nat)]
  BY DEF FlowTyped
<1> DEFINE Quiet(t) == /\ t \notin exitWriter /\ gotUp[t] = <<>> /\ client[t].sent = 0
                       /\ writer[t] = "idle" /\ client[t].state # "open"
           NoData(t) == \A i \in DOMAIN up : ~ IsData(up[i], t)
           NoConnected(t) == \A i \in DOMAIN down : down[i].cmd = "connected" => down[i].stream # t
<1>q. \A t \in Streams : exit[t].state = "none" => Quiet(t) /\ NoData(t) /\ NoConnected(t)
  BY DEF UnheardIsQuiet
<1>d. ASSUME UpFrom("data"), NEW t \in Streams, NoData(t) PROVE NoData(t)'
  <2>1. PICK k \in {0, 1} : \A i \in DOMAIN up' :
          i \in Nat /\ (up'[i].cmd = "data" => i + k \in DOMAIN up /\ up'[i] = up[i + k])
    BY <1>d DEF UpFrom
  <2>2. QED BY <1>d, <2>1 DEF IsData
<1>c. ASSUME DownFrom("connected"), NEW t \in Streams, NoConnected(t) PROVE NoConnected(t)'
  BY <1>c DEF DownFrom
<1>u. SUFFICES ASSUME NEW t \in Streams, exit'[t].state = "none"
               PROVE  Quiet(t)' /\ NoData(t)' /\ NoConnected(t)'
  BY DEF UnheardIsQuiet
<1>n. ASSUME exit[t].state = "none" PROVE Quiet(t) /\ NoData(t) /\ NoConnected(t)
  BY <1>q, <1>n
<1>1. ASSUME NEW s \in Streams, StreamOpen(s) PROVE Quiet(t)' /\ NoData(t)' /\ NoConnected(t)'
  <2>1. NoData(t)' /\ NoConnected(t)'
    <3>1. UpFrom("data") /\ DownFrom("connected") /\ exit' = exit
      BY <1>1, Moves DEF StreamOpen
    <3>2. QED BY <1>c, <1>d, <1>n, <1>u, <3>1
  <2>2. Quiet(t)'
    BY <1>1, <1>t, <1>u, <1>n DEF StreamOpen, ClientStreams
  <2>3. QED BY <2>1, <2>2
<1>2. ASSUME NEW s \in Streams, TakeStreamSlot(s) PROVE Quiet(t)' /\ NoData(t)' /\ NoConnected(t)'
  <2>1. NoData(t)' /\ NoConnected(t)'
    <3>1. UpFrom("data") /\ DownFrom("connected") /\ exit' = exit
      BY <1>2, Moves DEF TakeStreamSlot
    <3>2. QED BY <1>c, <1>d, <1>n, <1>u, <3>1
  <2>2. Quiet(t)'
    <3>1. exit[t].state = "none" /\ client[s].state = "open"
      BY <1>2, <1>u DEF TakeStreamSlot
    <3>2. t # s
      BY <3>1, <1>n
    <3>3. QED BY <1>2, <1>t, <1>n, <3>1, <3>2 DEF TakeStreamSlot
  <2>3. QED BY <2>1, <2>2
<1>3. ASSUME NEW s \in Streams, TakeCircSlot(s) PROVE Quiet(t)' /\ NoData(t)' /\ NoConnected(t)'
  <2>1. NoData(t)' /\ NoConnected(t)'
    <3>1. UpFrom("data") /\ DownFrom("connected") /\ exit' = exit
      BY <1>3, Moves DEF TakeCircSlot
    <3>2. QED BY <1>c, <1>d, <1>n, <1>u, <3>1
  <2>2. Quiet(t)'
    <3>1. exit[t].state = "none" /\ writer[s] = "slot"
      BY <1>3, <1>u DEF TakeCircSlot
    <3>2. t # s
      BY <3>1, <1>n
    <3>3. QED BY <1>3, <1>t, <1>n, <3>1, <3>2 DEF TakeCircSlot
  <2>3. QED BY <2>1, <2>2
<1>4. ASSUME NEW s \in Streams, SendStreamRelay(s) PROVE Quiet(t)' /\ NoData(t)' /\ NoConnected(t)'
  <2>1. exit[t].state = "none" /\ writer[s] = "granted" /\ DownFrom("connected")
    BY <1>4, <1>u, Moves DEF SendStreamRelay
  <2>2. t # s
    BY <2>1, <1>n
  <2>3. Quiet(t)' /\ NoConnected(t)'
    BY <1>4, <1>t, <1>n, <1>c, <2>1, <2>2 DEF SendStreamRelay
  <2>4. NoData(t)'
    <3> DEFINE c == Cell("data", s, client[s].sent + 1)
    <3>1. c \in Cells /\ c.stream = s /\ up' = Append(up, c)
      <4>1. client[s].sent + 1 \in Nat
        BY <1>t DEF ClientStreams
      <4>2. QED BY <1>4, <4>1 DEF SendStreamRelay, Cell, Cells
    <3> HIDE DEF c
    <3>2. \A i \in DOMAIN up' : (i \in DOMAIN up /\ up'[i] = up[i]) \/ up'[i] = c
      BY <3>1, AppendIs DEF FlowTyped
    <3>3. QED BY <1>n, <2>1, <2>2, <3>1, <3>2 DEF IsData
  <2>5. QED BY <2>3, <2>4
<1>5. ASSUME NEW s \in Streams, StreamClose(s) \/ AppRead(s) PROVE Quiet(t)' /\ NoData(t)' /\ NoConnected(t)'
  <2>1. NoData(t)' /\ NoConnected(t)'
    <3>1. UpFrom("data") /\ DownFrom("connected") /\ exit' = exit
      BY <1>5, Moves DEF StreamClose, AppRead
    <3>2. QED BY <1>c, <1>d, <1>n, <1>u, <3>1
  <2>2. Quiet(t)'
    <3>1. exit[t].state = "none"
      BY <1>5, <1>u DEF StreamClose, AppRead
    <3>2. CASE StreamClose(s)
      BY <3>2, <1>t, <1>n, <3>1 DEF StreamClose, ClientStreams
    <3>3. CASE AppRead(s)
      BY <3>3, <1>t, <1>n, <3>1 DEF AppRead, ClientStreams
    <3>4. QED BY <1>5, <3>2, <3>3
  <2>3. QED BY <2>1, <2>2
<1>6. ASSUME NEW s \in Streams, Pump(s) PROVE Quiet(t)' /\ NoData(t)' /\ NoConnected(t)'
  <2>1. exit[t].state = "none"
    BY <1>6, <1>t, <1>u DEF Pump, ExitStreamStates
  <2>2. UpFrom("data") /\ DownFrom("connected")
    BY <1>6, Moves
  <2>3. Quiet(t)'
    BY <1>6, <1>n, <2>1 DEF Pump
  <2>4. QED BY <1>c, <1>d, <1>n, <2>1, <2>2, <2>3
<1>7. ASSUME NEW s \in Streams, StreamPumpEnds(s) PROVE Quiet(t)' /\ NoData(t)' /\ NoConnected(t)'
  <2>1. exit[t].state = "none"
    BY <1>7, <1>t, <1>u DEF StreamPumpEnds, ExitStreamStates
  <2>2. UpFrom("data") /\ DownFrom("connected")
    BY <1>7, Moves
  <2>3. Quiet(t)'
    BY <1>7, <1>n, <2>1 DEF StreamPumpEnds
  <2>4. QED BY <1>c, <1>d, <1>n, <2>1, <2>2, <2>3
<1>8. ASSUME ClientRecv PROVE Quiet(t)' /\ NoData(t)' /\ NoConnected(t)'
  <2>1. /\ exit[t].state = "none" /\ UpFrom("data") /\ DownFrom("connected")
        /\ writer' = writer /\ exitWriter' = exitWriter /\ gotUp' = gotUp
    BY <1>8, <1>u, Moves DEF ClientRecv, ClientRecvData, ClientRecvSendme, ClientRecvControl
  <2>2. client'[t].sent = client[t].sent /\ client'[t].state # "open"
    <3>1. CASE ClientRecvData
      BY <3>1, <1>n, <2>1, DataKept
    <3>2. CASE ClientRecvSendme
      BY <3>2, <1>n, <2>1 DEF ClientRecvSendme
    <3>3. CASE ClientRecvControl
      <4> DEFINE s == Head(down).stream
                 v == IF Head(down).cmd = "end" THEN "removed"
                      ELSE IF client[s].state = "connecting" THEN "open" ELSE client[s].state
      <4>1. /\ 1 \in DOMAIN down /\ Head(down) = down[1] /\ Head(down).cmd \in {"connected", "end"}
            /\ s \in Streams
        BY <1>8, <3>3, Moves DEF ClientRecvControl, CellsAddressed
      <4>2. client' = [client EXCEPT ![s].state = v]
        BY <1>t, <3>3, <4>1 DEF ClientRecvControl
      <4>3. t = s => v = "removed"
        BY <1>n, <2>1, <4>1
      <4> HIDE DEF s, v
      <4>4. QED BY <1>t, <1>n, <2>1, <4>1, <4>2, <4>3 DEF ClientStreams
    <3>4. QED BY <1>8, <3>1, <3>2, <3>3 DEF ClientRecv
  <2>3. QED BY <1>c, <1>d, <1>n, <2>1, <2>2
<1>9. ASSUME NEW b \in BOOLEAN, ExitRecvBegin(b) PROVE Quiet(t)' /\ NoData(t)' /\ NoConnected(t)'
  <2> DEFINE s == Head(up).stream
  <2>1. /\ 1 \in DOMAIN up /\ Head(up) = up[1] /\ up[1].cmd = "begin" /\ s \in Streams /\ UpFrom("data")
    BY <1>9, Moves DEF ExitRecv, ExitRecvBegin, CellsAddressed
  <2>2. /\ exit' = [exit EXCEPT ![s].state = IF b THEN "open" ELSE "ended"]
        /\ exitWriter' \subseteq exitWriter \cup {s} /\ UNCHANGED <<client, writer, gotUp>>
        /\ down' = Append(down, Cell(IF b THEN "connected" ELSE "end", s, 0))
    BY <1>9 DEF ExitRecvBegin
  <2> HIDE DEF s
  <2>3. t # s /\ exit[t].state = "none"
    BY <1>t, <1>u, <2>1, <2>2 DEF ExitStreamStates
  <2>4. Quiet(t)' /\ NoData(t)'
    BY <1>d, <1>n, <2>1, <2>2, <2>3
  <2>5. NoConnected(t)'
    <3> DEFINE c == Cell(IF b THEN "connected" ELSE "end", s, 0)
    <3>1. c \in Cells /\ c.stream = s /\ down' = Append(down, c)
      BY <2>1, <2>2 DEF Cell, Cells
    <3> HIDE DEF c
    <3>2. \A i \in DOMAIN down' : (i \in DOMAIN down /\ down'[i] = down[i]) \/ down'[i] = c
      BY <3>1, AppendIs DEF FlowTyped
    <3>3. QED BY <1>n, <2>3, <3>1, <3>2
  <2>6. QED BY <2>4, <2>5
<1>10. ASSUME ExitRecvData PROVE Quiet(t)' /\ NoData(t)' /\ NoConnected(t)'
  <2> DEFINE s == Head(up).stream
  <2>1. /\ 1 \in DOMAIN up /\ Head(up) = up[1] /\ up[1].cmd = "data" /\ s \in Streams
        /\ UpFrom("data") /\ DownFrom("connected") /\ exit[t].state = "none"
    BY <1>10, <1>u, Moves DEF ExitRecv, ExitRecvData, CellsAddressed
  <2>2. /\ gotUp' = gotUp \/ gotUp' = [gotUp EXCEPT ![s] = Append(@, Head(up).n)]
        /\ UNCHANGED <<client, writer, exitWriter>>
    BY <1>10 DEF ExitRecvData
  <2>3. t # s
    BY <1>n, <2>1 DEF IsData
  <2> HIDE DEF s
  <2>4. gotUp'[t] = gotUp[t]
    BY <1>t, <2>2, <2>3
  <2>5. QED BY <1>c, <1>d, <1>n, <2>1, <2>2, <2>4
<1>11. ASSUME ExitRecvSendme \/ ExitRecvEnd PROVE Quiet(t)' /\ NoData(t)' /\ NoConnected(t)'
  <2>1. /\ UpFrom("data") /\ DownFrom("connected") /\ exit' = exit
        /\ exitWriter' \subseteq exitWriter /\ UNCHANGED <<client, writer, gotUp>>
    BY <1>11, Moves DEF ExitRecvSendme, ExitRecvEnd
  <2>2. QED BY <1>c, <1>d, <1>n, <1>u, <2>1
<1>12. QED BY <1>1, <1>2, <1>3, <1>4, <1>5, <1>6, <1>7, <1>8, <1>9, <1>10, <1>11 DEF FlowNext, ExitRecv

\* The three parts of UploadKept, per stream.
NumbersSent(t) ==
  /\ Len(gotUp[t]) <= client[t].sent
  /\ \A i \in DOMAIN up : IsData(up[i], t) => up[i].n \in 1 .. client[t].sent
NumbersRise(t) == \A i, j \in DOMAIN up : IsData(up[i], t) /\ IsData(up[j], t) /\ i < j => up[i].n < up[j].n
NoneMissing(t) ==
  /\ \A i \in DOMAIN up : IsData(up[i], t) => up[i].n > Len(gotUp[t])
  /\ \A n \in Len(gotUp[t]) + 1 .. client[t].sent : \E i \in DOMAIN up : IsData(up[i], t) /\ up[i].n = n

\* UploadKept, stream by stream.
LEMMA UploadKeptIs ==
  UploadKept <=> \A t \in Streams : NumbersSent(t) /\ NumbersRise(t) /\ (t \in exitWriter => NoneMissing(t))
BY DEF UploadKept, NumbersSent, NumbersRise, NoneMissing

\* A step that puts no DATA of the stream on the way, and takes none off.
LEMMA UploadFrame ==
  ASSUME FlowTyped, NEW t \in Streams, NumbersSent(t), NumbersRise(t), t \in exitWriter => NoneMissing(t),
         UpFrom("data"), client'[t].sent = client[t].sent, gotUp'[t] = gotUp[t],
         t \in exitWriter' => t \in exitWriter /\ \A i \in DOMAIN up : IsData(up[i], t) => \E j \in DOMAIN up' : up'[j] = up[i]
  PROVE  NumbersSent(t)' /\ NumbersRise(t)' /\ (t \in exitWriter' => NoneMissing(t)')
<1>1. PICK k \in {0, 1} : \A i \in DOMAIN up' :
        i \in Nat /\ (up'[i].cmd = "data" => i + k \in DOMAIN up /\ up'[i] = up[i + k])
  BY DEF UpFrom
<1>2. ASSUME NEW i \in DOMAIN up', IsData(up'[i], t)
      PROVE  i \in Nat /\ i + k \in DOMAIN up /\ up'[i] = up[i + k] /\ IsData(up[i + k], t)
  BY <1>1, <1>2 DEF IsData
<1>3. NumbersSent(t)'
  BY <1>2 DEF NumbersSent
<1>4. ASSUME NEW i \in DOMAIN up', NEW j \in DOMAIN up', IsData(up'[i], t), IsData(up'[j], t), i < j
      PROVE  up'[i].n < up'[j].n
  <2>1. i + k < j + k
    BY <1>2, <1>4
  <2>2. up[i + k].n < up[j + k].n
    BY <1>2, <1>4, <2>1 DEF NumbersRise
  <2>3. QED BY <1>2, <1>4, <2>2
<1>5. ASSUME t \in exitWriter' PROVE NoneMissing(t)'
  <2>1. \A i \in DOMAIN up' : IsData(up'[i], t) => up'[i].n > Len(gotUp'[t])
    BY <1>2, <1>5 DEF NoneMissing
  <2>2. ASSUME NEW n \in Len(gotUp'[t]) + 1 .. client'[t].sent PROVE \E i \in DOMAIN up' : IsData(up'[i], t) /\ up'[i].n = n
    BY <1>5, <2>2 DEF NoneMissing
  <2>3. QED BY <2>1, <2>2 DEF NoneMissing
<1>6. QED BY <1>3, <1>4, <1>5 DEF NumbersRise

\* The cell the exit takes off the channel is the next its target waits for.
LEMMA NextInOrder ==
  ASSUME FlowTyped, CellsAddressed, UploadKept, ExitRecvData, Head(up).stream \in exitWriter
  PROVE  Head(up).n = Len(gotUp[Head(up).stream]) + 1
<1> DEFINE s == Head(up).stream
<1>1. /\ 1 \in DOMAIN up /\ Head(up) = up[1] /\ up[1].cmd = "data" /\ s \in Streams /\ IsData(up[1], s)
  BY Moves DEF ExitRecv, ExitRecvData, CellsAddressed, IsData
<1>2. \A i \in DOMAIN up : i \in Nat /\ i >= 1
  BY DEF FlowTyped
<1>3. Len(gotUp[s]) \in Nat /\ client[s].sent \in Nat
  BY <1>1 DEF FlowTyped, ClientStreams
<1> HIDE DEF s
<1>4. up[1].n > Len(gotUp[s]) /\ up[1].n \in 1 .. client[s].sent
  BY <1>1, UploadKeptIs DEF NoneMissing, NumbersSent, s
<1>5. PICK i \in DOMAIN up : IsData(up[i], s) /\ up[i].n = Len(gotUp[s]) + 1
  <2>1. Len(gotUp[s]) + 1 \in Len(gotUp[s]) + 1 .. client[s].sent
    BY <1>3, <1>4
  <2>2. NoneMissing(s)
    BY <1>1, UploadKeptIs DEF s
  <2>3. QED BY <2>1, <2>2 DEF NoneMissing
<1>6. i = 1
  <2>1. SUFFICES ASSUME 1 < i PROVE FALSE
    BY <1>2
  <2>2. up[1].n < up[i].n
    BY <1>1, <1>5, <2>1, UploadKeptIs DEF NumbersRise
  <2>3. QED BY <1>3, <1>4, <1>5, <2>2
<1>7. QED BY <1>1, <1>5, <1>6 DEF s

\* Every step keeps the numbering of the uploads,
LEMMA UploadStaysKept ==
  ASSUME FlowTyped, CellsAddressed, BegunOnce, UnheardIsQuiet, UploadKept, FlowNext PROVE UploadKept'
<1>0. FlowTyped'
  BY FlowTypesHold
<1>t. /\ client \in [Streams -> ClientStreams] /\ exit \in [Streams -> ExitStreamStates]
      /\ writer \in [Streams -> {"idle", "slot", "granted"}] /\ gotUp \in [Streams -> Seq(Nat)]
  BY DEF FlowTyped
<1> DEFINE Kept(t) == NumbersSent(t)' /\ NumbersRise(t)' /\ (t \in exitWriter' => NoneMissing(t)')
<1>u. SUFFICES ASSUME NEW t \in Streams PROVE Kept(t)
  BY UploadKeptIs DEF UploadKept, NumbersSent, NumbersRise, NoneMissing
<1>k. NumbersSent(t) /\ NumbersRise(t) /\ (t \in exitWriter => NoneMissing(t))
  BY UploadKeptIs
<1>f. ASSUME UpFrom("data"), UpHolds("data"), client'[t].sent = client[t].sent, gotUp'[t] = gotUp[t],
             t \in exitWriter' => t \in exitWriter
      PROVE  Kept(t)
  <2>1. \A i \in DOMAIN up : IsData(up[i], t) => \E j \in DOMAIN up' : up'[j] = up[i]
    BY <1>f DEF UpHolds, IsData
  <2>2. QED BY <1>f, <1>k, <2>1, UploadFrame
<1>1. ASSUME NEW s \in Streams, StreamOpen(s) \/ TakeStreamSlot(s) \/ TakeCircSlot(s) \/ StreamClose(s) \/ AppRead(s)
      PROVE  Kept(t)
  <2>1. UpFrom("data") /\ UpHolds("data") /\ gotUp' = gotUp /\ exitWriter' = exitWriter
    BY <1>1, Moves DEF StreamOpen, TakeStreamSlot, TakeCircSlot, StreamClose, AppRead
  <2>2. client'[t].sent = client[t].sent
    <3>0. CASE StreamOpen(s)
      BY <3>0, <1>t DEF StreamOpen, ClientStreams
    <3>1. CASE StreamClose(s)
      BY <3>1, <1>t DEF StreamClose, ClientStreams
    <3>2. CASE TakeStreamSlot(s)
      BY <3>2, <1>t DEF TakeStreamSlot, ClientStreams
    <3>3. CASE TakeCircSlot(s)
      BY <3>3 DEF TakeCircSlot
    <3>4. CASE AppRead(s)
      BY <3>4, <1>t DEF AppRead, ClientStreams
    <3>5. QED BY <1>1, <3>0, <3>1, <3>2, <3>3, <3>4
  <2>3. QED BY <1>f, <2>1, <2>2
<1>2. ASSUME NEW s \in Streams, SendStreamRelay(s) PROVE Kept(t)
  <2> DEFINE c == Cell("data", s, client[s].sent + 1)
  <2>1. /\ c \in Cells /\ c.cmd = "data" /\ c.stream = s /\ c.n = client[s].sent + 1 /\ client[s].sent \in Nat
        /\ up' = Append(up, c) /\ client'[s].sent = client[s].sent + 1
        /\ \A r \in Streams \ {s} : client'[r] = client[r]
        /\ gotUp' = gotUp /\ exitWriter' = exitWriter
    BY <1>t, <1>2 DEF SendStreamRelay, Cell, Cells, ClientStreams
  <2> HIDE DEF c
  <2>2. /\ DOMAIN up' = 1 .. Len(up) + 1 /\ up'[Len(up) + 1] = c /\ DOMAIN up = 1 .. Len(up) /\ Len(up) \in Nat
        /\ \A i \in 1 .. Len(up) : up'[i] = up[i] /\ i \in 1 .. Len(up) + 1
        /\ \A i \in 1 .. Len(up) + 1 : i \in 1 .. Len(up) \/ i = Len(up) + 1
    BY <2>1, AppendIs DEF FlowTyped
  <2>3. CASE t # s
    <3>1. client'[t] = client[t] /\ gotUp'[t] = gotUp[t]
      BY <2>1, <2>3
    <3>2. \A i \in DOMAIN up' : IsData(up'[i], t) => i \in DOMAIN up /\ up'[i] = up[i]
      BY <2>1, <2>2, <2>3 DEF IsData
    <3>3. NumbersSent(t)' /\ NumbersRise(t)'
      BY <1>k, <3>1, <3>2 DEF NumbersSent, NumbersRise
    <3>4. t \in exitWriter => NoneMissing(t)'
      BY <1>k, <2>1, <2>2, <3>1, <3>2 DEF NoneMissing
    <3>5. QED BY <2>1, <3>3, <3>4
  <2>4. CASE t = s
    <3>1. \A i \in DOMAIN up : IsData(up[i], t) => up[i].n \in 1 .. client[s].sent
      BY <1>k, <2>4 DEF NumbersSent
    <3>2. NumbersSent(t)'
      <4>1. \A n \in 1 .. client[s].sent : n \in 1 .. client[s].sent + 1
        BY <2>1
      <4>2. client[s].sent + 1 \in 1 .. client[s].sent + 1
        BY <2>1
      <4>3. Len(gotUp'[t]) <= client'[t].sent
        <5>1. Len(gotUp[t]) \in Nat /\ Len(gotUp[t]) <= client[s].sent
          BY <1>t, <1>k, <2>4 DEF NumbersSent
        <5>2. QED BY <2>1, <2>4, <5>1
      <4>4. \A i \in DOMAIN up' : IsData(up'[i], t) => up'[i].n \in 1 .. client'[t].sent
        BY <2>1, <2>2, <2>4, <3>1, <4>1, <4>2
      <4>5. QED BY <4>3, <4>4 DEF NumbersSent
    <3>3. NumbersRise(t)'
      <4> SUFFICES ASSUME NEW i \in DOMAIN up', NEW j \in DOMAIN up', IsData(up'[i], t), IsData(up'[j], t), i < j
                   PROVE  up'[i].n < up'[j].n
        BY DEF NumbersRise
      <4>1. i \in DOMAIN up /\ up'[i] = up[i]
        BY <2>2
      <4>2. CASE j \in DOMAIN up
        BY <1>k, <2>2, <4>1, <4>2 DEF NumbersRise
      <4>3. CASE j = Len(up) + 1
        <5>1. up'[i].n \in 1 .. client[s].sent
          BY <3>1, <4>1
        <5>2. up'[j].n = client[s].sent + 1
          BY <2>1, <2>2, <4>3
        <5>3. QED BY <2>1, <5>1, <5>2
      <4>4. QED BY <2>2, <4>2, <4>3
    <3>4. ASSUME t \in exitWriter PROVE NoneMissing(t)'
      <4>1. Len(gotUp[t]) \in Nat /\ Len(gotUp[t]) <= client[t].sent
        <5>1. Len(gotUp[t]) \in Nat
          BY <1>t
        <5>2. QED BY <5>1, <1>k DEF NumbersSent
      <4>2. \A i \in DOMAIN up' : IsData(up'[i], t) => up'[i].n > Len(gotUp'[t])
        <5>1. client[s].sent + 1 > Len(gotUp[t])
          BY <2>1, <2>4, <4>1
        <5>2. QED BY <1>k, <2>1, <2>2, <3>4, <5>1 DEF NoneMissing
      <4>3. ASSUME NEW n \in Len(gotUp'[t]) + 1 .. client'[t].sent
            PROVE  \E i \in DOMAIN up' : IsData(up'[i], t) /\ up'[i].n = n
        <5>1. n = client[s].sent + 1 \/ n \in Len(gotUp[t]) + 1 .. client[t].sent
          BY <2>1, <2>4, <4>1, <4>3
        <5>2. CASE n = client[s].sent + 1
          BY <2>1, <2>2, <2>4, <5>2 DEF IsData
        <5>3. CASE n \in Len(gotUp[t]) + 1 .. client[t].sent
          <6>1. PICK i \in DOMAIN up : IsData(up[i], t) /\ up[i].n = n
            BY <1>k, <3>4, <5>3 DEF NoneMissing
          <6>2. QED BY <2>2, <6>1
        <5>4. QED BY <5>1, <5>2, <5>3
      <4>4. QED BY <4>2, <4>3 DEF NoneMissing
    <3>5. QED BY <2>1, <3>2, <3>3, <3>4
  <2>5. QED BY <2>3, <2>4
<1>3. ASSUME NEW s \in Streams, Pump(s) PROVE Kept(t)
  <2>1. UpFrom("data") /\ UpHolds("data") /\ UNCHANGED <<client, exitWriter, gotUp>>
    BY <1>3, Moves DEF Pump
  <2>2. QED BY <1>f, <2>1
<1>4. ASSUME NEW s \in Streams, StreamPumpEnds(s) PROVE Kept(t)
  <2>1. UpFrom("data") /\ UpHolds("data") /\ UNCHANGED <<client, gotUp>> /\ exitWriter' \subseteq exitWriter
    BY <1>4, Moves DEF StreamPumpEnds
  <2>2. QED BY <1>f, <2>1
<1>5. ASSUME ClientRecv PROVE Kept(t)
  <2>1. UpFrom("data") /\ UpHolds("data") /\ gotUp' = gotUp /\ exitWriter' = exitWriter
    BY <1>5, Moves DEF ClientRecv, ClientRecvData, ClientRecvSendme, ClientRecvControl
  <2>2. client'[t].sent = client[t].sent
    <3>1. CASE ClientRecvData
      BY <3>1, DataKept
    <3>2. CASE ClientRecvSendme
      BY <3>2 DEF ClientRecvSendme
    <3>3. CASE ClientRecvControl
      BY <3>3, <1>t DEF ClientRecvControl, ClientStreams
    <3>4. QED BY <1>5, <3>1, <3>2, <3>3 DEF ClientRecv
  <2>3. QED BY <1>f, <2>1, <2>2
<1>6. ASSUME NEW b \in BOOLEAN, ExitRecvBegin(b) PROVE Kept(t)
  <2> DEFINE s == Head(up).stream
  <2>1. /\ 1 \in DOMAIN up /\ Head(up) = up[1] /\ up[1].cmd = "begin" /\ s \in Streams
        /\ UpFrom("data") /\ UpHolds("data")
    BY <1>6, Moves DEF ExitRecv, ExitRecvBegin, CellsAddressed
  <2>2. exitWriter' \subseteq exitWriter \cup {s} /\ UNCHANGED <<client, gotUp>>
    BY <1>6 DEF ExitRecvBegin
  <2>3. CASE t \in exitWriter \/ t # s
    BY <1>f, <2>1, <2>2, <2>3
  <2>4. CASE t = s
    <3>1. exit[s].state = "none"
      BY <2>1 DEF BegunOnce
    <3>2. gotUp[t] = <<>> /\ client[t].sent = 0 /\ \A i \in DOMAIN up : ~ IsData(up[i], t)
      BY <2>4, <3>1 DEF UnheardIsQuiet
    <3>3. PICK k \in {0, 1} : \A i \in DOMAIN up' :
            i \in Nat /\ (up'[i].cmd = "data" => i + k \in DOMAIN up /\ up'[i] = up[i + k])
      BY <2>1 DEF UpFrom
    <3>4. \A i \in DOMAIN up' : ~ IsData(up'[i], t)
      BY <3>2, <3>3 DEF IsData
    <3>5. Len(gotUp'[t]) + 1 .. client'[t].sent = {}
      BY <2>2, <3>2
    <3>6. Len(gotUp'[t]) <= client'[t].sent
      BY <2>2, <3>2
    <3>7. QED BY <3>4, <3>5, <3>6 DEF NumbersSent, NumbersRise, NoneMissing
  <2>5. QED BY <2>3, <2>4
<1>7. ASSUME ExitRecvData PROVE Kept(t)
  <2> DEFINE s == Head(up).stream
  <2>1. /\ 1 \in DOMAIN up /\ Head(up) = up[1] /\ up[1].cmd = "data" /\ s \in Streams /\ IsData(up[1], s)
        /\ UpFrom("data") /\ Head(up).n \in Nat
    BY <1>7, Moves DEF ExitRecv, ExitRecvData, CellsAddressed, IsData, Cells
  <2>2. UNCHANGED <<client, exitWriter>>
    BY <1>7 DEF ExitRecvData
  <2>3. /\ DOMAIN up' = 1 .. Len(up) - 1
        /\ \A i \in 1 .. Len(up) - 1 : up'[i] = up[i + 1] /\ i + 1 \in DOMAIN up
        /\ \A i \in DOMAIN up : i = 1 \/ (i - 1 \in 1 .. Len(up) - 1 /\ up'[i - 1] = up[i])
    BY <1>7, TailIs DEF ExitRecvData, FlowTyped
  <2>4. CASE t # s \/ t \notin exitWriter
    <3>1. gotUp'[t] = gotUp[t]
      BY <1>7, <1>t, <2>1, <2>4 DEF ExitRecvData
    <3>2. t \in exitWriter => \A i \in DOMAIN up : IsData(up[i], t) => \E j \in DOMAIN up' : up'[j] = up[i]
      <4> SUFFICES ASSUME t \in exitWriter, NEW i \in DOMAIN up, IsData(up[i], t) PROVE \E j \in DOMAIN up' : up'[j] = up[i]
        OBVIOUS
      <4>1. i # 1
        BY <2>1, <2>4 DEF IsData
      <4>2. QED BY <2>3, <4>1
    <3>3. QED BY <1>k, <2>1, <2>2, <3>1, <3>2, UploadFrame
  <2>5. CASE t = s /\ t \in exitWriter
    <3>1. gotUp'[t] = Append(gotUp[t], up[1].n) /\ Len(gotUp[t]) \in Nat
      BY <1>7, <1>t, <2>1, <2>5 DEF ExitRecvData
    <3>2. up[1].n = Len(gotUp[t]) + 1
      BY <1>7, <2>1, <2>5, NextInOrder
    <3>3. Len(gotUp'[t]) = Len(gotUp[t]) + 1
      BY <1>t, <3>1
    <3>4. \A i \in DOMAIN up' : up'[i] = up[i + 1] /\ i + 1 \in DOMAIN up /\ 1 < i + 1 /\ i \in Nat
      BY <2>3
    <3>5. NumbersSent(t)'
      <4>1. up[1].n \in 1 .. client[t].sent
        BY <1>k, <2>1, <2>5 DEF NumbersSent
      <4>2. Len(gotUp'[t]) <= client'[t].sent
        <5>1. up[1].n <= client[t].sent
          BY <4>1
        <5>2. QED BY <2>2, <3>2, <3>3, <5>1
      <4>3. \A i \in DOMAIN up' : IsData(up'[i], t) => up'[i].n \in 1 .. client'[t].sent
        BY <1>k, <2>2, <3>4 DEF NumbersSent
      <4>4. QED BY <4>2, <4>3 DEF NumbersSent
    <3>6. NumbersRise(t)'
      <4> SUFFICES ASSUME NEW i \in DOMAIN up', NEW j \in DOMAIN up', IsData(up'[i], t), IsData(up'[j], t), i < j
                   PROVE  up'[i].n < up'[j].n
        BY DEF NumbersRise
      <4>1. i + 1 < j + 1
        BY <3>4
      <4>2. up[i + 1].n < up[j + 1].n
        BY <1>k, <3>4, <4>1 DEF NumbersRise
      <4>3. QED BY <3>4, <4>2
    <3>7. NoneMissing(t)'
      <4>1. ASSUME NEW i \in DOMAIN up', IsData(up'[i], t) PROVE up'[i].n > Len(gotUp'[t])
        <5>1. up[1].n < up[i + 1].n
          BY <1>k, <2>1, <2>5, <3>4, <4>1 DEF NumbersRise
        <5>2. QED BY <3>2, <3>3, <3>4, <5>1
      <4>2. ASSUME NEW n \in Len(gotUp'[t]) + 1 .. client'[t].sent
            PROVE  \E i \in DOMAIN up' : IsData(up'[i], t) /\ up'[i].n = n
        <5>1. client[t].sent \in Nat /\ client'[t].sent = client[t].sent
          BY <1>t, <2>2 DEF ClientStreams
        <5>2. n \in Len(gotUp[t]) + 1 .. client[t].sent /\ n # up[1].n
          BY <3>1, <3>2, <3>3, <4>2, <5>1
        <5>3. PICK i \in DOMAIN up : IsData(up[i], t) /\ up[i].n = n
          BY <1>k, <2>5, <5>2 DEF NoneMissing
        <5>4. i # 1
          BY <5>2, <5>3
        <5>5. QED BY <2>3, <5>3, <5>4
      <4>3. QED BY <4>1, <4>2 DEF NoneMissing
    <3>8. QED BY <3>5, <3>6, <3>7
  <2>6. QED BY <2>4, <2>5
<1>8. ASSUME ExitRecvSendme \/ ExitRecvEnd PROVE Kept(t)
  <2>1. UpFrom("data") /\ UpHolds("data") /\ exitWriter' \subseteq exitWriter /\ UNCHANGED <<client, gotUp>>
    BY <1>8, Moves DEF ExitRecvSendme, ExitRecvEnd
  <2>2. QED BY <1>f, <2>1
<1>9. QED BY <1>1, <1>2, <1>3, <1>4, <1>5, <1>6, <1>7, <1>8 DEF FlowNext, ExitRecv

\* and the order of what the target was given.
LEMMA UploadStaysInOrder ==
  ASSUME FlowTyped, CellsAddressed, UploadKept, UploadInOrder, FlowNext PROVE UploadInOrder'
<1>1. CASE gotUp' = gotUp
  BY <1>1 DEF UploadInOrder
<1>2. CASE gotUp' # gotUp
  <2> DEFINE s == Head(up).stream
  <2>1. ExitRecvData
    BY <1>2 DEF FlowNext, ClientRecv, ExitRecv, StreamOpen, TakeStreamSlot, TakeCircSlot, SendStreamRelay, StreamClose,
                AppRead, Pump, StreamPumpEnds, ClientRecvData, ClientRecvSendme, ClientRecvControl,
                ExitRecvBegin, ExitRecvSendme, ExitRecvEnd
  <2>2. s \in Streams /\ s \in exitWriter /\ gotUp' = [gotUp EXCEPT ![s] = Append(@, Head(up).n)]
    BY <1>2, <2>1, Moves DEF ExitRecvData, ExitRecv, CellsAddressed
  <2>3. Head(up).n = Len(gotUp[s]) + 1
    BY <2>1, <2>2, NextInOrder
  <2> HIDE DEF s
  <2>4. gotUp \in [Streams -> Seq(Nat)]
    BY DEF FlowTyped
  <2>5. gotUp'[s] = Append(gotUp[s], Len(gotUp[s]) + 1) /\ \A t \in Streams \ {s} : gotUp'[t] = gotUp[t]
    BY <2>2, <2>3, <2>4 DEF s
  <2>6. gotUp[s] = [i \in 1 .. Len(gotUp[s]) |-> i] /\ gotUp[s] \in Seq(Nat)
    BY <2>2, <2>4 DEF UploadInOrder
  <2>7. gotUp'[s] = [i \in 1 .. Len(gotUp'[s]) |-> i]
    <3> DEFINE old == gotUp[s]  new == Append(old, Len(old) + 1)
    <3>1. /\ Len(old) \in Nat /\ Len(new) = Len(old) + 1 /\ DOMAIN new = 1 .. Len(old) + 1
          /\ \A i \in 1 .. Len(old) : new[i] = old[i] /\ new[Len(old) + 1] = Len(old) + 1
          /\ new \in Seq(Nat) /\ new[Len(old) + 1] = Len(old) + 1
      BY <2>6
    <3>2. \A i \in 1 .. Len(old) : old[i] = i
      BY <2>6
    <3> HIDE DEF old, new
    <3>3. \A i \in 1 .. Len(old) + 1 : new[i] = i
      BY <3>1, <3>2
    <3>4. new = [i \in 1 .. Len(new) |-> i]
      BY <3>1, <3>3
    <3>5. QED BY <2>5, <3>4 DEF old, new
  <2>8. QED BY <2>5, <2>7 DEF UploadInOrder
<1>3. QED BY <1>1, <1>2

-----------------------------------------------------------------------------

\* An answer more is an increment more.
LEMMA Increments == \A n \in Nat : CircInc * n \in Nat /\ CircInc * (n + 1) = CircInc * n + CircInc
BY FlowNumbers

\* The pumps that were let past the window and have not sent yet.
Granted == {s \in Streams : writer[s] = "granted"}

\* One pump's state more or less in that set.
LEMMA GrantedMoves ==
  ASSUME FlowTyped
  PROVE  /\ Cardinality(Granted) \in Nat /\ (Cardinality(Granted) > 0 <=> Granted # {})
         /\ \A s \in Streams, v \in {"idle", "slot", "granted"} : writer' = [writer EXCEPT ![s] = v] =>
              Cardinality(Granted') = IF v = "granted"
                                        THEN IF writer[s] = "granted" THEN Cardinality(Granted) ELSE Cardinality(Granted) + 1
                                        ELSE IF writer[s] = "granted" THEN Cardinality(Granted) - 1 ELSE Cardinality(Granted)
<1>1. IsFiniteSet(Granted)
  BY StreamsAssumption, FS_Subset DEF Granted
<1>2. Cardinality(Granted) \in Nat /\ (Cardinality(Granted) > 0 <=> Granted # {})
  BY <1>1, FS_CardinalityType, FS_EmptySet
<1>3. ASSUME NEW s \in Streams, NEW v \in {"idle", "slot", "granted"}, writer' = [writer EXCEPT ![s] = v]
      PROVE  Cardinality(Granted') = IF v = "granted"
                                       THEN IF writer[s] = "granted" THEN Cardinality(Granted) ELSE Cardinality(Granted) + 1
                                       ELSE IF writer[s] = "granted" THEN Cardinality(Granted) - 1 ELSE Cardinality(Granted)
  <2>1. Granted' = IF v = "granted" THEN Granted \cup {s} ELSE Granted \ {s}
    BY <1>3 DEF Granted, FlowTyped
  <2>2. s \in Granted <=> writer[s] = "granted"
    BY DEF Granted
  <2>3. /\ Cardinality(Granted \cup {s}) = IF s \in Granted THEN Cardinality(Granted) ELSE Cardinality(Granted) + 1
        /\ Cardinality(Granted \ {s}) = IF s \in Granted THEN Cardinality(Granted) - 1 ELSE Cardinality(Granted)
    BY <1>1, FS_AddElement, FS_RemoveElement
  <2>4. QED BY <2>1, <2>2, <2>3, Zenon
<1>4. QED BY <1>2, <1>3

\* The terms of the two credits.
LEMMA CreditTerms ==
  ASSUME FlowTyped
  PROVE  /\ Cardinality(Granted) \in Nat
         /\ Count(up, "data") \in Nat /\ Count(up, "sendme") \in Nat
         /\ Count(down, "data") \in Nat /\ Count(down, "sendme") \in Nat
         /\ flowOrigin.inflight \in Nat /\ flowOrigin.delivered \in Nat /\ flowOrigin.delivered < CircInc
         /\ relay.inflight \in Nat /\ relay.delivered \in Nat /\ relay.delivered < CircInc
<1>1. up \in Seq(Cells) /\ down \in Seq(Cells) /\ flowOrigin \in Circuit /\ relay \in Circuit
  BY DEF FlowTyped
<1>2. /\ Count(up, "data") \in Nat /\ Count(up, "sendme") \in Nat
      /\ Count(down, "data") \in Nat /\ Count(down, "sendme") \in Nat
  BY <1>1, CountIs
<1>3. /\ flowOrigin.inflight \in Nat /\ flowOrigin.delivered \in 0 .. CircInc - 1
      /\ relay.inflight \in Nat /\ relay.delivered \in 0 .. CircInc - 1
  BY <1>1 DEF Circuit
<1>4. QED BY <1>2, <1>3, FlowNumbers, GrantedMoves

\* What each action adds to the counts of DATA and SENDMEs under way.
LEMMA CountMoves ==
  ASSUME FlowTyped
  PROVE  /\ \A c \in Cells : up' = Append(up, c) =>
              /\ Count(up', "data") = Count(up, "data") + (IF c.cmd = "data" THEN 1 ELSE 0)
              /\ Count(up', "sendme") = Count(up, "sendme") + (IF c.cmd = "sendme" THEN 1 ELSE 0)
         /\ up # <<>> /\ up' = Tail(up) =>
              /\ Count(up', "data") = Count(up, "data") - (IF Head(up).cmd = "data" THEN 1 ELSE 0)
              /\ Count(up', "sendme") = Count(up, "sendme") - (IF Head(up).cmd = "sendme" THEN 1 ELSE 0)
         /\ \A c \in Cells : down' = Append(down, c) =>
              /\ Count(down', "data") = Count(down, "data") + (IF c.cmd = "data" THEN 1 ELSE 0)
              /\ Count(down', "sendme") = Count(down, "sendme") + (IF c.cmd = "sendme" THEN 1 ELSE 0)
         /\ down # <<>> /\ down' = Tail(down) =>
              /\ Count(down', "data") = Count(down, "data") - (IF Head(down).cmd = "data" THEN 1 ELSE 0)
              /\ Count(down', "sendme") = Count(down, "sendme") - (IF Head(down).cmd = "sendme" THEN 1 ELSE 0)
<1>1. up \in Seq(Cells) /\ down \in Seq(Cells)
  BY DEF FlowTyped
<1>2. ASSUME NEW c \in Cells, up' = Append(up, c)
      PROVE  /\ Count(up', "data") = Count(up, "data") + (IF c.cmd = "data" THEN 1 ELSE 0)
             /\ Count(up', "sendme") = Count(up, "sendme") + (IF c.cmd = "sendme" THEN 1 ELSE 0)
  <2>1. /\ Count(Append(up, c), "data") = Count(up, "data") + (IF c.cmd = "data" THEN 1 ELSE 0)
        /\ Count(Append(up, c), "sendme") = Count(up, "sendme") + (IF c.cmd = "sendme" THEN 1 ELSE 0)
    BY <1>1, CountAppend
  <2>2. QED BY <1>2, <2>1, Zenon
<1>3. ASSUME up # <<>>, up' = Tail(up)
      PROVE  /\ Count(up', "data") = Count(up, "data") - (IF Head(up).cmd = "data" THEN 1 ELSE 0)
             /\ Count(up', "sendme") = Count(up, "sendme") - (IF Head(up).cmd = "sendme" THEN 1 ELSE 0)
  <2>1. /\ Count(Tail(up), "data") = Count(up, "data") - (IF Head(up).cmd = "data" THEN 1 ELSE 0)
        /\ Count(Tail(up), "sendme") = Count(up, "sendme") - (IF Head(up).cmd = "sendme" THEN 1 ELSE 0)
    BY <1>1, <1>3, CountTail
  <2>2. QED BY <1>3, <2>1, Zenon
<1>4. ASSUME NEW c \in Cells, down' = Append(down, c)
      PROVE  /\ Count(down', "data") = Count(down, "data") + (IF c.cmd = "data" THEN 1 ELSE 0)
             /\ Count(down', "sendme") = Count(down, "sendme") + (IF c.cmd = "sendme" THEN 1 ELSE 0)
  <2>1. /\ Count(Append(down, c), "data") = Count(down, "data") + (IF c.cmd = "data" THEN 1 ELSE 0)
        /\ Count(Append(down, c), "sendme") = Count(down, "sendme") + (IF c.cmd = "sendme" THEN 1 ELSE 0)
    BY <1>1, CountAppend
  <2>2. QED BY <1>4, <2>1, Zenon
<1>5. ASSUME down # <<>>, down' = Tail(down)
      PROVE  /\ Count(down', "data") = Count(down, "data") - (IF Head(down).cmd = "data" THEN 1 ELSE 0)
             /\ Count(down', "sendme") = Count(down, "sendme") - (IF Head(down).cmd = "sendme" THEN 1 ELSE 0)
  <2>1. /\ Count(Tail(down), "data") = Count(down, "data") - (IF Head(down).cmd = "data" THEN 1 ELSE 0)
        /\ Count(Tail(down), "sendme") = Count(down, "sendme") - (IF Head(down).cmd = "sendme" THEN 1 ELSE 0)
    BY <1>1, <1>5, CountTail
  <2>2. QED BY <1>5, <2>1, Zenon
<1>6. QED BY <1>2, <1>3, <1>4, <1>5

\* Every step keeps the credit of an upload,
LEMMA UploadCreditHolds ==
  ASSUME FlowTyped, CellsAddressed, UploadCredit, FlowNext PROVE UploadCredit'
<1> DEFINE G == Cardinality(Granted)
           ud == Count(up, "data")
           ds == Count(down, "sendme")
           f == flowOrigin.inflight
           d == relay.delivered
<1>0. G \in Nat /\ ud \in Nat /\ ds \in Nat /\ f \in Nat /\ d \in Nat
  BY CreditTerms
<1>c. f = G + ud + d + CircInc * ds
  BY DEF UploadCredit, Granted
<1>m. CircInc * ds \in Nat /\ CircInc * (ds + 1) = CircInc * ds + CircInc /\ CircInc \in Nat
      /\ (ds > 0 => CircInc * ds = CircInc * (ds - 1) + CircInc /\ CircInc * (ds - 1) \in Nat)
  <2>1. ds > 0 => ds - 1 \in Nat /\ (ds - 1) + 1 = ds
    BY <1>0
  <2> HIDE DEF ds
  <2>2. QED BY <1>0, <2>1, Increments, FlowNumbers
<1>a. \A s \in Streams, n \in Nat : \A cmd \in Addressed : Cell(cmd, s, n) \in Cells /\ Cell(cmd, s, n).cmd = cmd
  BY DEF Cell, Cells, Addressed
<1> DEFINE Good == f' = G' + ud' + d' + CircInc * ds'
<1>g. SUFFICES Good
  BY DEF UploadCredit, Granted
<1>s. ASSUME G' = G, ud' = ud, ds' = ds, f' = f, d' = d PROVE Good
  BY <1>s, <1>c
<1>1. ASSUME NEW s \in Streams, StreamOpen(s) \/ StreamClose(s) PROVE Good
  <2>1. PICK cmd \in {"begin", "end"} : up' = Append(up, Cell(cmd, s, 0))
    BY <1>1 DEF StreamOpen, StreamClose
  <2>2. ud' = ud
    <3>1. Cell(cmd, s, 0) \in Cells /\ Cell(cmd, s, 0).cmd # "data"
      BY <2>1, <1>a DEF Addressed
    <3>2. Count(up', "data") = Count(up, "data") + 0
      BY <2>1, <3>1, CountMoves
    <3>3. QED BY <1>0, <3>2 DEF Count
  <2>3. UNCHANGED <<writer, down, flowOrigin, relay>>
    BY <1>1 DEF StreamOpen, StreamClose
  <2>4. G' = G /\ ds' = ds /\ f' = f /\ d' = d
    BY <2>3 DEF Granted, Count
  <2>5. QED BY <1>s, <2>2, <2>4
<1>2. ASSUME NEW s \in Streams, TakeStreamSlot(s) PROVE Good
  <2>1. G' = G
    BY <1>2, GrantedMoves DEF TakeStreamSlot
  <2>2. UNCHANGED <<up, down, flowOrigin, relay>>
    BY <1>2 DEF TakeStreamSlot
  <2>3. ud' = ud /\ ds' = ds /\ f' = f /\ d' = d
    BY <2>2 DEF Count
  <2>4. QED BY <1>s, <2>1, <2>3
<1>3. ASSUME NEW s \in Streams, TakeCircSlot(s) PROVE Good
  <2>1. UNCHANGED <<up, down, relay>> /\ ud' = ud /\ ds' = ds /\ d' = d
    BY <1>3 DEF TakeCircSlot, Count
  <2>2. CASE CanSend(flowOrigin)
    <3>1. G' = G + 1
      BY <1>3, <2>2, GrantedMoves DEF TakeCircSlot
    <3>2. f' = f + 1
      BY <1>3, <2>2, CircuitMoves DEF TakeCircSlot, FlowTyped
    <3> HIDE DEF G, ud, ds, f, d
    <3>3. QED BY <1>0, <1>c, <1>m, <2>1, <3>1, <3>2
  <2>3. CASE ~ CanSend(flowOrigin)
    <3>1. G' = G
      BY <1>3, <2>3, GrantedMoves DEF TakeCircSlot
    <3>2. f' = f
      BY <1>3, <2>3 DEF TakeCircSlot
    <3>3. QED BY <1>s, <2>1, <3>1, <3>2
  <2>4. QED BY <2>2, <2>3
<1>4. ASSUME NEW s \in Streams, SendStreamRelay(s) PROVE Good
  <2>1. UNCHANGED <<down, flowOrigin, relay>> /\ ds' = ds /\ f' = f /\ d' = d
    BY <1>4 DEF SendStreamRelay, Count
  <2>2. G' = G - 1
    BY <1>4, GrantedMoves DEF SendStreamRelay
  <2>3. ud' = ud + 1
    <3>1. client[s].sent + 1 \in Nat
      BY DEF FlowTyped, ClientStreams
    <3> DEFINE c == Cell("data", s, client[s].sent + 1)
    <3>2. c \in Cells /\ c.cmd = "data" /\ up' = Append(up, c)
      BY <1>4, <1>a, <3>1 DEF SendStreamRelay, Addressed
    <3> HIDE DEF c
    <3>3. Count(up', "data") = Count(up, "data") + 1
      BY <3>2, CountMoves
    <3>4. QED BY <3>3 DEF Count
  <2> HIDE DEF G, ud, ds, f, d
  <2>4. QED BY <1>0, <1>c, <1>m, <2>1, <2>2, <2>3
<1>5. ASSUME NEW s \in Streams, AppRead(s) PROVE Good
  <2>1. UNCHANGED <<up, down, writer, flowOrigin, relay>>
    BY <1>5 DEF AppRead
  <2>2. G' = G /\ ud' = ud /\ ds' = ds /\ f' = f /\ d' = d
    BY <2>1 DEF Granted, Count
  <2>3. QED BY <1>s, <2>2
<1>6. ASSUME NEW s \in Streams, Pump(s) \/ StreamPumpEnds(s) PROVE Good
  <2>1. UNCHANGED <<up, writer, flowOrigin>> /\ G' = G /\ ud' = ud /\ f' = f
    BY <1>6 DEF Pump, StreamPumpEnds, Granted, Count
  <2>2. d' = d
    BY <1>6, CircuitMoves DEF Pump, StreamPumpEnds, FlowTyped
  <2>3. PICK c \in Cells : c.cmd # "sendme" /\ down' = Append(down, c)
    <3>1. exit[s].sent + 1 \in Nat
      BY DEF FlowTyped, ExitStreamStates
    <3>2. QED BY <1>6, <1>a, <3>1 DEF Pump, StreamPumpEnds, Addressed
  <2>4. ds' = ds
    <3>1. Count(down', "sendme") = Count(down, "sendme") + 0
      BY <2>3, CountMoves
    <3>2. QED BY <1>0, <3>1 DEF Count
  <2>5. QED BY <1>s, <2>1, <2>2, <2>4
<1>7. ASSUME ClientRecvData PROVE Good
  <2>1. UNCHANGED <<writer, relay>> /\ G' = G /\ d' = d
    BY <1>7 DEF ClientRecvData, Granted
  <2>2. f' = f
    BY <1>7, CircuitMoves DEF ClientRecvData, FlowTyped
  <2>3. ds' = ds
    <3>1. Count(down', "sendme") = Count(down, "sendme") - 0
      BY <1>7, CountMoves DEF ClientRecvData
    <3>2. QED BY <1>0, <3>1 DEF Count
  <2>4. ud' = ud
    <3> DEFINE a == BatchDone(Head(down).stream)  b == Due(flowOrigin)
    <3>1. a \in BOOLEAN /\ b \in BOOLEAN /\ up' = Answered(up, a, b)
      <4>1. up' = up \o Sendmes(a) \o Sendmes(b)
        BY <1>7, Zenon DEF ClientRecvData
      <4>2. a \in BOOLEAN
        BY DEF BatchDone
      <4>3. b \in BOOLEAN
        BY DEF Due
      <4>. QED
        BY <4>1, <4>2, <4>3, Zenon DEF Answered
    <3> HIDE DEF a, b
    <3>2. Count(up', "data") = Count(up, "data")
      BY <3>1, TwoSendmes DEF FlowTyped
    <3>3. QED BY <3>2 DEF Count
  <2>5. QED BY <1>s, <2>1, <2>2, <2>3, <2>4
<1>8. ASSUME ClientRecvSendme PROVE Good
  <2>1. UNCHANGED <<writer, up, relay>> /\ G' = G /\ ud' = ud /\ d' = d
    BY <1>8 DEF ClientRecvSendme, Granted, Count
  <2>2. ds' = ds - 1 /\ ds > 0
    <3>1. Count(down', "sendme") = Count(down, "sendme") - 1
      BY <1>8, CountMoves DEF ClientRecvSendme
    <3>2. 1 \in DOMAIN down /\ down[1].cmd = "sendme"
      BY <1>8, Moves DEF ClientRecv, ClientRecvSendme
    <3>3. Count(down, "sendme") > 0
      BY <3>2, CountIs DEF FlowTyped
    <3>4. QED BY <3>1, <3>3 DEF Count
  <2>3. f' = IF f < CircInc THEN 0 ELSE f - CircInc
    BY <1>8, CircuitMoves DEF ClientRecvSendme, FlowTyped
  <2> HIDE DEF G, ud, ds, f, d
  <2>4. f >= CircInc
    BY <1>0, <1>c, <1>m, <2>2
  <2>5. f' = f - CircInc
    BY <1>0, <1>m, <2>3, <2>4
  <2>6. CircInc * ds' = CircInc * ds - CircInc
    BY <1>m, <2>2
  <2>7. QED BY <1>0, <1>c, <1>m, <2>1, <2>5, <2>6
<1>9. ASSUME ClientRecvControl PROVE Good
  <2>1. UNCHANGED <<writer, up, flowOrigin, relay>> /\ G' = G /\ ud' = ud /\ f' = f /\ d' = d
    BY <1>9 DEF ClientRecvControl, Granted, Count
  <2>2. ds' = ds
    <3>1. Count(down', "sendme") = Count(down, "sendme") - 0
      BY <1>9, CountMoves DEF ClientRecvControl
    <3>2. QED BY <1>0, <3>1 DEF Count
  <2>3. QED BY <1>s, <2>1, <2>2
<1>10. ASSUME NEW b \in BOOLEAN, ExitRecvBegin(b) PROVE Good
  <2>1. UNCHANGED <<writer, flowOrigin, relay>> /\ G' = G /\ f' = f /\ d' = d
    BY <1>10 DEF ExitRecvBegin, Granted
  <2>2. ud' = ud
    <3>1. Count(up', "data") = Count(up, "data") - 0
      BY <1>10, CountMoves DEF ExitRecvBegin
    <3>2. QED BY <1>0, <3>1 DEF Count
  <2>3. ds' = ds
    <3>1. Head(up).stream \in Streams
      BY <1>10, Moves DEF ExitRecv, ExitRecvBegin, CellsAddressed
    <3> DEFINE c == Cell(IF b THEN "connected" ELSE "end", Head(up).stream, 0)
    <3>2. c \in Cells /\ c.cmd # "sendme" /\ down' = Append(down, c)
      BY <1>10, <3>1 DEF ExitRecvBegin, Cell, Cells
    <3> HIDE DEF c
    <3>3. Count(down', "sendme") = Count(down, "sendme") + 0
      BY <3>2, CountMoves
    <3>4. QED BY <1>0, <3>3 DEF Count
  <2>4. QED BY <1>s, <2>1, <2>2, <2>3
<1>11. ASSUME ExitRecvData PROVE Good
  <2>1. UNCHANGED <<writer, flowOrigin>> /\ G' = G /\ f' = f
    BY <1>11 DEF ExitRecvData, Granted
  <2>2. ud' = ud - 1
    <3>1. Count(up', "data") = Count(up, "data") - 1
      BY <1>11, CountMoves DEF ExitRecvData
    <3>2. QED BY <3>1 DEF Count
  <2>3. Due(relay) \in BOOLEAN /\ d' + (IF Due(relay) THEN CircInc ELSE 0) = d + 1
    BY <1>11, CircuitMoves DEF ExitRecvData, FlowTyped
  <2>4. ds' = ds + (IF Due(relay) THEN 1 ELSE 0)
    <3>1. down' = down \o Sendmes(Due(relay))
      BY <1>11 DEF ExitRecvData
    <3>2. Count(down \o Sendmes(Due(relay)), "sendme") = Count(down, "sendme") + (IF Due(relay) /\ "sendme" = "sendme" THEN 1 ELSE 0)
      BY <2>3, SendmesAdded DEF FlowTyped
    <3>3. QED BY <3>1, <3>2 DEF Count
  <2>5. d' \in Nat
    <3>1. FlowTyped'
      BY <1>11, FlowTypesHold DEF FlowNext, ExitRecv
    <3>2. QED BY <3>1 DEF FlowTyped, Circuit
  <2> HIDE DEF G, ud, ds, f
  <2>6. CASE Due(relay)
    <3>1. ds' = ds + 1 /\ d' + CircInc = d + 1
      BY <2>3, <2>4, <2>6
    <3>2. CircInc * ds' = CircInc * ds + CircInc
      BY <1>m, <3>1
    <3>3. ASSUME NEW p \in Nat, NEW q, f = G + ud + d + p, q = p + CircInc PROVE f' = G' + ud' + d' + q
      BY <1>0, <1>m, <2>1, <2>2, <2>5, <3>1, <3>3
    <3>4. QED BY <1>c, <1>m, <3>2, <3>3
  <2>7. CASE ~ Due(relay)
    <3>1. ds' = ds /\ d' = d + 1
      <4>1. d' + 0 = d + 1 /\ ds' = ds + 0
        BY <2>3, <2>4, <2>7, Zenon
      <4>2. d' = d + 1
        BY <1>0, <2>5, <4>1
      <4>3. ds' = ds
        BY <1>0, <4>1
      <4>4. QED BY <4>2, <4>3
    <3>2. QED BY <1>0, <1>c, <1>m, <2>1, <2>2, <3>1
  <2>8. QED BY <2>6, <2>7
<1>12. ASSUME ExitRecvSendme \/ ExitRecvEnd PROVE Good
  <2>1. UNCHANGED <<writer, flowOrigin, down>> /\ G' = G /\ f' = f /\ ds' = ds
    BY <1>12 DEF ExitRecvSendme, ExitRecvEnd, Granted, Count
  <2>2. ud' = ud
    <3>1. Count(up', "data") = Count(up, "data") - 0
      BY <1>12, CountMoves DEF ExitRecvSendme, ExitRecvEnd
    <3>2. QED BY <1>0, <3>1 DEF Count
  <2>3. d' = d
    BY <1>12, CircuitMoves DEF ExitRecvSendme, ExitRecvEnd, FlowTyped
  <2>4. QED BY <1>s, <2>1, <2>2, <2>3
<1>13. QED BY <1>1, <1>2, <1>3, <1>4, <1>5, <1>6, <1>7, <1>8, <1>9, <1>10, <1>11, <1>12
           DEF FlowNext, ClientRecv, ExitRecv

\* and that of a download.
LEMMA DownloadCreditHolds ==
  ASSUME FlowTyped, CellsAddressed, DownloadCredit, FlowNext PROVE DownloadCredit'
<1> DEFINE dd == Count(down, "data")
           us == Count(up, "sendme")
           r == relay.inflight
           o == flowOrigin.delivered
<1>0. dd \in Nat /\ us \in Nat /\ r \in Nat /\ o \in Nat
  BY CreditTerms
<1>1. FlowTyped'
  BY FlowTypesHold
<1>2. dd' \in Nat /\ us' \in Nat /\ r' \in Nat /\ o' \in Nat
  <2>1. up' \in Seq(Cells) /\ down' \in Seq(Cells) /\ relay' \in Circuit /\ flowOrigin' \in Circuit
    BY <1>1 DEF FlowTyped
  <2>2. Count(up', "sendme") \in Nat /\ Count(down', "data") \in Nat
    BY <2>1, CountIs
  <2>3. relay'.inflight \in Nat /\ flowOrigin'.delivered \in 0 .. CircInc - 1
    BY <2>1 DEF Circuit
  <2>4. QED BY <2>2, <2>3, FlowNumbers DEF Count
<1>c. r <= dd + o + CircInc * us
  BY DEF DownloadCredit
<1>m. /\ CircInc * us \in Nat /\ CircInc * (us + 1) = CircInc * us + CircInc /\ CircInc \in Nat
      /\ CircInc * (us + 2) = CircInc * us + CircInc + CircInc
      /\ (us > 0 => CircInc * us = CircInc * (us - 1) + CircInc)
  <2>1. us > 0 => us - 1 \in Nat /\ (us - 1) + 1 = us
    BY <1>0
  <2>2. us + 1 \in Nat /\ (us + 1) + 1 = us + 2
    BY <1>0
  <2> HIDE DEF us
  <2>3. QED BY <1>0, <2>1, <2>2, Increments, FlowNumbers
<1> DEFINE Good == r' <= dd' + o' + CircInc * us'
<1>g. SUFFICES Good
  BY DEF DownloadCredit
<1>s. ASSUME dd' = dd, us' = us, r' = r, o' = o PROVE Good
  BY <1>s, <1>c
<1>3. ASSUME NEW s \in Streams, StreamOpen(s) \/ SendStreamRelay(s) \/ StreamClose(s) PROVE Good
  <2>1. UNCHANGED <<down, flowOrigin, relay>> /\ dd' = dd /\ r' = r /\ o' = o
    BY <1>3 DEF StreamOpen, SendStreamRelay, StreamClose, Count
  <2>2. PICK c \in Cells : c.cmd # "sendme" /\ up' = Append(up, c)
    <3>1. client[s].sent + 1 \in Nat
      BY DEF FlowTyped, ClientStreams
    <3>2. \A n \in Nat : \A cmd \in Addressed : Cell(cmd, s, n) \in Cells /\ Cell(cmd, s, n).cmd = cmd
      BY DEF Cell, Cells, Addressed
    <3>3. QED BY <1>3, <3>1, <3>2 DEF StreamOpen, SendStreamRelay, StreamClose, Addressed
  <2>3. us' = us
    <3>1. Count(up', "sendme") = Count(up, "sendme") + 0
      BY <2>2, CountMoves
    <3>2. QED BY <1>0, <3>1 DEF Count
  <2>4. QED BY <1>s, <2>1, <2>3
<1>4. ASSUME NEW s \in Streams, TakeStreamSlot(s) \/ TakeCircSlot(s) \/ AppRead(s) PROVE Good
  <2>1. UNCHANGED <<up, down, relay>> /\ dd' = dd /\ r' = r /\ us' = us
    BY <1>4 DEF TakeStreamSlot, TakeCircSlot, AppRead, Count
  <2>2. o' = o
    BY <1>4, CircuitMoves DEF TakeStreamSlot, TakeCircSlot, AppRead, FlowTyped
  <2>3. QED BY <1>s, <2>1, <2>2
<1>5. ASSUME NEW s \in Streams, Pump(s) PROVE Good
  <2>1. UNCHANGED <<up, flowOrigin>> /\ us' = us /\ o' = o
    BY <1>5 DEF Pump, Count
  <2>2. r' = r + 1
    BY <1>5, CircuitMoves DEF Pump, FlowTyped
  <2>3. dd' = dd + 1
    <3>1. exit[s].sent + 1 \in Nat
      BY DEF FlowTyped, ExitStreamStates
    <3> DEFINE c == Cell("data", s, exit[s].sent + 1)
    <3>2. c \in Cells /\ c.cmd = "data" /\ down' = Append(down, c)
      BY <1>5, <3>1 DEF Pump, Cell, Cells
    <3> HIDE DEF c
    <3>3. Count(down', "data") = Count(down, "data") + 1
      BY <3>2, CountMoves
    <3>4. QED BY <3>3 DEF Count
  <2> HIDE DEF dd, us, r, o
  <2>4. QED BY <1>0, <1>c, <1>m, <2>1, <2>2, <2>3
<1>6. ASSUME NEW s \in Streams, StreamPumpEnds(s) PROVE Good
  <2>1. UNCHANGED <<up, flowOrigin, relay>> /\ us' = us /\ o' = o /\ r' = r
    BY <1>6 DEF StreamPumpEnds, Count
  <2>2. dd' = dd
    <3> DEFINE c == Cell("end", s, 0)
    <3>1. c \in Cells /\ c.cmd = "end" /\ down' = Append(down, c)
      BY <1>6 DEF StreamPumpEnds, Cell, Cells
    <3> HIDE DEF c
    <3>2. Count(down', "data") = Count(down, "data") + 0
      BY <3>1, CountMoves
    <3>3. QED BY <1>0, <3>2 DEF Count
  <2>3. QED BY <1>s, <2>1, <2>2
<1>7. ASSUME ClientRecvData PROVE Good
  <2> DEFINE a == BatchDone(Head(down).stream)  b == Due(flowOrigin)
  <2>1. a \in BOOLEAN /\ b \in BOOLEAN /\ up' = Answered(up, a, b) /\ relay' = relay
    <3>1. up' = up \o Sendmes(a) \o Sendmes(b) /\ relay' = relay
      BY <1>7, Zenon DEF ClientRecvData
    <3>2. a \in BOOLEAN
      BY DEF BatchDone
    <3>3. b \in BOOLEAN
      BY DEF Due
    <3>. QED
      BY <3>1, <3>2, <3>3, Zenon DEF Answered
  <2>2. o' + (IF b THEN CircInc ELSE 0) = o + 1
    BY <1>7, CircuitMoves DEF ClientRecvData, FlowTyped
  <2>3. dd' = dd - 1
    <3>1. Count(down', "data") = Count(down, "data") - 1
      BY <1>7, CountMoves DEF ClientRecvData
    <3>2. QED BY <3>1 DEF Count
  <2> HIDE DEF a, b
  <2>4. us' = us + (IF a THEN 1 ELSE 0) + (IF b THEN 1 ELSE 0)
    <3>1. Count(up', "sendme") = Count(up, "sendme") + (IF a THEN 1 ELSE 0) + (IF b THEN 1 ELSE 0)
      BY <2>1, TwoSendmes DEF FlowTyped
    <3>2. QED BY <3>1 DEF Count
  <2>5. CircInc * us' >= CircInc * us + (IF b THEN CircInc ELSE 0) /\ CircInc * us' \in Nat
    <3>0. /\ us' = us + 0 + 0 \/ us' = us + 0 + 1 \/ us' = us + 1 + 0 \/ us' = us + 1 + 1
          /\ b => us' = us + 0 + 1 \/ us' = us + 1 + 1
      BY <2>1, <2>4, Zenon
    <3>1. us' = us \/ us' = us + 1 \/ us' = us + 2
      BY <1>0, <3>0
    <3>2. b => us' = us + 1 \/ us' = us + 2
      BY <1>0, <3>0
    <3>3. CircInc * us' \in Nat
      BY <1>2, Increments
    <3> HIDE DEF us
    <3>4. CASE us' = us
      BY <1>m, <3>2, <3>3, <3>4, <1>0
    <3>5. CASE us' = us + 1
      BY <1>m, <3>3, <3>5, <2>1
    <3>6. CASE us' = us + 2
      BY <1>m, <3>3, <3>6, <2>1
    <3>7. QED BY <3>1, <3>4, <3>5, <3>6
  <2>6. r' = r
    BY <2>1
  <2>7. ASSUME NEW p \in Nat, NEW q \in Nat, r <= dd + o + p, q >= p + (IF b THEN CircInc ELSE 0) PROVE r' <= dd' + o' + q
    <3>1. PICK x \in Nat : o' + x = o + 1 /\ q >= p + x
      <4>1. (IF b THEN CircInc ELSE 0) \in Nat
        BY <1>m
      <4>2. QED BY <2>2, <2>7, <4>1
    <3>2. r <= dd + o + p
      BY <2>7
    <3>3. QED BY <1>0, <1>2, <2>3, <2>6, <3>1, <3>2
  <2>8. QED BY <1>c, <1>m, <2>5, <2>7
<1>8. ASSUME ClientRecvSendme \/ ClientRecvControl PROVE Good
  <2>1. UNCHANGED <<up, relay>> /\ us' = us /\ r' = r
    BY <1>8 DEF ClientRecvSendme, ClientRecvControl, Count
  <2>2. o' = o
    BY <1>8, CircuitMoves DEF ClientRecvSendme, ClientRecvControl, FlowTyped
  <2>3. dd' = dd
    <3>1. Count(down', "data") = Count(down, "data") - 0
      BY <1>8, CountMoves DEF ClientRecvSendme, ClientRecvControl
    <3>2. QED BY <1>0, <3>1 DEF Count
  <2>4. QED BY <1>s, <2>1, <2>2, <2>3
<1>9. ASSUME NEW b \in BOOLEAN, ExitRecvBegin(b) PROVE Good
  <2>1. UNCHANGED <<flowOrigin, relay>> /\ o' = o /\ r' = r
    BY <1>9 DEF ExitRecvBegin
  <2>2. us' = us
    <3>1. Count(up', "sendme") = Count(up, "sendme") - 0
      BY <1>9, CountMoves DEF ExitRecvBegin
    <3>2. QED BY <1>0, <3>1 DEF Count
  <2>3. dd' = dd
    <3>1. Head(up).stream \in Streams
      BY <1>9, Moves DEF ExitRecv, ExitRecvBegin, CellsAddressed
    <3> DEFINE c == Cell(IF b THEN "connected" ELSE "end", Head(up).stream, 0)
    <3>2. c \in Cells /\ c.cmd # "data" /\ down' = Append(down, c)
      BY <1>9, <3>1 DEF ExitRecvBegin, Cell, Cells
    <3> HIDE DEF c
    <3>3. Count(down', "data") = Count(down, "data") + 0
      BY <3>2, CountMoves
    <3>4. QED BY <1>0, <3>3 DEF Count
  <2>4. QED BY <1>s, <2>1, <2>2, <2>3
<1>10. ASSUME ExitRecvData PROVE Good
  <2>1. UNCHANGED flowOrigin /\ o' = o
    BY <1>10 DEF ExitRecvData
  <2>2. r' = r
    BY <1>10, CircuitMoves DEF ExitRecvData, FlowTyped
  <2>3. us' = us
    <3>1. Count(up', "sendme") = Count(up, "sendme") - 0
      BY <1>10, CountMoves DEF ExitRecvData
    <3>2. QED BY <1>0, <3>1 DEF Count
  <2>4. dd' = dd
    <3>1. down' = down \o Sendmes(Due(relay)) /\ Due(relay) \in BOOLEAN
      BY <1>10 DEF ExitRecvData, Due
    <3>2. Count(down \o Sendmes(Due(relay)), "data") = Count(down, "data") + (IF Due(relay) /\ "data" = "sendme" THEN 1 ELSE 0)
      BY <3>1, SendmesAdded DEF FlowTyped
    <3>3. Count(down', "data") = Count(down, "data") + 0
      <4>1. Due(relay) /\ "data" = "sendme" <=> FALSE
        OBVIOUS
      <4>2. QED BY <3>1, <3>2, <4>1, Zenon
    <3>4. QED BY <1>0, <3>3 DEF Count
  <2>5. QED BY <1>s, <2>1, <2>2, <2>3, <2>4
<1>11. ASSUME ExitRecvSendme PROVE Good
  <2>1. UNCHANGED <<down, flowOrigin>> /\ o' = o /\ dd' = dd
    BY <1>11 DEF ExitRecvSendme, Count
  <2>2. us' = us - 1 /\ us > 0
    <3>1. Count(up', "sendme") = Count(up, "sendme") - 1
      BY <1>11, CountMoves DEF ExitRecvSendme
    <3>2. 1 \in DOMAIN up /\ up[1].cmd = "sendme"
      BY <1>11, Moves DEF ExitRecv, ExitRecvSendme
    <3>3. Count(up, "sendme") > 0
      BY <3>2, CountIs DEF FlowTyped
    <3>4. QED BY <3>1, <3>3 DEF Count
  <2>3. r' = IF r < CircInc THEN 0 ELSE r - CircInc
    BY <1>11, CircuitMoves DEF ExitRecvSendme, FlowTyped
  <2>4. CircInc * us = CircInc * us' + CircInc /\ CircInc * us' \in Nat
    BY <1>2, <1>m, <2>2, Increments
  <2> HIDE DEF dd, us, r, o
  <2>5. ASSUME NEW p \in Nat, NEW q \in Nat, r <= dd + o + p, p = q + CircInc PROVE r' <= dd' + o' + q
    BY <1>0, <1>m, <2>1, <2>3, <2>5
  <2>6. QED BY <1>c, <1>m, <2>4, <2>5
<1>12. ASSUME ExitRecvEnd PROVE Good
  <2>1. UNCHANGED <<down, flowOrigin, relay>> /\ o' = o /\ dd' = dd /\ r' = r
    BY <1>12 DEF ExitRecvEnd, Count
  <2>2. us' = us
    <3>1. Count(up', "sendme") = Count(up, "sendme") - 0
      BY <1>12, CountMoves DEF ExitRecvEnd
    <3>2. QED BY <1>0, <3>1 DEF Count
  <2>3. QED BY <1>s, <2>1, <2>2
<1>13. QED BY <1>3, <1>4, <1>5, <1>6, <1>7, <1>8, <1>9, <1>10, <1>11, <1>12 DEF FlowNext, ClientRecv, ExitRecv

-----------------------------------------------------------------------------

\* FlowTyped is the type invariant.
LEMMA FlowTypeIs == FlowTypeOK <=> FlowTyped
BY DEF FlowTypeOK, FlowTyped, ClientStreams, ExitStreamStates

\* The invariant holds at the start,
LEMMA FlowInitOK == FlowInit => FlowInv
<1> SUFFICES ASSUME FlowInit PROVE FlowInv
  OBVIOUS
<1>1. FlowTypeOK
  BY FlowNumbers DEF FlowInit, FlowTypeOK, Circuit
<1>2. CellsAddressed /\ BegunOnce /\ UnheardIsQuiet /\ UploadInOrder
  BY DEF FlowInit, CellsAddressed, BegunOnce, UnheardIsQuiet, UploadInOrder
<1>3. UploadKept
  BY DEF FlowInit, UploadKept
<1>4. Granted = {}
  BY DEF FlowInit, Granted
<1>5. Cardinality(Granted) = 0 /\ Count(up, "data") = 0 /\ Count(up, "sendme") = 0
      /\ Count(down, "data") = 0 /\ Count(down, "sendme") = 0
  BY <1>4, FS_EmptySet, CountEmpty DEF FlowInit
<1>6. CircInc * 0 = 0 /\ relay.inflight = 0 /\ relay.delivered = 0 /\ flowOrigin.inflight = 0 /\ flowOrigin.delivered = 0
  BY FlowNumbers DEF FlowInit
<1>7. UploadCredit /\ DownloadCredit
  <2>1. 0 = 0 + 0 + 0 + 0 /\ 0 <= 0 + 0 + 0
    OBVIOUS
  <2>2. QED BY <1>5, <1>6, <2>1, Zenon DEF UploadCredit, DownloadCredit, Granted
<1>8. QED BY <1>1, <1>2, <1>3, <1>7 DEF FlowInv

\* every step keeps it,
LEMMA FlowStepOK == FlowInv /\ [FlowNext]_flowVars => FlowInv'
<1> SUFFICES ASSUME FlowInv, [FlowNext]_flowVars PROVE FlowInv'
  OBVIOUS
<1>1. FlowTyped /\ CellsAddressed /\ BegunOnce /\ UnheardIsQuiet /\ UploadKept /\ UploadCredit /\ DownloadCredit /\ UploadInOrder
  BY FlowTypeIs DEF FlowInv
<1>2. CASE FlowNext
  <2>1. FlowTypeOK'
    BY <1>1, <1>2, FlowTypesHold, FlowTypeIs DEF FlowTypeOK, FlowTyped, ClientStreams, ExitStreamStates
  <2>2. QED BY <1>1, <1>2, <2>1, CellsStayAddressed, BegunStaysOnce, UnheardStaysQuiet, UploadStaysKept,
               UploadCreditHolds, DownloadCreditHolds, UploadStaysInOrder DEF FlowInv
<1>3. CASE UNCHANGED flowVars
  BY <1>3 DEF FlowInv, FlowTypeOK, CellsAddressed, BegunOnce, UnheardIsQuiet, UploadKept, UploadCredit, DownloadCredit,
              UploadInOrder, flowVars, Count
<1>4. QED BY <1>2, <1>3

\* and where it holds, a full window has an answer on the way.
LEMMA WindowsReopen == FlowInv => WindowReopens
<1> SUFFICES ASSUME FlowInv PROVE WindowReopens
  OBVIOUS
<1>0. FlowTyped
  BY FlowTypeIs DEF FlowInv
<1>1. /\ Cardinality(Granted) \in Nat /\ (Cardinality(Granted) > 0 <=> Granted # {})
      /\ Count(up, "data") \in Nat /\ Count(up, "sendme") \in Nat
      /\ Count(down, "data") \in Nat /\ Count(down, "sendme") \in Nat
      /\ flowOrigin.inflight \in Nat /\ flowOrigin.delivered \in Nat /\ flowOrigin.delivered < CircInc
      /\ relay.inflight \in Nat /\ relay.delivered \in Nat /\ relay.delivered < CircInc
  BY <1>0, CreditTerms, GrantedMoves
<1>2. flowOrigin.cwnd >= CircInc /\ relay.cwnd >= CircInc /\ flowOrigin.cwnd \in Nat /\ relay.cwnd \in Nat
  BY <1>0, FlowNumbers DEF FlowTyped, Circuit
<1>3. CircInc * 0 = 0
  BY FlowNumbers
<1>4. ASSUME ~ CanSend(flowOrigin), Count(up, "data") + Count(down, "sendme") <= 0
      PROVE  \E s \in Streams : writer[s] = "granted"
  <2>1. flowOrigin.inflight >= CircInc
    BY <1>1, <1>2, <1>4, FlowNumbers DEF CanSend
  <2>2. Count(up, "data") = 0 /\ Count(down, "sendme") = 0
    BY <1>1, <1>4
  <2>3. flowOrigin.inflight = Cardinality(Granted) + 0 + relay.delivered + 0
    BY <1>3, <2>2, Zenon DEF FlowInv, UploadCredit, Granted
  <2>4. Cardinality(Granted) > 0
    BY <1>1, <2>1, <2>3, FlowNumbers
  <2>5. QED BY <1>1, <2>4 DEF Granted
<1>5. ASSUME ~ CanSend(relay), Count(down, "data") + Count(up, "sendme") <= 0 PROVE FALSE
  <2>1. relay.inflight >= CircInc
    BY <1>1, <1>2, <1>5, FlowNumbers DEF CanSend
  <2>2. Count(down, "data") = 0 /\ Count(up, "sendme") = 0
    BY <1>1, <1>5
  <2>3. relay.inflight <= 0 + flowOrigin.delivered + 0
    BY <1>3, <2>2, Zenon DEF FlowInv, DownloadCredit
  <2>4. QED BY <1>1, <2>1, <2>3, FlowNumbers
<1>6. QED BY <1>1, <1>4, <1>5 DEF WindowReopens

\* Whatever the windows, the cells and the ends of the streams: what the client counts in
\* flight is under way or granted or about to be answered, a full window always has its
\* answer coming, and a target is given the chunks of its upload in order and none twice
\* (stream.rs, circuit_mgr.rs; the pumps and handlers of node.rs).
THEOREM FlowIsAccounted == FlowSpec => [](FlowTypeOK /\ FlowAccounted)
<1>1. FlowInv => FlowTypeOK /\ FlowAccounted
  BY WindowsReopen DEF FlowInv, FlowAccounted
<1>2. QED BY <1>1, FlowInitOK, FlowStepOK, PTL DEF FlowSpec
=============================================================================

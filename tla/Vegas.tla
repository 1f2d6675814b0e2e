------------------------------- MODULE Vegas --------------------------------
(***************************************************************************)
(* The congestion controller of one circuit end (congestion.rs, Vegas) and *)
(* the far end that answers every SendmeInc-th cell with a SENDME.         *)
(*                                                                         *)
(* Durations are whole clock ticks.  The far end is a queue: SENDMEs come  *)
(* back in order, each after any delay.                                    *)
(***************************************************************************)
EXTENDS Integers, Sequences

CONSTANTS
  SendmeInc,    \* CC_SENDME_INC, also CC_CWND_INC
  CwndMin,      \* CC_CWND_MIN
  CwndMax,      \* CC_CWND_MAX
  CwndInit,     \* CC_CWND_INIT
  Alpha,        \* CC_VEGAS_ALPHA
  Beta,         \* CC_VEGAS_BETA
  Gamma,        \* CC_VEGAS_GAMMA
  None,         \* Option::None
  MaxSent,      \* bound: cells sent
  MaxTime       \* bound: clock ticks

ASSUME WindowAssumption ==
  /\ SendmeInc \in Nat \ {0}
  /\ CwndMin \in Nat /\ SendmeInc <= CwndMin
  /\ CwndInit \in Nat /\ CwndMin <= CwndInit
  /\ CwndMax \in Nat /\ CwndInit <= CwndMax
ASSUME VegasAssumption == Alpha \in Nat /\ Beta \in Nat /\ Gamma \in Nat
ASSUME NoneAssumption  == None \notin Int
ASSUME LimitAssumption == MaxSent \in Nat /\ MaxTime \in Nat

VARIABLES
  cwnd,         \* congestion window
  inflight,     \* cells sent and not acked
  slowStart,    \* slow_start
  rttMin,       \* rtt_min
  rttEwma,      \* rtt_ewma
  trigger,      \* sendme_trigger_sent
  totalSent,    \* total_sent
  now,          \* the clock
  unanswered    \* send times of the trigger cells not answered yet, in order

vars == <<cwnd, inflight, slowStart, rttMin, rttEwma, trigger, totalSent, now, unanswered>>

Least(a, b) == IF a <= b THEN a ELSE b
Most(a, b)  == IF a >= b THEN a ELSE b

\* Mutant: no ceiling.
Clamp_unceiled(target) == Most(CwndMin, target)

\* set_cwnd.
Clamp(target) == Most(CwndMin, Least(CwndMax, target))

\* fold_rtt.
FoldMin(sample)  == IF rttMin = None THEN sample ELSE Least(rttMin, sample)
FoldEwma(sample) == IF rttEwma = None THEN sample ELSE (7 * rttEwma + sample) \div 8

\* queue_estimate, for an estimate ewma and a minimum min.
QueueEstimate(ewma, min) ==
  IF ewma = 0 THEN 0 ELSE (cwnd * Most(0, ewma - min)) \div ewma

-----------------------------------------------------------------------------

Init ==
  /\ cwnd = CwndInit
  /\ inflight = 0
  /\ slowStart = TRUE
  /\ rttMin = None /\ rttEwma = None /\ trigger = None
  /\ totalSent = 0
  /\ now = 0
  /\ unanswered = <<>>

\* Mutant: the trigger is the cell after each whole increment.
OnSend_late ==
  /\ inflight < cwnd
  /\ totalSent < MaxSent
  /\ inflight' = inflight + 1
  /\ totalSent' = totalSent + 1
  /\ IF totalSent > 0 /\ totalSent % SendmeInc = 0
       THEN trigger' = now /\ unanswered' = Append(unanswered, now)
       ELSE UNCHANGED <<trigger, unanswered>>
  /\ UNCHANGED <<cwnd, slowStart, rttMin, rttEwma, now>>

\* can_send, then on_send: the slot remembers the last trigger only.
OnSend ==
  /\ inflight < cwnd
  /\ totalSent < MaxSent
  /\ inflight' = inflight + 1
  /\ totalSent' = totalSent + 1
  /\ IF (totalSent + 1) % SendmeInc = 0
       THEN trigger' = now /\ unanswered' = Append(unanswered, now)
       ELSE UNCHANGED <<trigger, unanswered>>
  /\ UNCHANGED <<cwnd, slowStart, rttMin, rttEwma, now>>

\* update_cwnd, with the estimates folded by then.
UpdateCwnd(queue) ==
  \/ /\ slowStart /\ queue > Gamma
     /\ slowStart' = FALSE
     /\ cwnd' = Clamp((3 * cwnd) \div 4)
  \/ /\ slowStart /\ queue <= Gamma
     /\ slowStart' = slowStart
     /\ cwnd' = Clamp(cwnd + SendmeInc)
  \/ /\ ~ slowStart
     /\ slowStart' = slowStart
     /\ cwnd' = IF queue < Alpha THEN Clamp(cwnd + SendmeInc)
                ELSE IF queue > Beta THEN Clamp(Most(0, cwnd - SendmeInc))
                ELSE cwnd

\* on_sendme: the answer to the oldest unanswered trigger arrives.
OnSendme ==
  /\ unanswered # <<>>
  /\ unanswered' = Tail(unanswered)
  /\ inflight' = inflight - Least(SendmeInc, inflight)
  /\ trigger' = None
  /\ IF trigger # None
       THEN /\ rttMin' = FoldMin(now - trigger)
            /\ rttEwma' = FoldEwma(now - trigger)
       ELSE UNCHANGED <<rttMin, rttEwma>>
  /\ IF rttEwma' # None
       THEN UpdateCwnd(QueueEstimate(rttEwma', rttMin'))
       ELSE UNCHANGED <<cwnd, slowStart>>
  /\ UNCHANGED <<totalSent, now>>

Tick ==
  /\ now < MaxTime
  /\ now' = now + 1
  /\ UNCHANGED <<cwnd, inflight, slowStart, rttMin, rttEwma, trigger, totalSent, unanswered>>

Next == OnSend \/ OnSendme \/ Tick

Spec == Init /\ [][Next]_vars

-----------------------------------------------------------------------------

TypeOK ==
  /\ cwnd \in CwndMin .. CwndMax
  /\ inflight \in Nat
  /\ slowStart \in BOOLEAN
  /\ rttMin \in Nat \cup {None} /\ rttEwma \in Nat \cup {None}
  /\ trigger \in (0 .. now) \cup {None}
  /\ totalSent \in Nat /\ now \in Nat
  /\ unanswered \in Seq(Nat)

(***************************************************************************)
(* The saturating subtraction of queue_estimate never saturates: the       *)
(* smoothed RTT, rounded down at every fold, does not sink below the       *)
(* minimum, so a real queue is never estimated as none by underflow.       *)
(***************************************************************************)
MinBelowEwma ==
  /\ (rttMin = None) <=> (rttEwma = None)
  /\ rttMin # None => rttMin <= rttEwma

(***************************************************************************)
(* inflight is exact: every SENDME takes off a whole increment, never a    *)
(* clipped one, so the window is neither leaked nor minted over time.      *)
(***************************************************************************)
InflightExact ==
  inflight = SendmeInc * Len(unanswered) + (totalSent % SendmeInc)

(***************************************************************************)
(* A full window always has an answer coming that will reopen it: however  *)
(* far the window was cut meanwhile, a trigger cell is unanswered.         *)
(***************************************************************************)
FullWindowAnswered ==
  inflight >= cwnd => unanswered # <<>>

(***************************************************************************)
(* One SENDME never grows the window by more than one increment ("one full *)
(* window per RTT" in slow start), and slow start is left once and for all.*)
(***************************************************************************)
GrowthBounded ==
  [][cwnd' <= cwnd + SendmeInc /\ (slowStart' => slowStart)]_vars

\* Acknowledgements are exact: no cell is counted twice or forgotten, a full window
\* has its answer under way, and the minimum round trip is one.
AcksExact == MinBelowEwma /\ InflightExact /\ FullWindowAnswered
=============================================================================

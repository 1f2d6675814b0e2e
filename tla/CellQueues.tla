----------------------------- MODULE CellQueues -----------------------------
(***************************************************************************)
(* The per-circuit send queues of one peer link (node.rs, CellQueues) and  *)
(* the EWMA policy that picks between them (circuit_sched.rs,              *)
(* EwmaScheduler).                                                         *)
(*                                                                         *)
(* A cell is <<c, n>>: the n-th cell pushed for circuit c.  Scores are     *)
(* f64 values in the code, all multiplied by one factor < 1 whenever time  *)
(* has passed.  Only their order is ever read, so the model keeps the      *)
(* scores and doubles the weight of the cells to come: the same order,     *)
(* in integers.  (The code drops a score below 0.001, i.e. after ten half  *)
(* lives of silence; MaxDecay keeps the model below that.)                 *)
(***************************************************************************)
EXTENDS Naturals, Sequences, FiniteSets

CONSTANTS
  Circuits,   \* circuit ids with cells for this link; ids break ties
  MaxPush,    \* bound: cells pushed, per circuit
  MaxDecay    \* bound: half-lives that elapse

ASSUME CircuitsAssumption == Circuits \subseteq Nat
ASSUME BoundsAssumption   == MaxPush \in [Circuits -> Nat] /\ MaxDecay \in Nat

VARIABLES
  q,          \* unsealed cells waiting, per circuit
  score,      \* recent cells sent per circuit, in units of the weight then
  weight,     \* what one cell weighs now: 2^(half-lives elapsed)
  unnotified, \* pushes that have queued a cell and not yet called notify_one
  permit,     \* the one permit a tokio Notify stores
  pushed,     \* cells pushed so far, per circuit
  sent,       \* cells taken so far, per circuit
  overtaken   \* overtaken[c][d]: cells of d taken since c last became the
              \* owner of an unserved head cell (history)

queueVars == <<q, score, weight, unnotified, permit, pushed, sent, overtaken>>

Ready == {c \in Circuits : q[c] # <<>>}

\* Mutant: ties only; the scores are not looked at.
Quietest_unscored(c) ==
  c \in Ready /\ \A d \in Ready \ {c} : c < d

\* EwmaScheduler::next: the lowest score, ties to the lowest id.
Quietest(c) ==
  /\ c \in Ready
  /\ \A d \in Ready \ {c} : \/ score[c] < score[d]
                            \/ score[c] = score[d] /\ c < d

-----------------------------------------------------------------------------

QueuesInit ==
  /\ q = [c \in Circuits |-> <<>>]
  /\ score = [c \in Circuits |-> 0]
  /\ weight = 1
  /\ unnotified = 0
  /\ permit = FALSE
  /\ pushed = [c \in Circuits |-> 0]
  /\ sent = [c \in Circuits |-> 0]
  /\ overtaken = [c \in Circuits |-> [d \in Circuits |-> 0]]

\* CellQueues::push, first half: append under the lock.
Push(c) ==
  /\ pushed[c] < MaxPush[c]
  /\ q' = [q EXCEPT ![c] = Append(@, <<c, pushed[c] + 1>>)]
  /\ pushed' = [pushed EXCEPT ![c] = @ + 1]
  /\ unnotified' = unnotified + 1
  /\ UNCHANGED <<score, weight, permit, sent, overtaken>>

\* CellQueues::push, second half: notify_one, after the lock is released.
\* A Notify stores at most one permit.
NotifyOne ==
  /\ unnotified > 0
  /\ unnotified' = unnotified - 1
  /\ permit' = TRUE
  /\ UNCHANGED <<q, score, weight, pushed, sent, overtaken>>

\* CellQueues::pop_next and note_sent, under one lock.
PopNext(c) ==
  /\ Quietest(c)
  /\ q' = [q EXCEPT ![c] = Tail(@)]
  /\ score' = [score EXCEPT ![c] = @ + weight]
  /\ sent' = [sent EXCEPT ![c] = @ + 1]
  /\ overtaken' = [e \in Circuits |->
       IF e = c THEN [d \in Circuits |-> 0]
       ELSE IF e \in Ready THEN [overtaken[e] EXCEPT ![c] = @ + 1]
       ELSE overtaken[e]]
  /\ UNCHANGED <<weight, unnotified, permit, pushed>>

\* CellQueues::wait returns: notified().await consumes the permit.
Wake ==
  /\ permit
  /\ permit' = FALSE
  /\ UNCHANGED <<q, score, weight, unnotified, pushed, sent, overtaken>>

\* EwmaScheduler::decay: a half-life passes between two uses.
Decay ==
  /\ weight < 2 ^ MaxDecay
  /\ weight' = 2 * weight
  /\ UNCHANGED <<q, score, unnotified, permit, pushed, sent, overtaken>>

-----------------------------------------------------------------------------

QueuesNext ==
  \/ \E c \in Circuits : Push(c) \/ PopNext(c)
  \/ NotifyOne
  \/ Wake
  \/ Decay

QueuesSpec == QueuesInit /\ [][QueuesNext]_queueVars

-----------------------------------------------------------------------------

QueuesTypeOK ==
  /\ q \in [Circuits -> Seq(Circuits \X (Nat \ {0}))]
  /\ score \in [Circuits -> Nat]
  /\ weight \in Nat \ {0}
  /\ unnotified \in Nat
  /\ permit \in BOOLEAN
  /\ pushed \in [Circuits -> Nat]
  /\ sent \in [Circuits -> Nat]
  /\ overtaken \in [Circuits -> [Circuits -> Nat]]

(***************************************************************************)
(* "Within a circuit the queue is strictly FIFO": what waits in a queue    *)
(* is exactly the cells pushed and not yet taken, in the order they were   *)
(* pushed; none is lost, duplicated or moved to another circuit.           *)
(***************************************************************************)
CircuitFIFO ==
  \A c \in Circuits :
    /\ pushed[c] = sent[c] + Len(q[c])
    /\ \A i \in 1 .. Len(q[c]) : q[c][i] = <<c, sent[c] + i>>

(***************************************************************************)
(* "Serve the quietest first ... one that's been flooding waits its turn": *)
(* waiting is bounded.  However much circuit d floods, it passes the head  *)
(* cell of a waiting circuit c at most once more than c has itself sent,   *)
(* whatever time passes meanwhile.                                         *)
(***************************************************************************)
BoundedOvertaking ==
  \A c, d \in Circuits : overtaken[c][d] <= sent[c] + 1
=============================================================================

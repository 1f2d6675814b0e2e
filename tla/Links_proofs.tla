---------------------------- MODULE Links_proofs ----------------------------
(***************************************************************************)
(* What the tasks that share one direction of a link guarantee, for any    *)
(* number of circuits, senders, cells and any capacity of the channel: the *)
(* queues it takes cells from are fair and in order, no wakeup is lost, no *)
(* nonce is used twice, and the link as a whole is the ordered link its    *)
(* users rely on.  What the identities of nodes and the keys pinned for    *)
(* them guarantee, for any number of nodes, of them rebooting, and any     *)
(* bounds.  And that the certificates nodes generate are ones all accept,  *)
(* for any size of certificate.                                            *)
(***************************************************************************)
EXTENDS LinkWriter, Descriptors, CertRotation, FiniteSetTheorems, FunctionTheorems, TLAPS, Integers

(* The send queues, for any circuits, cells and half-lives. *)

(***************************************************************************)
(* Why waiting is bounded: for a circuit c there is a weight w, what a     *)
(* cell weighed when c began to wait, such that c's own score is worth at  *)
(* most its cells at w, and each cell that passed c counted w or more.     *)
(***************************************************************************)
Witnessed(c, w) ==
  /\ w \in 1 .. weight
  /\ score[c] <= sent[c] * w
  /\ \A d \in Circuits : overtaken[c][d] * w <= score[d]

QueuesInv ==
  /\ QueuesTypeOK
  /\ CircuitFIFO
  /\ BoundedOvertaking
  /\ \A c \in Circuits : \E w \in Nat : Witnessed(c, w)

-----------------------------------------------------------------------------
(* Arithmetic of scores. *)

\* A product grows with its factor.
LEMMA TimesMonotone ==
  ASSUME NEW k \in Nat, NEW a \in Nat, NEW b \in Nat, a <= b
  PROVE  k * a <= k * b /\ a * k <= b * k
  BY SMT

\* A positive factor can be cancelled.
LEMMA TimesCancel ==
  ASSUME NEW w \in Nat \ {0}, NEW a \in Nat, NEW b \in Nat, a * w <= b * w
  PROVE  a <= b
  BY SMT

-----------------------------------------------------------------------------
(* The initial state and the steps. *)

LEMMA InitQueuesInv ==
  ASSUME QueuesInit PROVE QueuesInv
<1>. USE DEF QueuesInit
<1>1. QueuesTypeOK
  <2>1. permit \in BOOLEAN OBVIOUS
  <2>. QED BY <2>1 DEF QueuesTypeOK
<1>2. CircuitFIFO BY DEF CircuitFIFO
<1>3. BoundedOvertaking BY DEF BoundedOvertaking
<1>4. \A c \in Circuits : Witnessed(c, 1) BY DEF Witnessed
<1>. QED BY <1>1, <1>2, <1>3, <1>4 DEF QueuesInv

\* A step that leaves scores, counts and weights alone keeps what is said of them.
LEMMA ScoresUntouched ==
  ASSUME QueuesInv, UNCHANGED <<score, weight, sent, overtaken>>
  PROVE  BoundedOvertaking' /\ (\A c \in Circuits : \E w \in Nat : Witnessed(c, w))'
BY DEF QueuesInv, BoundedOvertaking, Witnessed

\* What the type invariant says of each circuit.
LEMMA Typed ==
  ASSUME QueuesTypeOK
  PROVE  /\ weight \in Nat \ {0}
         /\ \A c \in Circuits : /\ score[c] \in Nat /\ sent[c] \in Nat /\ pushed[c] \in Nat
                                /\ q[c] \in Seq(Circuits \X (Nat \ {0}))
                                /\ Len(q[c]) \in Nat
         /\ \A c, d \in Circuits : overtaken[c][d] \in Nat
<1>. USE DEF QueuesTypeOK
<1>1. \A c \in Circuits : q[c] \in Seq(Circuits \X (Nat \ {0})) OBVIOUS
<1>2. \A c \in Circuits : Len(q[c]) \in Nat BY <1>1
<1>3. \A c, d \in Circuits : overtaken[c][d] \in Nat OBVIOUS
<1>. QED BY <1>1, <1>2, <1>3

LEMMA PushKeepsInv ==
  ASSUME QueuesInv, NEW c \in Circuits, Push(c) PROVE QueuesInv'
<1>t. /\ \A d \in Circuits : /\ pushed[d] \in Nat /\ sent[d] \in Nat
                             /\ q[d] \in Seq(Circuits \X (Nat \ {0})) /\ Len(q[d]) \in Nat
      /\ CircuitFIFO
  BY Typed DEF QueuesInv
<1>1. QueuesTypeOK'
  <2>1. <<c, pushed[c] + 1>> \in Circuits \X (Nat \ {0}) BY <1>t
  <2>2. q' \in [Circuits -> Seq(Circuits \X (Nat \ {0}))]
    BY <2>1 DEF QueuesInv, QueuesTypeOK, Push
  <2>. QED BY <2>2 DEF QueuesInv, QueuesTypeOK, Push
<1>2. CircuitFIFO'
  <2> SUFFICES ASSUME NEW d \in Circuits
               PROVE  /\ pushed'[d] = sent'[d] + Len(q'[d])
                      /\ \A i \in 1 .. Len(q'[d]) : q'[d][i] = <<d, sent'[d] + i>>
    BY DEF CircuitFIFO
  <2>1. CASE d # c
    <3>1. q'[d] = q[d] /\ pushed'[d] = pushed[d] /\ sent'[d] = sent[d]
      BY <2>1 DEF QueuesInv, QueuesTypeOK, Push
    <3>. QED BY <3>1, <1>t DEF CircuitFIFO
  <2>2. CASE d = c
    <3>1. /\ q'[c] = Append(q[c], <<c, pushed[c] + 1>>)
          /\ pushed'[c] = pushed[c] + 1 /\ sent'[c] = sent[c]
      BY DEF QueuesInv, QueuesTypeOK, Push
    <3>2. Len(q'[c]) = Len(q[c]) + 1 BY <3>1, <1>t
    <3>3. pushed[c] = sent[c] + Len(q[c]) BY <1>t DEF CircuitFIFO
    <3>n. pushed[c] \in Nat /\ sent[c] \in Nat /\ Len(q[c]) \in Nat BY <1>t
    <3>4. pushed'[c] = sent'[c] + Len(q'[c]) BY <3>1, <3>2, <3>3, <3>n
    <3>5. ASSUME NEW i \in 1 .. Len(q'[c]) PROVE q'[c][i] = <<c, sent'[c] + i>>
      <4>1. CASE i \in 1 .. Len(q[c])
        <5>1. q'[c][i] = q[c][i] BY <3>1, <4>1, <1>t
        <5>. QED BY <5>1, <4>1, <3>1, <1>t DEF CircuitFIFO
      <4>2. CASE i = Len(q[c]) + 1
        <5>1. q'[c][i] = <<c, pushed[c] + 1>> BY <3>1, <4>2, <1>t
        <5>2. pushed[c] + 1 = sent'[c] + i BY <3>1, <3>3, <4>2, <1>t
        <5>. QED BY <5>1, <5>2
      <4>3. i \in 1 .. Len(q[c]) + 1 BY <3>2
      <4>. QED BY <4>1, <4>2, <4>3, <1>t
    <3>. QED BY <3>4, <3>5, <2>2
  <2>. QED BY <2>1, <2>2
<1>3. UNCHANGED <<score, weight, sent, overtaken>> BY DEF Push
<1>. QED BY <1>1, <1>2, <1>3, ScoresUntouched DEF QueuesInv

LEMMA PopNextKeepsInv ==
  ASSUME QueuesInv, NEW c \in Circuits, PopNext(c) PROVE QueuesInv'
<1>t. /\ weight \in Nat \ {0}
      /\ \A d \in Circuits : /\ score[d] \in Nat /\ pushed[d] \in Nat /\ sent[d] \in Nat
                             /\ q[d] \in Seq(Circuits \X (Nat \ {0})) /\ Len(q[d]) \in Nat
      /\ \A d, e \in Circuits : overtaken[d][e] \in Nat
  BY Typed DEF QueuesInv
<1>i. CircuitFIFO /\ BoundedOvertaking BY DEF QueuesInv
<1>0. c \in Ready /\ q[c] # <<>> BY DEF PopNext, Quietest, Ready
<1>1. QueuesTypeOK'
  <2>1. Tail(q[c]) \in Seq(Circuits \X (Nat \ {0})) BY <1>0, <1>t
  <2>2. q' \in [Circuits -> Seq(Circuits \X (Nat \ {0}))]
    BY <2>1 DEF PopNext, QueuesInv, QueuesTypeOK
  <2>3. score' \in [Circuits -> Nat] /\ sent' \in [Circuits -> Nat]
    BY DEF PopNext, QueuesInv, QueuesTypeOK
  <2>4. overtaken' \in [Circuits -> [Circuits -> Nat]]
    <3>1. \A e \in Circuits : [overtaken[e] EXCEPT ![c] = @ + 1] \in [Circuits -> Nat]
      BY DEF QueuesInv, QueuesTypeOK
    <3>. QED BY <3>1 DEF PopNext, QueuesInv, QueuesTypeOK
  <2>. QED BY <2>2, <2>3, <2>4 DEF PopNext, QueuesInv, QueuesTypeOK
<1>2. /\ weight' = weight
      /\ \A d \in Circuits :
           /\ pushed'[d] = pushed[d]
           /\ d = c => /\ q'[d] = Tail(q[d]) /\ score'[d] = score[d] + weight
                       /\ sent'[d] = sent[d] + 1
           /\ d # c => /\ q'[d] = q[d] /\ score'[d] = score[d] /\ sent'[d] = sent[d]
           /\ score[d] <= score'[d] /\ score'[d] \in Nat
  <2>1. weight' = weight /\ pushed' = pushed BY DEF PopNext
  <2>2. ASSUME NEW d \in Circuits
        PROVE  /\ d = c => /\ q'[d] = Tail(q[d]) /\ score'[d] = score[d] + weight
                           /\ sent'[d] = sent[d] + 1
               /\ d # c => /\ q'[d] = q[d] /\ score'[d] = score[d] /\ sent'[d] = sent[d]
    BY DEF PopNext, QueuesInv, QueuesTypeOK
  <2>3. ASSUME NEW d \in Circuits PROVE score[d] <= score'[d] /\ score'[d] \in Nat
    BY <2>2, <1>t
  <2>. QED BY <2>1, <2>2, <2>3
<1>3. \A e, d \in Circuits :
        overtaken'[e][d] = IF e = c THEN 0
                           ELSE IF e \in Ready /\ d = c THEN overtaken[e][d] + 1
                           ELSE overtaken[e][d]
  BY DEF PopNext, QueuesInv, QueuesTypeOK
<1>4. CircuitFIFO'
  <2> SUFFICES ASSUME NEW d \in Circuits
               PROVE  /\ pushed'[d] = sent'[d] + Len(q'[d])
                      /\ \A i \in 1 .. Len(q'[d]) : q'[d][i] = <<d, sent'[d] + i>>
    BY DEF CircuitFIFO
  <2>1. CASE d # c BY <2>1, <1>2, <1>i DEF CircuitFIFO
  <2>2. CASE d = c
    <3>1. Len(q'[c]) = Len(q[c]) - 1 /\ \A i \in 1 .. Len(q'[c]) : q'[c][i] = q[c][i + 1]
      <4>1. q'[c] = Tail(q[c]) BY <1>2
      <4>2. q[c] \in Seq(Circuits \X (Nat \ {0})) /\ Len(q[c]) \in Nat BY <1>t
      <4>. QED BY <4>1, <4>2, <1>0
    <3>2. ASSUME NEW i \in 1 .. Len(q'[c]) PROVE q'[c][i] = <<c, sent'[c] + i>>
      <4>1. i + 1 \in 1 .. Len(q[c]) BY <3>1, <1>t
      <4>2. q'[c][i] = <<c, sent[c] + (i + 1)>> BY <3>1, <4>1, <1>i DEF CircuitFIFO
      <4>3. sent[c] + (i + 1) = sent'[c] + i BY <1>2, <1>t
      <4>. QED BY <4>2, <4>3
    <3>3. pushed[c] = sent[c] + Len(q[c]) BY <1>i DEF CircuitFIFO
    <3>4. pushed'[c] = sent'[c] + Len(q'[c])
      <4>1. pushed'[c] = pushed[c] /\ sent'[c] = sent[c] + 1 BY <1>2
      <4>2. Len(q[c]) \in Nat /\ sent[c] \in Nat BY <1>t
      <4>. QED BY <3>1, <3>3, <4>1, <4>2
    <3>. QED BY <3>2, <3>4, <2>2
  <2>. QED BY <2>1, <2>2
<1>5. ASSUME NEW e \in Circuits, NEW w \in Nat, Witnessed(e, w)
      PROVE  /\ \A d \in Circuits : overtaken'[e][d] <= sent'[e] + 1
             /\ \E v \in Nat : Witnessed(e, v)'
  <2>0. /\ w \in Nat \ {0} /\ w <= weight
        /\ score[e] <= sent[e] * w
        /\ \A d \in Circuits : overtaken[e][d] * w <= score[d]
    BY <1>5, <1>t DEF Witnessed
  <2>1. CASE e = c
    <3>1. sent[c] * w <= sent[c] * weight BY <2>0, <1>t, TimesMonotone
    <3>2. sent[c] * w \in Nat /\ sent[c] * weight \in Nat
          /\ (sent[c] + 1) * weight = sent[c] * weight + weight
      <4>1. sent[c] \in Nat /\ weight \in Nat BY <1>t
      <4>. QED BY <4>1, <2>0, SMT
    <3>3. score'[c] <= sent'[c] * weight' BY <2>0, <2>1, <3>1, <3>2, <1>2, <1>t
    <3>4. \A d \in Circuits : overtaken'[c][d] = 0 BY <1>3
    <3>5. \A d \in Circuits : overtaken'[c][d] * weight' <= score'[d]
      BY <3>4, <1>2, <1>t
    <3>6. Witnessed(c, weight)' BY <3>3, <3>5, <1>2, <1>t DEF Witnessed
    <3>7. weight' \in Nat BY <1>2, <1>t
    <3>8. \E v \in Nat : Witnessed(c, v)' BY <3>6, <3>7, <1>2
    <3>9. \A d \in Circuits : overtaken'[c][d] <= sent'[c] + 1 BY <3>4, <1>2, <1>t
    <3>. QED BY <2>1, <3>8, <3>9
  <2>2. CASE e # c /\ e \in Ready
    <3>1. score[c] <= score[e]
      <4>1. score[c] < score[e] \/ score[c] = score[e] BY <2>2 DEF PopNext, Quietest
      <4>. QED BY <4>1, <1>t
    <3>2. overtaken[e][c] * w \in Nat /\ sent[e] * w \in Nat
          /\ (overtaken[e][c] + 1) * w = overtaken[e][c] * w + w
      <4>1. overtaken[e][c] \in Nat /\ sent[e] \in Nat BY <1>t
      <4>. QED BY <4>1, <2>0, SMT
    <3>3. overtaken[e][c] * w <= sent[e] * w BY <2>0, <3>1, <3>2, <1>t
    <3>4. overtaken[e][c] <= sent[e] BY <2>0, <3>3, <1>t, TimesCancel
    <3>5. overtaken'[e][c] = overtaken[e][c] + 1 /\ sent'[e] = sent[e] /\ score'[e] = score[e]
      BY <2>2, <1>2, <1>3
    <3>6. ASSUME NEW d \in Circuits, d # c
          PROVE  overtaken'[e][d] = overtaken[e][d] /\ score'[d] = score[d]
      BY <2>2, <3>6, <1>2, <1>3
    <3>7. \A d \in Circuits : overtaken'[e][d] <= sent'[e] + 1
      <4>1. overtaken'[e][c] <= sent'[e] + 1 BY <3>4, <3>5, <1>t
      <4>. QED BY <4>1, <3>5, <3>6, <1>i DEF BoundedOvertaking
    <3>8. overtaken'[e][c] * w <= score'[c]
      <4>1. overtaken'[e][c] * w = overtaken[e][c] * w + w BY <3>2, <3>5
      <4>2. score'[c] = score[c] + weight /\ score[c] \in Nat /\ weight \in Nat BY <1>2, <1>t
      <4>3. overtaken[e][c] * w <= score[c] BY <2>0
      <4>. QED BY <4>1, <4>2, <4>3, <3>2, <2>0
    <3>9. \A d \in Circuits : overtaken'[e][d] * w <= score'[d] BY <2>0, <3>6, <3>8
    <3>10. Witnessed(e, w)' BY <2>0, <3>5, <3>9, <1>2, <1>t DEF Witnessed
    <3>. QED BY <3>7, <3>10
  <2>3. CASE e # c /\ e \notin Ready
    <3>1. /\ \A d \in Circuits : overtaken'[e][d] = overtaken[e][d]
          /\ sent'[e] = sent[e] /\ score'[e] = score[e]
      BY <2>3, <1>2, <1>3
    <3>2. ASSUME NEW d \in Circuits PROVE overtaken'[e][d] * w <= score'[d]
      <4>1. overtaken[e][d] * w <= score[d] /\ score[d] <= score'[d] BY <2>0, <1>2
      <4>2. overtaken[e][d] \in Nat /\ score[d] \in Nat /\ score'[d] \in Nat BY <1>t, <1>2
      <4>3. overtaken[e][d] * w \in Nat BY <4>2, <2>0, SMT
      <4>. QED BY <4>1, <4>2, <4>3, <3>1
    <3>3. Witnessed(e, w)' BY <2>0, <3>1, <3>2, <1>2, <1>t DEF Witnessed
    <3>. QED BY <3>1, <3>3, <1>i DEF BoundedOvertaking
  <2>. QED BY <2>1, <2>2, <2>3
<1>6. (\A e \in Circuits : \E w \in Nat : Witnessed(e, w))' /\ BoundedOvertaking'
  <2> SUFFICES ASSUME NEW e \in Circuits
               PROVE  /\ \A d \in Circuits : overtaken'[e][d] <= sent'[e] + 1
                      /\ \E v \in Nat : Witnessed(e, v)'
    BY DEF BoundedOvertaking
  <2>1. PICK w \in Nat : Witnessed(e, w) BY DEF QueuesInv
  <2>. QED BY <2>1, <1>5
<1>. QED BY <1>1, <1>4, <1>6 DEF QueuesInv

LEMMA DecayKeepsInv ==
  ASSUME QueuesInv, Decay PROVE QueuesInv'
<1>. USE DEF QueuesInv, QueuesTypeOK, Decay
<1>1. QueuesTypeOK' OBVIOUS
<1>2. CircuitFIFO' BY DEF CircuitFIFO
<1>3. BoundedOvertaking' BY DEF BoundedOvertaking
<1>4. \A c \in Circuits, w \in Nat : Witnessed(c, w) => Witnessed(c, w)' BY DEF Witnessed
<1>. QED BY <1>1, <1>2, <1>3, <1>4

\* NotifyOne, Wake and stuttering touch neither queues nor scores.
LEMMA SignalKeepsInv ==
  ASSUME QueuesInv, NotifyOne \/ Wake \/ UNCHANGED queueVars PROVE QueuesInv'
<1>. USE DEF QueuesInv, QueuesTypeOK, NotifyOne, Wake, queueVars
<1>1. QueuesTypeOK'
  <2>1. permit' \in BOOLEAN OBVIOUS
  <2>2. unnotified' \in Nat OBVIOUS
  <2>. QED BY <2>1, <2>2
<1>2. CircuitFIFO' BY DEF CircuitFIFO
<1>3. UNCHANGED <<score, weight, sent, overtaken>> OBVIOUS
<1>. QED BY <1>1, <1>2, <1>3, ScoresUntouched

(***************************************************************************)
(* In every reachable state the queues are typed, hold exactly what was    *)
(* pushed and not taken, in order, and no circuit is overtaken beyond the  *)
(* bound.                                                                  *)
(***************************************************************************)
THEOREM QueuesSafe == QueuesSpec => []QueuesInv
<1>1. QueuesInit => QueuesInv BY InitQueuesInv
<1>2. QueuesInv /\ [QueuesNext]_queueVars => QueuesInv'
  <2> SUFFICES ASSUME QueuesInv, [QueuesNext]_queueVars PROVE QueuesInv'
    OBVIOUS
  <2>1. CASE \E c \in Circuits : Push(c) BY <2>1, PushKeepsInv
  <2>2. CASE \E c \in Circuits : PopNext(c) BY <2>2, PopNextKeepsInv
  <2>3. CASE Decay BY <2>3, DecayKeepsInv
  <2>4. CASE NotifyOne \/ Wake \/ UNCHANGED queueVars BY <2>4, SignalKeepsInv
  <2>. QED BY <2>1, <2>2, <2>3, <2>4 DEF QueuesNext
<1>. QED BY <1>1, <1>2, PTL DEF QueuesSpec

(***************************************************************************)
(* CellQueues' own promise, "within a circuit the queue is strictly FIFO": *)
(* whatever is pushed and taken, each queue is the pushed cells not yet    *)
(* taken, in the order of push.                                            *)
(***************************************************************************)
THEOREM QueueIsFIFO == QueuesSpec => []CircuitFIFO
<1>1. QueuesInv => CircuitFIFO BY DEF QueuesInv
<1>. QED BY <1>1, QueuesSafe, PTL

(***************************************************************************)
(* The scheduler's promise, "serve the quietest first": no number of       *)
(* circuits, cells or half-lives lets one circuit pass a waiting one more  *)
(* than once more than that one has been served.                           *)
(***************************************************************************)
THEOREM OvertakingIsBounded == QueuesSpec => []BoundedOvertaking
<1>1. QueuesInv => BoundedOvertaking BY DEF QueuesInv
<1>. QED BY <1>1, QueuesSafe, PTL

-----------------------------------------------------------------------------
(* The link. *)

(***************************************************************************)
(* No two places that hold a sealed cell hold the same nonce: a cell is on *)
(* the wire, in a frame of the channel, or in the frame a task still       *)
(* fills.                                                                  *)
(***************************************************************************)
WireApart ==
  \A i, j \in 1 .. Len(wire) : wire[i].nonce = wire[j].nonce => i = j
ChannelApart ==
  \A k, l \in 1 .. Len(rx) : \A i \in 1 .. Len(rx[k]), j \in 1 .. Len(rx[l]) :
    rx[k][i].nonce = rx[l][j].nonce => k = l /\ i = j
FramesApart ==
  \A s, t \in Senders : \A i \in 1 .. Len(frame[s]), j \in 1 .. Len(frame[t]) :
    frame[s][i].nonce = frame[t][j].nonce => s = t /\ i = j
WireOffChannel ==
  \A i \in 1 .. Len(wire), k \in 1 .. Len(rx) : \A j \in 1 .. Len(rx[k]) :
    wire[i].nonce # rx[k][j].nonce
WireOffFrames ==
  \A i \in 1 .. Len(wire), s \in Senders : \A j \in 1 .. Len(frame[s]) :
    wire[i].nonce # frame[s][j].nonce
ChannelOffFrames ==
  \A k \in 1 .. Len(rx), s \in Senders : \A i \in 1 .. Len(rx[k]), j \in 1 .. Len(frame[s]) :
    rx[k][i].nonce # frame[s][j].nonce

PlacesApart ==
  /\ WireApart /\ ChannelApart /\ FramesApart
  /\ WireOffChannel /\ WireOffFrames /\ ChannelOffFrames

\* Every sealed cell took its nonce from the counter, and the reader expects it still.
NoncesExpected ==
  \A x \in InFlight : x.nonce < sendNonce /\ (up => recvNonce <= x.nonce)

\* The last message of a source that is sealed to its end.
Done(s) ==
  IF s \in Circuits THEN sent[s] ELSE IF unsealed[s] > 0 THEN begun[s] - 1 ELSE begun[s]

(***************************************************************************)
(* Each source seals its messages one after the other, a message's last    *)
(* cell last: the order of nonces is the order of the source.  What the    *)
(* reader has yet to dispatch is complete while it runs.                   *)
(***************************************************************************)
SealedInOrder ==
  /\ \A x, y \in InFlight : x.src = y.src /\ x.n < y.n => x.nonce < y.nonce
  /\ \A x, y \in InFlight :
       x.src = y.src /\ x.n = y.n /\ ~ x.more /\ x # y => y.nonce < x.nonce

WithinSource ==
  /\ \A x \in InFlight :
       /\ up => Len(got[x.src]) < x.n
       /\ x.n <= Done(x.src) + 1
       /\ ~ x.more => x.n <= Done(x.src)
  /\ \A s \in Sources : Len(got[s]) <= Done(s)

NoneMissing ==
  up => \A s \in Sources : \A m \in Len(got[s]) + 1 .. Done(s) :
          \E x \in InFlight : x.src = s /\ x.n = m /\ ~ x.more

\* While the reader runs it has not passed the counter.
ReaderBehind == up => recvNonce <= sendNonce

LinkInv ==
  /\ TypeOK
  /\ QueuesInv
  /\ NoLostWakeup
  /\ PlacesApart
  /\ NoncesExpected
  /\ ReaderBehind
  /\ SealedInOrder
  /\ WithinSource
  /\ NoneMissing

-----------------------------------------------------------------------------
(* Where a cell in flight is. *)

LEMMA Places ==
  \A x : x \in InFlight <=>
     \/ \E i \in 1 .. Len(wire) : x = wire[i]
     \/ \E k \in 1 .. Len(rx) : \E i \in 1 .. Len(rx[k]) : x = rx[k][i]
     \/ \E s \in Senders : \E i \in 1 .. Len(frame[s]) : x = frame[s][i]
<1>1. \A x : x \in UNION {{frame[s][i] : i \in 1 .. Len(frame[s])} : s \in Senders}
              <=> \E s \in Senders : \E i \in 1 .. Len(frame[s]) : x = frame[s][i]
  OBVIOUS
<1>2. \A x : x \in UNION {{rx[j][i] : i \in 1 .. Len(rx[j])} : j \in 1 .. Len(rx)}
              <=> \E k \in 1 .. Len(rx) : \E i \in 1 .. Len(rx[k]) : x = rx[k][i]
  OBVIOUS
<1>3. \A x : x \in {wire[i] : i \in 1 .. Len(wire)} <=> \E i \in 1 .. Len(wire) : x = wire[i]
  OBVIOUS
<1>. QED BY <1>1, <1>2, <1>3 DEF InFlight

LEMMA PlacesNext ==
  \A x : x \in InFlight' <=>
     \/ \E i \in 1 .. Len(wire') : x = wire'[i]
     \/ \E k \in 1 .. Len(rx') : \E i \in 1 .. Len(rx'[k]) : x = rx'[k][i]
     \/ \E s \in Senders : \E i \in 1 .. Len(frame'[s]) : x = frame'[s][i]
<1>1. \A x : x \in UNION {{frame'[s][i] : i \in 1 .. Len(frame'[s])} : s \in Senders}
              <=> \E s \in Senders : \E i \in 1 .. Len(frame'[s]) : x = frame'[s][i]
  OBVIOUS
<1>2. \A x : x \in UNION {{rx'[j][i] : i \in 1 .. Len(rx'[j])} : j \in 1 .. Len(rx')}
              <=> \E k \in 1 .. Len(rx') : \E i \in 1 .. Len(rx'[k]) : x = rx'[k][i]
  OBVIOUS
<1>3. \A x : x \in {wire'[i] : i \in 1 .. Len(wire')} <=> \E i \in 1 .. Len(wire') : x = wire'[i]
  OBVIOUS
<1>. QED BY <1>1, <1>2, <1>3 DEF InFlight

LEMMA FlightTyped ==
  ASSUME TypeOK PROVE InFlight \subseteq LinkCell
<1> SUFFICES ASSUME NEW x \in InFlight PROVE x \in LinkCell
  OBVIOUS
<1>1. ASSUME NEW i \in 1 .. Len(wire) PROVE wire[i] \in LinkCell
  BY DEF TypeOK
<1>2. ASSUME NEW k \in 1 .. Len(rx), NEW i \in 1 .. Len(rx[k]) PROVE rx[k][i] \in LinkCell
  BY DEF TypeOK
<1>3. ASSUME NEW s \in Senders, NEW i \in 1 .. Len(frame[s]) PROVE frame[s][i] \in LinkCell
  BY DEF TypeOK
<1>. QED BY <1>1, <1>2, <1>3, Places

-----------------------------------------------------------------------------
(* How each step moves the sealed cells, place by place. *)

\* Frames that stay in the channel stay apart.
LEMMA ChannelRests ==
  ASSUME ChannelApart, rx' = rx PROVE ChannelApart'
<1> SUFFICES ASSUME NEW k \in 1 .. Len(rx), NEW l \in 1 .. Len(rx),
                    NEW i \in 1 .. Len(rx[k]), NEW j \in 1 .. Len(rx[l]),
                    rx[k][i].nonce = rx[l][j].nonce
             PROVE  k = l /\ i = j
  BY DEF ChannelApart
<1>. QED BY DEF ChannelApart

\* A task seals one more cell of its frame, under the counter's value.
LEMMA SealMoves ==
  ASSUME TypeOK, PlacesApart, NoncesExpected, NEW s \in Senders, SealCell(s),
         NEW new, new = Cell(s, begun[s], sendNonce, unsealed[s] > 1)
  PROVE  /\ TypeOK' /\ PlacesApart'
         /\ \A x : x \in InFlight' <=> x \in InFlight \/ x = new
<1>1. /\ frame \in [Senders -> Seq(LinkCell)] /\ sendNonce \in Nat
      /\ begun \in [Senders -> Nat] /\ unsealed \in [Senders -> Nat] /\ unsealed[s] > 0
      /\ frame' = [frame EXCEPT ![s] = Append(frame[s], new)]
      /\ wire' = wire /\ rx' = rx /\ sendNonce' = sendNonce + 1
      /\ unsealed' = [unsealed EXCEPT ![s] = @ - 1]
  BY DEF TypeOK, SealCell
<1>u. wire' = wire /\ rx' = rx BY DEF SealCell
<1>2. new \in LinkCell /\ new.nonce = sendNonce
  BY <1>1 DEF LinkCell, Cell, Sources
<1>3. /\ \A t \in Senders : t # s => frame'[t] = frame[t]
      /\ frame[s] \in Seq(LinkCell) /\ frame'[s] = Append(frame[s], new)
  BY <1>1
<1>4. /\ Len(frame[s]) \in Nat /\ Len(frame'[s]) = Len(frame[s]) + 1
      /\ \A i \in 1 .. Len(frame[s]) : frame'[s][i] = frame[s][i]
      /\ frame'[s][Len(frame[s]) + 1] = new
  BY <1>3
<1>5. TypeOK'
  <2>1. frame' \in [Senders -> Seq(LinkCell)] BY <1>1, <1>2, <1>3
  <2>2. unsealed' \in [Senders -> Nat] BY <1>1
  <2>3. QueuesTypeOK' BY DEF TypeOK, SealCell, QueuesTypeOK, queueVars
  <2>. QED BY <1>1, <2>1, <2>2, <2>3 DEF TypeOK, SealCell, farVars
<1>6. ASSUME NEW t \in Senders, NEW i \in 1 .. Len(frame'[t])
      PROVE  \/ i \in 1 .. Len(frame[t]) /\ frame'[t][i] = frame[t][i]
             \/ t = s /\ i = Len(frame[s]) + 1 /\ frame'[t][i] = new
  BY <1>3, <1>4
<1>7. \A x : x \in InFlight' <=> x \in InFlight \/ x = new
  <2>1. \A x : x \in InFlight => x \in InFlight'
    <3>1. ASSUME NEW t \in Senders, NEW i \in 1 .. Len(frame[t])
          PROVE  i \in 1 .. Len(frame'[t]) /\ frame'[t][i] = frame[t][i]
      BY <1>3, <1>4
    <3>2. ASSUME NEW x \in InFlight PROVE x \in InFlight'
      <4>1. ASSUME NEW i \in 1 .. Len(wire), x = wire[i] PROVE x \in InFlight'
        BY <4>1, <1>u, PlacesNext
      <4>2. ASSUME NEW k \in 1 .. Len(rx), NEW i \in 1 .. Len(rx[k]), x = rx[k][i]
            PROVE  x \in InFlight'
        BY <4>2, <1>u, PlacesNext
      <4>3. ASSUME NEW t \in Senders, NEW i \in 1 .. Len(frame[t]), x = frame[t][i]
            PROVE  x \in InFlight'
        BY <4>3, <3>1, PlacesNext
      <4>. QED BY <4>1, <4>2, <4>3, Places
    <3>. QED BY <3>2
  <2>2. new \in InFlight'
    <3>1. Len(frame[s]) + 1 \in 1 .. Len(frame'[s]) BY <1>4
    <3>2. \E i \in 1 .. Len(frame'[s]) : new = frame'[s][i] BY <3>1, <1>4
    <3>. QED BY <3>2, PlacesNext
  <2>3. \A x : x \in InFlight' => x \in InFlight \/ x = new
    <3> SUFFICES ASSUME NEW x \in InFlight' PROVE x \in InFlight \/ x = new
      OBVIOUS
    <3>1. ASSUME NEW i \in 1 .. Len(wire'), x = wire'[i] PROVE x \in InFlight
      BY <3>1, <1>u, Places
    <3>2. ASSUME NEW k \in 1 .. Len(rx'), NEW i \in 1 .. Len(rx'[k]), x = rx'[k][i]
          PROVE  x \in InFlight
      BY <3>2, <1>u, Places
    <3>3. ASSUME NEW t \in Senders, NEW i \in 1 .. Len(frame'[t]), x = frame'[t][i]
          PROVE  x \in InFlight \/ x = new
      BY <3>3, <1>6, Places
    <3>. QED BY <3>1, <3>2, <3>3, PlacesNext
  <2>. QED BY <2>1, <2>2, <2>3
<1>8. \A x \in InFlight : x.nonce # sendNonce
  <2>1. \A x \in InFlight : x.nonce \in Nat BY FlightTyped DEF LinkCell
  <2>. QED BY <2>1, <1>1 DEF NoncesExpected
<1>9. PlacesApart'
  <2>1. \A x \in InFlight : x.nonce # new.nonce BY <1>8, <1>2
  <2>2. ChannelApart' /\ WireApart' /\ WireOffChannel'
    <3>1. ChannelApart /\ WireApart /\ WireOffChannel
      BY DEF PlacesApart
    <3>2. wire' = wire /\ rx' = rx
      BY <1>u
    <3>3. ChannelApart'
      BY <3>1, <3>2 DEF ChannelApart
    <3>4. WireApart'
      BY <3>1, <3>2 DEF WireApart
    <3>5. WireOffChannel'
      BY <3>1, <3>2 DEF WireOffChannel
    <3>. QED
      BY <3>3, <3>4, <3>5
  <2>3. FramesApart'
    <3> SUFFICES ASSUME NEW t \in Senders, NEW u \in Senders, NEW i \in 1 .. Len(frame'[t]),
                        NEW j \in 1 .. Len(frame'[u]), frame'[t][i].nonce = frame'[u][j].nonce
                 PROVE  t = u /\ i = j
      BY DEF FramesApart
    <3>1. CASE i \in 1 .. Len(frame[t]) /\ j \in 1 .. Len(frame[u])
      <4>1. frame'[t][i] = frame[t][i] /\ frame'[u][j] = frame[u][j] BY <3>1, <1>3, <1>4
      <4>. QED BY <3>1, <4>1 DEF PlacesApart, FramesApart
    <3>2. ASSUME NEW v \in Senders, NEW k \in 1 .. Len(frame[v]) PROVE frame[v][k].nonce # new.nonce
      BY <2>1, Places
    <3>3. CASE i \in 1 .. Len(frame[t]) /\ j \notin 1 .. Len(frame[u])
      <4>1. frame'[t][i] = frame[t][i] /\ frame'[u][j] = new BY <3>3, <1>3, <1>4, <1>6
      <4>. QED BY <3>2, <3>3, <4>1
    <3>4. CASE i \notin 1 .. Len(frame[t]) /\ j \in 1 .. Len(frame[u])
      <4>1. frame'[t][i] = new /\ frame'[u][j] = frame[u][j] BY <3>4, <1>3, <1>4, <1>6
      <4>. QED BY <3>2, <3>4, <4>1
    <3>5. CASE i \notin 1 .. Len(frame[t]) /\ j \notin 1 .. Len(frame[u])
      BY <3>5, <1>6
    <3>. QED BY <3>1, <3>3, <3>4, <3>5
  <2>4. WireOffFrames'
    <3> SUFFICES ASSUME NEW i \in 1 .. Len(wire), NEW t \in Senders, NEW j \in 1 .. Len(frame'[t])
                 PROVE  wire[i].nonce # frame'[t][j].nonce
      BY <1>u DEF WireOffFrames
    <3>1. wire[i].nonce # new.nonce BY <2>1, Places
    <3>2. CASE frame'[t][j] = new BY <3>1, <3>2
    <3>3. CASE j \in 1 .. Len(frame[t]) /\ frame'[t][j] = frame[t][j]
      BY <3>3 DEF PlacesApart, WireOffFrames
    <3>. QED BY <3>2, <3>3, <1>6
  <2>5. ChannelOffFrames'
    <3> SUFFICES ASSUME NEW k \in 1 .. Len(rx), NEW t \in Senders,
                        NEW i \in 1 .. Len(rx[k]), NEW j \in 1 .. Len(frame'[t])
                 PROVE  rx[k][i].nonce # frame'[t][j].nonce
      BY <1>u DEF ChannelOffFrames
    <3>1. rx[k][i].nonce # new.nonce BY <2>1, Places
    <3>2. CASE frame'[t][j] = new BY <3>1, <3>2
    <3>3. CASE j \in 1 .. Len(frame[t]) /\ frame'[t][j] = frame[t][j]
      BY <3>3 DEF PlacesApart, ChannelOffFrames
    <3>. QED BY <3>2, <3>3, <1>6
  <2>. QED BY <2>2, <2>3, <2>4, <2>5 DEF PlacesApart
<1>. QED BY <1>5, <1>7, <1>9

\* A finished frame goes into the channel.
LEMMA EnqueueMoves ==
  ASSUME TypeOK, PlacesApart, NEW s \in Senders, Enqueue(s)
  PROVE  /\ TypeOK' /\ PlacesApart'
         /\ \A x : x \in InFlight' <=> x \in InFlight
<1>1. /\ frame \in [Senders -> Seq(LinkCell)] /\ rx \in Seq(Seq(LinkCell))
      /\ frame' = [frame EXCEPT ![s] = <<>>] /\ rx' = Append(rx, frame[s])
      /\ wire' = wire
  BY DEF TypeOK, Enqueue
<1>2. /\ \A t \in Senders : t # s => frame'[t] = frame[t]
      /\ frame[s] \in Seq(LinkCell) /\ Len(frame'[s]) = 0
  BY <1>1
<1>3. /\ Len(rx) \in Nat /\ Len(rx') = Len(rx) + 1
      /\ \A k \in 1 .. Len(rx) : rx'[k] = rx[k]
      /\ rx'[Len(rx) + 1] = frame[s]
  BY <1>1, <1>2
<1>4. TypeOK'
  <2>1. frame' \in [Senders -> Seq(LinkCell)] /\ rx' \in Seq(Seq(LinkCell)) BY <1>1, <1>2
  <2>2. QueuesTypeOK' BY DEF TypeOK, Enqueue, QueuesTypeOK, queueVars
  <2>. QED BY <2>1, <2>2 DEF TypeOK, Enqueue, farVars
<1>5. ASSUME NEW t \in Senders, NEW i \in 1 .. Len(frame'[t])
      PROVE  t # s /\ i \in 1 .. Len(frame[t]) /\ frame'[t][i] = frame[t][i]
  BY <1>2
<1>6. ASSUME NEW k \in 1 .. Len(rx'), NEW i \in 1 .. Len(rx'[k])
      PROVE  \/ k \in 1 .. Len(rx) /\ rx'[k] = rx[k] /\ i \in 1 .. Len(rx[k])
             \/ k = Len(rx) + 1 /\ rx'[k] = frame[s] /\ i \in 1 .. Len(frame[s])
  BY <1>3
<1>7. \A x : x \in InFlight' <=> x \in InFlight
  <2>1. \A x : x \in InFlight => x \in InFlight'
    <3>1. ASSUME NEW k \in 1 .. Len(rx), NEW i \in 1 .. Len(rx[k])
          PROVE  k \in 1 .. Len(rx') /\ i \in 1 .. Len(rx'[k]) /\ rx'[k][i] = rx[k][i]
      BY <1>3
    <3>2. ASSUME NEW t \in Senders, NEW i \in 1 .. Len(frame[t]), t # s
          PROVE  i \in 1 .. Len(frame'[t]) /\ frame'[t][i] = frame[t][i]
      BY <1>2, <3>2
    <3>3. ASSUME NEW i \in 1 .. Len(frame[s])
          PROVE  /\ Len(rx) + 1 \in 1 .. Len(rx') /\ i \in 1 .. Len(rx'[Len(rx) + 1])
                 /\ rx'[Len(rx) + 1][i] = frame[s][i]
      BY <1>3
    <3>. QED BY <3>1, <3>2, <3>3, <1>1, Places, PlacesNext
  <2>2. \A x : x \in InFlight' => x \in InFlight
    <3> SUFFICES ASSUME NEW x \in InFlight' PROVE x \in InFlight
      OBVIOUS
    <3>1. ASSUME NEW i \in 1 .. Len(wire'), x = wire'[i] PROVE x \in InFlight
      BY <3>1, <1>1, Places
    <3>2. ASSUME NEW k \in 1 .. Len(rx'), NEW i \in 1 .. Len(rx'[k]), x = rx'[k][i]
          PROVE  x \in InFlight
      BY <3>2, <1>6, Places
    <3>3. ASSUME NEW t \in Senders, NEW i \in 1 .. Len(frame'[t]), x = frame'[t][i]
          PROVE  x \in InFlight
      BY <3>3, <1>5, Places
    <3>. QED BY <3>1, <3>2, <3>3, PlacesNext
  <2>. QED BY <2>1, <2>2
<1>8. PlacesApart'
  <2>1. WireApart' BY <1>1 DEF PlacesApart, WireApart
  <2>2. FramesApart'
    <3> SUFFICES ASSUME NEW t \in Senders, NEW u \in Senders, NEW i \in 1 .. Len(frame'[t]),
                        NEW j \in 1 .. Len(frame'[u]), frame'[t][i].nonce = frame'[u][j].nonce
                 PROVE  t = u /\ i = j
      BY DEF FramesApart
    <3>1. /\ i \in 1 .. Len(frame[t]) /\ frame'[t][i] = frame[t][i]
          /\ j \in 1 .. Len(frame[u]) /\ frame'[u][j] = frame[u][j]
      BY <1>5
    <3>. QED BY <3>1 DEF PlacesApart, FramesApart
  <2>3. ChannelApart'
    <3> SUFFICES ASSUME NEW k \in 1 .. Len(rx'), NEW l \in 1 .. Len(rx'),
                        NEW i \in 1 .. Len(rx'[k]), NEW j \in 1 .. Len(rx'[l]),
                        rx'[k][i].nonce = rx'[l][j].nonce
                 PROVE  k = l /\ i = j
      BY DEF ChannelApart
    <3>1. CASE k \in 1 .. Len(rx) /\ l \in 1 .. Len(rx)
      BY <3>1, <1>3 DEF PlacesApart, ChannelApart
    <3>2. CASE k \in 1 .. Len(rx) /\ l = Len(rx) + 1
      BY <3>2, <1>3 DEF PlacesApart, ChannelOffFrames
    <3>3. CASE k = Len(rx) + 1 /\ l \in 1 .. Len(rx)
      BY <3>3, <1>3 DEF PlacesApart, ChannelOffFrames
    <3>4. CASE k = Len(rx) + 1 /\ l = Len(rx) + 1
      BY <3>4, <1>3 DEF PlacesApart, FramesApart
    <3>. QED BY <3>1, <3>2, <3>3, <3>4, <1>3
  <2>4. WireOffChannel'
    <3> SUFFICES ASSUME NEW i \in 1 .. Len(wire), NEW k \in 1 .. Len(rx'), NEW j \in 1 .. Len(rx'[k])
                 PROVE  wire[i].nonce # rx'[k][j].nonce
      BY <1>1 DEF WireOffChannel
    <3>. QED BY <1>6 DEF PlacesApart, WireOffChannel, WireOffFrames
  <2>5. WireOffFrames'
    <3> SUFFICES ASSUME NEW i \in 1 .. Len(wire), NEW t \in Senders, NEW j \in 1 .. Len(frame'[t])
                 PROVE  wire[i].nonce # frame'[t][j].nonce
      BY <1>1 DEF WireOffFrames
    <3>. QED BY <1>5 DEF PlacesApart, WireOffFrames
  <2>6. ChannelOffFrames'
    <3> SUFFICES ASSUME NEW k \in 1 .. Len(rx'), NEW t \in Senders,
                        NEW i \in 1 .. Len(rx'[k]), NEW j \in 1 .. Len(frame'[t])
                 PROVE  rx'[k][i].nonce # frame'[t][j].nonce
      BY DEF ChannelOffFrames
    <3>1. t # s /\ j \in 1 .. Len(frame[t]) /\ frame'[t][j] = frame[t][j] BY <1>5
    <3>2. CASE k \in 1 .. Len(rx) /\ rx'[k] = rx[k] /\ i \in 1 .. Len(rx[k])
      BY <3>1, <3>2 DEF PlacesApart, ChannelOffFrames
    <3>3. CASE k = Len(rx) + 1 /\ rx'[k] = frame[s] /\ i \in 1 .. Len(frame[s])
      BY <3>1, <3>3 DEF PlacesApart, FramesApart
    <3>. QED BY <3>2, <3>3, <1>6
  <2>. QED BY <2>1, <2>2, <2>3, <2>4, <2>5, <2>6 DEF PlacesApart
<1>. QED BY <1>4, <1>7, <1>8

\* What is on the wire after the first frame of the channel is written.
LEMMA WrittenFrame ==
  ASSUME TypeOK, WriteControl
  PROVE  /\ rx \in Seq(Seq(LinkCell)) /\ rx # <<>> /\ rx[1] \in Seq(LinkCell)
         /\ wire \in Seq(LinkCell) /\ Len(wire) \in Nat /\ Len(rx) \in Nat \ {0}
         /\ frame' = frame
         /\ wire' \in Seq(LinkCell) /\ Len(wire') = Len(wire) + Len(rx[1])
         /\ \A i \in 1 .. Len(wire) : wire'[i] = wire[i]
         /\ \A i \in 1 .. Len(rx[1]) : wire'[Len(wire) + i] = rx[1][i]
         /\ rx' \in Seq(Seq(LinkCell)) /\ Len(rx') = Len(rx) - 1
         /\ \A k \in 1 .. Len(rx') : k + 1 \in 2 .. Len(rx) /\ rx'[k] = rx[k + 1]
<1>1. /\ rx \in Seq(Seq(LinkCell)) /\ rx # <<>> /\ wire \in Seq(LinkCell)
      /\ wire' = wire \o rx[1] /\ rx' = Tail(rx) /\ frame' = frame
  BY DEF TypeOK, WriteControl, taskVars
<1>2. rx[1] \in Seq(LinkCell) BY <1>1
<1>3. /\ wire' \in Seq(LinkCell) /\ Len(wire') = Len(wire) + Len(rx[1])
      /\ \A i \in 1 .. Len(wire) : wire'[i] = wire[i]
      /\ \A i \in 1 .. Len(rx[1]) : wire'[Len(wire) + i] = rx[1][i]
  BY <1>1, <1>2
<1>4. /\ rx' \in Seq(Seq(LinkCell)) /\ Len(rx') = Len(rx) - 1 /\ Len(rx) \in Nat \ {0}
      /\ \A k \in 1 .. Len(rx') : k + 1 \in 2 .. Len(rx) /\ rx'[k] = rx[k + 1]
  BY <1>1
<1>. QED BY <1>1, <1>2, <1>3, <1>4

\* The writer writes a frame: its cells go from the channel to the wire.
LEMMA WriteMoves ==
  ASSUME TypeOK, PlacesApart, WriteControl
  PROVE  /\ TypeOK' /\ PlacesApart'
         /\ \A x : x \in InFlight' <=> x \in InFlight
<1>1. /\ Len(wire) \in Nat /\ Len(rx) \in Nat \ {0} /\ Len(rx[1]) \in Nat
      /\ Len(wire') = Len(wire) + Len(rx[1]) /\ Len(rx') = Len(rx) - 1
  BY WrittenFrame
<1>u. frame' = frame BY WrittenFrame
<1>2. TypeOK'
  <2>1. QueuesTypeOK' BY DEF TypeOK, WriteControl, QueuesTypeOK, queueVars
  <2>. QED BY <2>1, WrittenFrame DEF TypeOK, WriteControl, taskVars, farVars
<1>3. ASSUME NEW i \in 1 .. Len(wire')
      PROVE  \/ i \in 1 .. Len(wire) /\ wire'[i] = wire[i]
             \/ /\ i \notin 1 .. Len(wire) /\ i - Len(wire) \in 1 .. Len(rx[1])
                /\ wire'[i] = rx[1][i - Len(wire)]
  <2>1. CASE i \in 1 .. Len(wire) BY <2>1, WrittenFrame
  <2>2. CASE i \notin 1 .. Len(wire)
    <3>1. i - Len(wire) \in 1 .. Len(rx[1]) /\ Len(wire) + (i - Len(wire)) = i BY <2>2, <1>1
    <3>2. wire'[Len(wire) + (i - Len(wire))] = rx[1][i - Len(wire)] BY <3>1, WrittenFrame
    <3>. QED BY <2>2, <3>1, <3>2
  <2>. QED BY <2>1, <2>2
<1>4. ASSUME NEW k \in 1 .. Len(rx')
      PROVE  k + 1 \in 1 .. Len(rx) /\ k + 1 # 1 /\ rx'[k] = rx[k + 1]
  BY <1>1, WrittenFrame
<1>5. 1 \in 1 .. Len(rx) BY <1>1
<1>6. \A x : x \in InFlight' <=> x \in InFlight
  <2>1. ASSUME NEW x \in InFlight' PROVE x \in InFlight
    <3>1. ASSUME NEW i \in 1 .. Len(wire'), x = wire'[i] PROVE x \in InFlight
      BY <3>1, <1>3, <1>5, Places
    <3>2. ASSUME NEW k \in 1 .. Len(rx'), NEW i \in 1 .. Len(rx'[k]), x = rx'[k][i]
          PROVE  x \in InFlight
      BY <3>2, <1>4, Places
    <3>3. ASSUME NEW t \in Senders, NEW i \in 1 .. Len(frame'[t]), x = frame'[t][i]
          PROVE  x \in InFlight
      BY <3>3, <1>u, Places
    <3>. QED BY <3>1, <3>2, <3>3, PlacesNext
  <2>2. ASSUME NEW x \in InFlight PROVE x \in InFlight'
    <3>1. ASSUME NEW i \in 1 .. Len(wire), x = wire[i] PROVE x \in InFlight'
      <4>1. i \in 1 .. Len(wire') /\ wire'[i] = x BY <3>1, <1>1, WrittenFrame
      <4>. QED BY <4>1, PlacesNext
    <3>2. ASSUME NEW k \in 1 .. Len(rx), NEW i \in 1 .. Len(rx[k]), x = rx[k][i]
          PROVE  x \in InFlight'
      <4>1. CASE k = 1
        <5>1. Len(wire) + i \in 1 .. Len(wire') /\ wire'[Len(wire) + i] = x
          BY <3>2, <4>1, <1>1, WrittenFrame
        <5>. QED BY <5>1, PlacesNext
      <4>2. CASE k # 1
        <5>1. k - 1 \in 1 .. Len(rx') /\ (k - 1) + 1 = k BY <4>2, <1>1
        <5>2. rx'[k - 1] = rx[k] BY <5>1, <1>4
        <5>. QED BY <3>2, <5>1, <5>2, PlacesNext
      <4>. QED BY <4>1, <4>2
    <3>3. ASSUME NEW t \in Senders, NEW i \in 1 .. Len(frame[t]), x = frame[t][i]
          PROVE  x \in InFlight'
      BY <3>3, <1>u, PlacesNext
    <3>. QED BY <3>1, <3>2, <3>3, Places
  <2>. QED BY <2>1, <2>2
<1>7. PlacesApart'
  <2>1. FramesApart' BY <1>u DEF PlacesApart, FramesApart
  <2>2. ChannelApart'
    <3> SUFFICES ASSUME NEW k \in 1 .. Len(rx'), NEW l \in 1 .. Len(rx'),
                        NEW i \in 1 .. Len(rx'[k]), NEW j \in 1 .. Len(rx'[l]),
                        rx'[k][i].nonce = rx'[l][j].nonce
                 PROVE  k = l /\ i = j
      BY DEF ChannelApart
    <3>1. /\ k + 1 \in 1 .. Len(rx) /\ rx'[k] = rx[k + 1]
          /\ l + 1 \in 1 .. Len(rx) /\ rx'[l] = rx[l + 1]
      BY <1>4
    <3>2. k + 1 = l + 1 /\ i = j BY <3>1 DEF PlacesApart, ChannelApart
    <3>. QED BY <3>2
  <2>3. ChannelOffFrames'
    <3> SUFFICES ASSUME NEW k \in 1 .. Len(rx'), NEW t \in Senders,
                        NEW i \in 1 .. Len(rx'[k]), NEW j \in 1 .. Len(frame[t])
                 PROVE  rx'[k][i].nonce # frame[t][j].nonce
      BY <1>u DEF ChannelOffFrames
    <3>. QED BY <1>4 DEF PlacesApart, ChannelOffFrames
  <2>4. WireOffFrames'
    <3> SUFFICES ASSUME NEW i \in 1 .. Len(wire'), NEW t \in Senders, NEW j \in 1 .. Len(frame[t])
                 PROVE  wire'[i].nonce # frame[t][j].nonce
      BY <1>u DEF WireOffFrames
    <3>1. CASE i \in 1 .. Len(wire) /\ wire'[i] = wire[i]
      BY <3>1 DEF PlacesApart, WireOffFrames
    <3>2. CASE i - Len(wire) \in 1 .. Len(rx[1]) /\ wire'[i] = rx[1][i - Len(wire)]
      BY <3>2, <1>5 DEF PlacesApart, ChannelOffFrames
    <3>. QED BY <3>1, <3>2, <1>3
  <2>5. WireOffChannel'
    <3> SUFFICES ASSUME NEW i \in 1 .. Len(wire'), NEW k \in 1 .. Len(rx'), NEW j \in 1 .. Len(rx'[k])
                 PROVE  wire'[i].nonce # rx'[k][j].nonce
      BY DEF WireOffChannel
    <3>1. CASE i \in 1 .. Len(wire) /\ wire'[i] = wire[i]
      BY <3>1, <1>4 DEF PlacesApart, WireOffChannel
    <3>2. CASE i - Len(wire) \in 1 .. Len(rx[1]) /\ wire'[i] = rx[1][i - Len(wire)]
      <4>1. k + 1 \in 1 .. Len(rx) /\ k + 1 # 1 /\ rx'[k] = rx[k + 1] BY <1>4
      <4>2. 1 \in 1 .. Len(rx) /\ j \in 1 .. Len(rx[k + 1]) BY <4>1, <1>5
      <4>3. ChannelApart BY DEF PlacesApart
      <4>4. rx[1][i - Len(wire)].nonce # rx[k + 1][j].nonce
        BY <3>2, <4>1, <4>2, <4>3 DEF ChannelApart
      <4>. QED BY <3>2, <4>1, <4>4
    <3>. QED BY <3>1, <3>2, <1>3
  <2>6. WireApart'
    <3> SUFFICES ASSUME NEW i \in 1 .. Len(wire'), NEW j \in 1 .. Len(wire'),
                        wire'[i].nonce = wire'[j].nonce
                 PROVE  i = j
      BY DEF WireApart
    <3>1. CASE i \in 1 .. Len(wire) /\ j \in 1 .. Len(wire)
      <4>1. wire'[i] = wire[i] /\ wire'[j] = wire[j] BY <3>1, <1>3
      <4>. QED BY <3>1, <4>1 DEF PlacesApart, WireApart
    <3>2. CASE i \in 1 .. Len(wire) /\ j \notin 1 .. Len(wire)
      <4>1. /\ wire'[i] = wire[i]
            /\ j - Len(wire) \in 1 .. Len(rx[1]) /\ wire'[j] = rx[1][j - Len(wire)]
        BY <3>2, <1>3
      <4>. QED BY <3>2, <4>1, <1>5 DEF PlacesApart, WireOffChannel
    <3>3. CASE i \notin 1 .. Len(wire) /\ j \in 1 .. Len(wire)
      <4>1. /\ wire'[j] = wire[j]
            /\ i - Len(wire) \in 1 .. Len(rx[1]) /\ wire'[i] = rx[1][i - Len(wire)]
        BY <3>3, <1>3
      <4>. QED BY <3>3, <4>1, <1>5 DEF PlacesApart, WireOffChannel
    <3>4. CASE i \notin 1 .. Len(wire) /\ j \notin 1 .. Len(wire)
      <4>1. /\ i - Len(wire) \in 1 .. Len(rx[1]) /\ wire'[i] = rx[1][i - Len(wire)]
            /\ j - Len(wire) \in 1 .. Len(rx[1]) /\ wire'[j] = rx[1][j - Len(wire)]
        BY <3>4, <1>3
      <4>2. \A k, l \in 1 .. Len(rx[1]) : rx[1][k].nonce = rx[1][l].nonce => k = l
        BY <1>5 DEF PlacesApart, ChannelApart
      <4>3. i - Len(wire) = j - Len(wire) BY <4>1, <4>2
      <4>. QED BY <4>3, <1>1
    <3>. QED BY <3>1, <3>2, <3>3, <3>4
  <2>. QED BY <2>1, <2>2, <2>3, <2>4, <2>5, <2>6 DEF PlacesApart
<1>. QED BY <1>2, <1>6, <1>7

\* The cell the writer seals for a circuit is the one after those it took.
LEMMA SealedCell ==
  ASSUME TypeOK, QueuesInv, NEW c \in Circuits, WriteCircuit(c)
  PROVE  \E new \in LinkCell :
           /\ new.src = c /\ new.n = sent[c] + 1 /\ new.nonce = sendNonce /\ new.more = FALSE
           /\ wire' = Append(wire, new)
<1>1. Head(q[c])[2] = sent[c] + 1 /\ sent[c] \in Nat
  <2>1. q[c] # <<>> /\ q[c] \in Seq(Circuits \X (Nat \ {0})) /\ sent[c] \in Nat
    BY Typed DEF WriteCircuit, PopNext, Quietest, Ready, QueuesInv
  <2>2. 1 \in 1 .. Len(q[c]) /\ Head(q[c]) = q[c][1] BY <2>1
  <2>3. q[c][1] = <<c, sent[c] + 1>> BY <2>2 DEF QueuesInv, CircuitFIFO
  <2>. QED BY <2>1, <2>2, <2>3
<1>. DEFINE new == [src |-> c, n |-> sent[c] + 1, nonce |-> sendNonce, more |-> FALSE]
<1>2. wire' = Append(wire, new)
  <2>1. wire' = Append(wire, Cell(c, Head(q[c])[2], sendNonce, FALSE)) BY DEF WriteCircuit
  <2>. QED BY <1>1, <2>1 DEF Cell
<1>3. new \in LinkCell
  <2>1. c \in Sources /\ sent[c] + 1 \in Nat /\ sendNonce \in Nat BY <1>1 DEF Sources, TypeOK
  <2>. QED BY <2>1 DEF LinkCell
<1>. QED BY <1>2, <1>3

\* The writer seals the head cell of a circuit and writes it.
LEMMA CircuitMoves ==
  ASSUME TypeOK, QueuesInv, PlacesApart, NoncesExpected, NEW c \in Circuits, WriteCircuit(c),
         NEW new, new.src = c, new.n = sent[c] + 1, new.nonce = sendNonce, new.more = FALSE,
         new \in LinkCell, wire' = Append(wire, new)
  PROVE  /\ TypeOK' /\ PlacesApart'
         /\ \A x : x \in InFlight' <=> x \in InFlight \/ x = new
<1>1. wire \in Seq(LinkCell) /\ Len(wire) \in Nat /\ sendNonce \in Nat
  BY DEF TypeOK
<1>u. frame' = frame /\ rx' = rx BY DEF WriteCircuit, taskVars
<1>4. /\ wire' \in Seq(LinkCell) /\ Len(wire') = Len(wire) + 1
      /\ \A i \in 1 .. Len(wire) : i \in 1 .. Len(wire') /\ wire'[i] = wire[i]
      /\ wire'[Len(wire) + 1] = new
  BY <1>1
<1>5. TypeOK'
  <2>1. QueuesTypeOK' BY PopNextKeepsInv DEF WriteCircuit, QueuesInv
  <2>2. wire' \in Seq(LinkCell) BY <1>4
  <2>3. sendNonce' \in Nat /\ wpc' = "control" /\ UNCHANGED <<taskVars, rx, farVars>>
    BY <1>1 DEF WriteCircuit
  <2>. QED BY <2>1, <2>2, <2>3 DEF TypeOK, taskVars, farVars
<1>6. ASSUME NEW i \in 1 .. Len(wire')
      PROVE  \/ i \in 1 .. Len(wire) /\ wire'[i] = wire[i]
             \/ i = Len(wire) + 1 /\ wire'[i] = new
  <2>1. i \in 1 .. Len(wire) \/ i = Len(wire) + 1 BY <1>1, <1>4
  <2>. QED BY <2>1, <1>4
<1>7. \A x : x \in InFlight' <=> x \in InFlight \/ x = new
  <2>1. ASSUME NEW x \in InFlight PROVE x \in InFlight'
    <3>1. ASSUME NEW i \in 1 .. Len(wire), x = wire[i] PROVE x \in InFlight'
      BY <3>1, <1>4, PlacesNext
    <3>2. ASSUME NEW k \in 1 .. Len(rx), NEW i \in 1 .. Len(rx[k]), x = rx[k][i]
          PROVE  x \in InFlight'
      BY <3>2, <1>u, PlacesNext
    <3>3. ASSUME NEW t \in Senders, NEW i \in 1 .. Len(frame[t]), x = frame[t][i]
          PROVE  x \in InFlight'
      BY <3>3, <1>u, PlacesNext
    <3>. QED BY <3>1, <3>2, <3>3, Places
  <2>2. new \in InFlight'
    <3>1. Len(wire) + 1 \in 1 .. Len(wire') BY <1>1, <1>4
    <3>2. \E i \in 1 .. Len(wire') : new = wire'[i] BY <3>1, <1>4
    <3>. QED BY <3>2, PlacesNext
  <2>3. ASSUME NEW x \in InFlight' PROVE x \in InFlight \/ x = new
    <3>1. ASSUME NEW i \in 1 .. Len(wire'), x = wire'[i] PROVE x \in InFlight \/ x = new
      BY <3>1, <1>6, Places
    <3>2. ASSUME NEW k \in 1 .. Len(rx'), NEW i \in 1 .. Len(rx'[k]), x = rx'[k][i]
          PROVE  x \in InFlight
      BY <3>2, <1>u, Places
    <3>3. ASSUME NEW t \in Senders, NEW i \in 1 .. Len(frame'[t]), x = frame'[t][i]
          PROVE  x \in InFlight
      BY <3>3, <1>u, Places
    <3>. QED BY <3>1, <3>2, <3>3, PlacesNext
  <2>. QED BY <2>1, <2>2, <2>3
<1>8. \A x \in InFlight : x.nonce # new.nonce
  <2>1. \A x \in InFlight : x.nonce \in Nat BY FlightTyped DEF LinkCell
  <2>. QED BY <2>1, <1>1 DEF NoncesExpected
<1>9. PlacesApart'
  <2>1. ChannelApart' /\ FramesApart' /\ ChannelOffFrames'
    <3>1. ChannelApart' BY <1>u, ChannelRests DEF PlacesApart
    <3>2. FramesApart' BY <1>u DEF PlacesApart, FramesApart
    <3>3. ChannelOffFrames' BY <1>u DEF PlacesApart, ChannelOffFrames
    <3>. QED BY <3>1, <3>2, <3>3
  <2>2. WireApart'
    <3> SUFFICES ASSUME NEW i \in 1 .. Len(wire'), NEW j \in 1 .. Len(wire'),
                        wire'[i].nonce = wire'[j].nonce
                 PROVE  i = j
      BY DEF WireApart
    <3>1. \A k \in 1 .. Len(wire) : wire[k].nonce # new.nonce BY <1>8, Places
    <3>2. CASE i \in 1 .. Len(wire) /\ j \in 1 .. Len(wire)
      <4>1. wire'[i] = wire[i] /\ wire'[j] = wire[j] BY <3>2, <1>4
      <4>. QED BY <3>2, <4>1 DEF PlacesApart, WireApart
    <3>3. CASE i \in 1 .. Len(wire) /\ j = Len(wire) + 1 BY <3>1, <3>3, <1>4
    <3>4. CASE i = Len(wire) + 1 /\ j \in 1 .. Len(wire) BY <3>1, <3>4, <1>4
    <3>. QED BY <3>2, <3>3, <3>4, <1>6
  <2>3. WireOffFrames'
    <3> SUFFICES ASSUME NEW i \in 1 .. Len(wire'), NEW t \in Senders, NEW j \in 1 .. Len(frame[t])
                 PROVE  wire'[i].nonce # frame[t][j].nonce
      BY <1>u DEF WireOffFrames
    <3>1. frame[t][j].nonce # new.nonce BY <1>8, Places
    <3>2. CASE i \in 1 .. Len(wire) /\ wire'[i] = wire[i]
      BY <3>2 DEF PlacesApart, WireOffFrames
    <3>. QED BY <3>1, <3>2, <1>6
  <2>4. WireOffChannel'
    <3> SUFFICES ASSUME NEW i \in 1 .. Len(wire'), NEW k \in 1 .. Len(rx), NEW j \in 1 .. Len(rx[k])
                 PROVE  wire'[i].nonce # rx[k][j].nonce
      BY <1>u DEF WireOffChannel
    <3>1. rx[k][j].nonce # new.nonce BY <1>8, Places
    <3>2. CASE i \in 1 .. Len(wire) /\ wire'[i] = wire[i]
      BY <3>2 DEF PlacesApart, WireOffChannel
    <3>. QED BY <3>1, <3>2, <1>6
  <2>. QED BY <2>1, <2>2, <2>3, <2>4 DEF PlacesApart
<1>. QED BY <1>5, <1>7, <1>9

\* The far reader takes the first cell off the wire.
LEMMA ReadMoves ==
  ASSUME TypeOK, PlacesApart, ReadCell, NEW first, first = wire[1]
  PROVE  /\ TypeOK' /\ PlacesApart'
         /\ first \in InFlight /\ first = Head(wire)
         /\ \A x : x \in InFlight <=> x \in InFlight' \/ x = first
         /\ \A x \in InFlight' : x.nonce # first.nonce
<1>1. /\ wire \in Seq(LinkCell) /\ wire # <<>> /\ wire' = Tail(wire)
  BY DEF TypeOK, ReadCell
<1>u. frame' = frame /\ rx' = rx BY DEF ReadCell, taskVars
<1>2. /\ first \in LinkCell /\ first = Head(wire) /\ Len(wire) \in Nat \ {0} /\ 1 \in 1 .. Len(wire)
      /\ wire' \in Seq(LinkCell) /\ Len(wire') = Len(wire) - 1
      /\ \A i \in 1 .. Len(wire') : i + 1 \in 1 .. Len(wire) /\ i + 1 # 1 /\ wire'[i] = wire[i + 1]
  BY <1>1
<1>3. first \in InFlight BY <1>2, Places
<1>4. ASSUME NEW x \in InFlight' PROVE x \in InFlight /\ x.nonce # first.nonce
  <2>1. ASSUME NEW i \in 1 .. Len(wire'), x = wire'[i] PROVE x \in InFlight /\ x.nonce # first.nonce
    <3>1. i + 1 \in 1 .. Len(wire) /\ i + 1 # 1 /\ x = wire[i + 1] BY <2>1, <1>2
    <3>2. x.nonce # first.nonce BY <3>1, <1>2 DEF PlacesApart, WireApart
    <3>. QED BY <3>1, <3>2, Places
  <2>2. ASSUME NEW k \in 1 .. Len(rx'), NEW i \in 1 .. Len(rx'[k]), x = rx'[k][i]
        PROVE  x \in InFlight /\ x.nonce # first.nonce
    <3>1. k \in 1 .. Len(rx) /\ i \in 1 .. Len(rx[k]) /\ x = rx[k][i] BY <2>2, <1>u
    <3>2. x.nonce # first.nonce BY <3>1, <1>2 DEF PlacesApart, WireOffChannel
    <3>. QED BY <3>1, <3>2, Places
  <2>3. ASSUME NEW t \in Senders, NEW i \in 1 .. Len(frame'[t]), x = frame'[t][i]
        PROVE  x \in InFlight /\ x.nonce # first.nonce
    <3>1. i \in 1 .. Len(frame[t]) /\ x = frame[t][i] BY <2>3, <1>u
    <3>2. x.nonce # first.nonce BY <3>1, <1>2 DEF PlacesApart, WireOffFrames
    <3>. QED BY <3>1, <3>2, Places
  <2>. QED BY <2>1, <2>2, <2>3, PlacesNext
<1>5. ASSUME NEW x \in InFlight, x # first PROVE x \in InFlight'
  <2>1. ASSUME NEW i \in 1 .. Len(wire), x = wire[i] PROVE x \in InFlight'
    <3>1. i - 1 \in 1 .. Len(wire') /\ (i - 1) + 1 = i BY <2>1, <1>5, <1>2
    <3>2. wire'[i - 1] = x BY <2>1, <3>1, <1>2
    <3>. QED BY <3>1, <3>2, PlacesNext
  <2>2. ASSUME NEW k \in 1 .. Len(rx), NEW i \in 1 .. Len(rx[k]), x = rx[k][i]
        PROVE  x \in InFlight'
    BY <2>2, <1>u, PlacesNext
  <2>3. ASSUME NEW t \in Senders, NEW i \in 1 .. Len(frame[t]), x = frame[t][i]
        PROVE  x \in InFlight'
    BY <2>3, <1>u, PlacesNext
  <2>. QED BY <2>1, <2>2, <2>3, Places
<1>6. TypeOK'
  <2>1. QueuesTypeOK' BY DEF TypeOK, ReadCell, QueuesTypeOK, queueVars
  <2>2. recvNonce' \in Nat BY DEF TypeOK, ReadCell
  <2>3. up' \in BOOLEAN BY DEF TypeOK, ReadCell
  <2>4. got' \in [Sources -> Seq(Nat)]
    <3>1. first.src \in Sources /\ first.n \in Nat BY <1>2 DEF LinkCell
    <3>2. Append(got[first.src], first.n) \in Seq(Nat) BY <3>1 DEF TypeOK
    <3>3. got' = got \/ got' = [got EXCEPT ![first.src] = Append(@, first.n)]
      BY <1>2 DEF ReadCell, Dispatched
    <3>. QED BY <3>1, <3>2, <3>3 DEF TypeOK
  <2>. QED BY <2>1, <2>2, <2>3, <2>4, <1>2 DEF TypeOK, ReadCell, taskVars
<1>7. PlacesApart'
  <2>1. ChannelApart' /\ FramesApart' /\ ChannelOffFrames'
    <3>1. ChannelApart' BY <1>u, ChannelRests DEF PlacesApart
    <3>2. FramesApart' BY <1>u DEF PlacesApart, FramesApart
    <3>3. ChannelOffFrames' BY <1>u DEF PlacesApart, ChannelOffFrames
    <3>. QED BY <3>1, <3>2, <3>3
  <2>2. WireApart'
    <3> SUFFICES ASSUME NEW i \in 1 .. Len(wire'), NEW j \in 1 .. Len(wire'),
                        wire'[i].nonce = wire'[j].nonce
                 PROVE  i = j
      BY DEF WireApart
    <3>1. i + 1 = j + 1 BY <1>2 DEF PlacesApart, WireApart
    <3>. QED BY <3>1
  <2>3. WireOffFrames'
    <3> SUFFICES ASSUME NEW i \in 1 .. Len(wire'), NEW t \in Senders, NEW j \in 1 .. Len(frame[t])
                 PROVE  wire'[i].nonce # frame[t][j].nonce
      BY <1>u DEF WireOffFrames
    <3>. QED BY <1>2 DEF PlacesApart, WireOffFrames
  <2>4. WireOffChannel'
    <3> SUFFICES ASSUME NEW i \in 1 .. Len(wire'), NEW k \in 1 .. Len(rx), NEW j \in 1 .. Len(rx[k])
                 PROVE  wire'[i].nonce # rx[k][j].nonce
      BY <1>u DEF WireOffChannel
    <3>. QED BY <1>2 DEF PlacesApart, WireOffChannel
  <2>. QED BY <2>1, <2>2, <2>3, <2>4 DEF PlacesApart
<1>. QED BY <1>2, <1>3, <1>4, <1>5, <1>6, <1>7

-----------------------------------------------------------------------------
(* What that does to the order of the cells in flight. *)

LEMMA DoneTyped ==
  ASSUME TypeOK PROVE \A s \in Sources : Done(s) \in Int /\ Len(got[s]) \in Nat
<1> SUFFICES ASSUME NEW s \in Sources PROVE Done(s) \in Int /\ Len(got[s]) \in Nat
  OBVIOUS
<1>1. Len(got[s]) \in Nat BY DEF TypeOK
<1>2. CASE s \in Circuits BY <1>1, <1>2 DEF TypeOK, QueuesTypeOK, Done
<1>3. CASE s \in Senders /\ s \notin Circuits BY <1>1, <1>3 DEF TypeOK, Done
<1>. QED BY <1>2, <1>3 DEF Sources

\* Nothing is sealed or read: a cell may only change its place.
LEMMA FlightRests ==
  ASSUME NoncesExpected, SealedInOrder, WithinSource, NoneMissing,
         \A x : x \in InFlight' <=> x \in InFlight,
         UNCHANGED farVars, sendNonce' = sendNonce,
         \A s \in Sources : Done(s)' = Done(s), TypeOK
  PROVE  NoncesExpected' /\ SealedInOrder' /\ WithinSource' /\ NoneMissing'
<1>u. got' = got /\ up' = up /\ recvNonce' = recvNonce BY DEF farVars
<1>1. NoncesExpected' BY <1>u DEF NoncesExpected
<1>2. SealedInOrder' BY DEF SealedInOrder
<1>3. WithinSource'
  <2>1. \A x \in InFlight : x.src \in Sources BY FlightTyped DEF LinkCell
  <2>. QED BY <1>u, <2>1 DEF WithinSource
<1>4. NoneMissing'
  <2> SUFFICES ASSUME up, NEW s \in Sources, NEW m \in Len(got[s]) + 1 .. Done(s)
               PROVE  \E x \in InFlight' : x.src = s /\ x.n = m /\ ~ x.more
    BY <1>u DEF NoneMissing
  <2>. QED BY DEF NoneMissing
<1>. QED BY <1>1, <1>2, <1>3, <1>4

\* One more cell is sealed: the next of its source.
LEMMA FlightGrows ==
  ASSUME TypeOK, NoncesExpected, SealedInOrder, WithinSource, NoneMissing,
         NEW new \in LinkCell, new.nonce = sendNonce, sendNonce' = sendNonce + 1,
         \A x : x \in InFlight' <=> x \in InFlight \/ x = new,
         UNCHANGED farVars,
         new.n = Done(new.src) + 1,
         Done(new.src)' = IF new.more THEN Done(new.src) ELSE Done(new.src) + 1,
         \A s \in Sources : s # new.src => Done(s)' = Done(s),
         up => recvNonce <= sendNonce
  PROVE  /\ NoncesExpected' /\ SealedInOrder' /\ WithinSource' /\ NoneMissing'
<1>u. got' = got /\ up' = up /\ recvNonce' = recvNonce BY DEF farVars
<1>t. /\ new.src \in Sources /\ new.n \in Nat /\ new.more \in BOOLEAN /\ sendNonce \in Nat
      /\ recvNonce \in Nat
      /\ \A x \in InFlight : x.src \in Sources /\ x.n \in Nat /\ x.nonce \in Nat /\ x.more \in BOOLEAN
      /\ \A s \in Sources : Done(s) \in Int /\ Len(got[s]) \in Nat
  <2>1. \A x \in LinkCell : x.src \in Sources /\ x.n \in Nat /\ x.nonce \in Nat /\ x.more \in BOOLEAN
    BY DEF LinkCell
  <2>2. sendNonce \in Nat /\ recvNonce \in Nat BY DEF TypeOK
  <2>. QED BY <2>1, <2>2, FlightTyped, DoneTyped
<1>d. \A s \in Sources : Done(s) <= Done(s)' /\ Done(s)' \in Int
  <2>1. ASSUME NEW s \in Sources, s = new.src PROVE Done(s) <= Done(s)' /\ Done(s)' \in Int
    BY <2>1, <1>t
  <2>. QED BY <2>1, <1>t
<1>o. \A x \in InFlight : x.nonce < new.nonce BY DEF NoncesExpected
<1>1. NoncesExpected'
  <2> SUFFICES ASSUME NEW x \in InFlight' PROVE x.nonce < sendNonce + 1 /\ (up => recvNonce <= x.nonce)
    BY <1>u DEF NoncesExpected
  <2>1. CASE x \in InFlight BY <2>1, <1>t DEF NoncesExpected
  <2>2. CASE x = new BY <2>2, <1>t
  <2>. QED BY <2>1, <2>2
<1>2. SealedInOrder'
  <2>1. ASSUME NEW x \in InFlight', NEW y \in InFlight', x.src = y.src, x.n < y.n
        PROVE  x.nonce < y.nonce
    <3>1. CASE x \in InFlight /\ y \in InFlight BY <2>1, <3>1 DEF SealedInOrder
    <3>2. CASE x \in InFlight /\ y = new BY <3>2, <1>o
    <3>3. CASE x = new /\ y \in InFlight
      <4>1. y.n <= Done(new.src) + 1 BY <2>1, <3>3 DEF WithinSource
      <4>. QED BY <2>1, <3>3, <4>1, <1>t
    <3>4. CASE x = new /\ y = new BY <2>1, <3>4, <1>t
    <3>. QED BY <3>1, <3>2, <3>3, <3>4
  <2>2. ASSUME NEW x \in InFlight', NEW y \in InFlight', x.src = y.src, x.n = y.n, ~ x.more, x # y
        PROVE  y.nonce < x.nonce
    <3>1. CASE x \in InFlight /\ y \in InFlight BY <2>2, <3>1 DEF SealedInOrder
    <3>2. CASE x \in InFlight /\ y = new
      <4>1. x.n <= Done(new.src) BY <2>2, <3>2 DEF WithinSource
      <4>. QED BY <2>2, <3>2, <4>1, <1>t
    <3>3. CASE x = new /\ y \in InFlight BY <3>3, <1>o
    <3>. QED BY <2>2, <3>1, <3>2, <3>3
  <2>. QED BY <2>1, <2>2 DEF SealedInOrder
<1>3. WithinSource'
  <2>1. ASSUME NEW x \in InFlight'
        PROVE  /\ up => Len(got[x.src]) < x.n
               /\ x.n <= Done(x.src)' + 1
               /\ ~ x.more => x.n <= Done(x.src)'
    <3>1. CASE x \in InFlight
      <4>1. /\ up => Len(got[x.src]) < x.n
            /\ x.n <= Done(x.src) + 1
            /\ ~ x.more => x.n <= Done(x.src)
        BY <3>1 DEF WithinSource
      <4>. QED BY <3>1, <4>1, <1>t, <1>d
    <3>2. CASE x = new
      <4>1. Len(got[new.src]) <= Done(new.src) BY <1>t DEF WithinSource
      <4>. QED BY <3>2, <4>1, <1>t, <1>d
    <3>. QED BY <3>1, <3>2
  <2>2. ASSUME NEW s \in Sources PROVE Len(got[s]) <= Done(s)'
    <3>1. Len(got[s]) <= Done(s) BY DEF WithinSource
    <3>. QED BY <3>1, <1>t, <1>d
  <2>. QED BY <2>1, <2>2, <1>u DEF WithinSource
<1>4. NoneMissing'
  <2> SUFFICES ASSUME up, NEW s \in Sources, NEW m \in Len(got[s]) + 1 .. Done(s)'
               PROVE  \E x \in InFlight' : x.src = s /\ x.n = m /\ ~ x.more
    BY <1>u DEF NoneMissing
  <2>1. CASE m \in Len(got[s]) + 1 .. Done(s) BY <2>1 DEF NoneMissing
  <2>2. CASE m \notin Len(got[s]) + 1 .. Done(s)
    <3>1. s = new.src /\ ~ new.more /\ m = Done(s) + 1
      <4>1. s = new.src BY <2>2
      <4>2. ~ new.more BY <2>2, <4>1
      <4>3. m <= Done(s) + 1 /\ ~ m <= Done(s) /\ m \in Int BY <2>2, <4>1, <4>2, <1>t
      <4>. QED BY <4>1, <4>2, <4>3, <1>t
    <3>. QED BY <3>1
  <2>. QED BY <2>1, <2>2
<1>. QED BY <1>1, <1>2, <1>3, <1>4

\* The reader opens the first cell: it is the next of its source.
LEMMA ReadInTurn ==
  ASSUME TypeOK, NoncesExpected, SealedInOrder, WithinSource, NoneMissing, up,
         NEW first \in InFlight, first.nonce = recvNonce, ~ first.more
  PROVE  first.n = Len(got[first.src]) + 1
<1>t. /\ first.src \in Sources /\ first.n \in Nat /\ recvNonce \in Nat
      /\ Done(first.src) \in Int /\ Len(got[first.src]) \in Nat
  BY FlightTyped, DoneTyped DEF LinkCell, TypeOK
<1>1. Len(got[first.src]) < first.n /\ first.n <= Done(first.src) BY DEF WithinSource
<1>2. SUFFICES ASSUME first.n # Len(got[first.src]) + 1 PROVE FALSE
  OBVIOUS
<1>. DEFINE m == Len(got[first.src]) + 1
<1>3. m < first.n /\ m \in Len(got[first.src]) + 1 .. Done(first.src) BY <1>1, <1>2, <1>t
<1>4. PICK x \in InFlight : x.src = first.src /\ x.n = m /\ ~ x.more
  BY <1>3, <1>t DEF NoneMissing
<1>5. x.nonce < first.nonce BY <1>3, <1>4 DEF SealedInOrder
<1>6. recvNonce <= x.nonce /\ x.nonce \in Nat BY FlightTyped DEF NoncesExpected, LinkCell
<1>. QED BY <1>5, <1>6, <1>t

\* The four ways a cell is read: skip, collect, dispatch, break.
LEMMA ReadShape ==
  ASSUME TypeOK, ReadCell, NEW first, first = Head(wire)
  PROVE  /\ up /\ recvNonce' = recvNonce + 1 /\ sendNonce' = sendNonce
         /\ UNCHANGED <<queueVars, taskVars>>
         /\ \/ first.nonce = recvNonce /\ first.more /\ got' = got /\ up'
            \/ /\ first.nonce = recvNonce /\ ~ first.more /\ up'
               /\ got' = [got EXCEPT ![first.src] = Append(@, first.n)]
            \/ ~ up' /\ got' = got
BY DEF ReadCell, Dispatched

LEMMA ReadKeeps ==
  ASSUME TypeOK, PlacesApart, NoncesExpected, SealedInOrder, WithinSource, NoneMissing, ReadCell
  PROVE  NoncesExpected' /\ SealedInOrder' /\ WithinSource' /\ NoneMissing'
<1>. DEFINE first == wire[1]
<1>. HIDE DEF first
<1>1. /\ first \in InFlight /\ first = Head(wire)
      /\ \A x : x \in InFlight <=> x \in InFlight' \/ x = first
      /\ \A x \in InFlight' : x.nonce # first.nonce
  BY ReadMoves DEF first
<1>2. /\ up /\ recvNonce' = recvNonce + 1 /\ sendNonce' = sendNonce
      /\ UNCHANGED <<queueVars, taskVars>>
      /\ \/ first.nonce = recvNonce /\ first.more /\ got' = got /\ up'
         \/ /\ first.nonce = recvNonce /\ ~ first.more /\ up'
            /\ got' = [got EXCEPT ![first.src] = Append(@, first.n)]
         \/ ~ up' /\ got' = got
  BY <1>1, ReadShape
<1>t. /\ recvNonce \in Nat /\ first.src \in Sources /\ got \in [Sources -> Seq(Nat)] /\ first.n \in Nat
      /\ \A x \in InFlight : x.src \in Sources /\ x.n \in Nat /\ x.nonce \in Nat /\ x.more \in BOOLEAN
      /\ \A s \in Sources : Done(s) \in Int /\ Len(got[s]) \in Nat
  <2>1. \A x \in LinkCell : x.src \in Sources /\ x.n \in Nat /\ x.nonce \in Nat /\ x.more \in BOOLEAN
    BY DEF LinkCell
  <2>2. recvNonce \in Nat /\ got \in [Sources -> Seq(Nat)] BY DEF TypeOK
  <2>. QED BY <2>1, <2>2, <1>1, FlightTyped, DoneTyped
<1>d. \A s \in Sources : Done(s)' = Done(s)
  BY <1>2 DEF Done, queueVars, taskVars
<1>g. /\ \A s \in Sources : s # first.src => Len(got'[s]) = Len(got[s])
      /\ \/ Len(got'[first.src]) = Len(got[first.src])
         \/ /\ Len(got'[first.src]) = first.n /\ first.n = Len(got[first.src]) + 1
            /\ first.nonce = recvNonce /\ ~ first.more /\ up'
  <2>1. CASE got' = got BY <2>1
  <2>2. CASE /\ first.nonce = recvNonce /\ ~ first.more /\ up'
             /\ got' = [got EXCEPT ![first.src] = Append(@, first.n)]
    <3>1. first.n = Len(got[first.src]) + 1 BY <1>1, <1>2, <2>2, ReadInTurn
    <3>2. got'[first.src] = Append(got[first.src], first.n) BY <2>2, <1>t
    <3>3. Len(got'[first.src]) = Len(got[first.src]) + 1 BY <3>2, <1>t
    <3>4. \A s \in Sources : s # first.src => got'[s] = got[s] BY <2>2, <1>t
    <3>. QED BY <2>2, <3>1, <3>3, <3>4
  <2>. QED BY <2>1, <2>2, <1>2
<1>3. NoncesExpected'
  <2> SUFFICES ASSUME NEW x \in InFlight'
               PROVE  x.nonce < sendNonce /\ (up' => recvNonce + 1 <= x.nonce)
    BY <1>2 DEF NoncesExpected
  <2>1. x \in InFlight /\ x.nonce # first.nonce BY <1>1
  <2>2. x.nonce < sendNonce /\ recvNonce <= x.nonce BY <2>1, <1>2 DEF NoncesExpected
  <2>3. up' => first.nonce = recvNonce BY <1>2
  <2>. QED BY <2>1, <2>2, <2>3, <1>t
<1>4. SealedInOrder'
  <2>1. \A x \in InFlight' : x \in InFlight BY <1>1
  <2>. QED BY <2>1 DEF SealedInOrder
<1>5. WithinSource'
  <2>1. ASSUME NEW x \in InFlight'
        PROVE  /\ up' => Len(got'[x.src]) < x.n
               /\ x.n <= Done(x.src)' + 1
               /\ ~ x.more => x.n <= Done(x.src)'
    <3>1. x \in InFlight /\ x.src \in Sources /\ x.nonce # first.nonce BY <1>1, <1>t
    <3>2. /\ Len(got[x.src]) < x.n
          /\ x.n <= Done(x.src)' + 1
          /\ ~ x.more => x.n <= Done(x.src)'
      BY <3>1, <1>2, <1>d DEF WithinSource
    <3>3. CASE Len(got'[x.src]) = Len(got[x.src]) BY <3>2, <3>3
    <3>4. CASE /\ x.src = first.src
               /\ Len(got'[first.src]) = first.n /\ first.n = Len(got[first.src]) + 1
               /\ first.nonce = recvNonce /\ ~ first.more /\ up'
      <4>1. x.n # first.n
        <5>1. SUFFICES ASSUME x.n = first.n PROVE FALSE
          OBVIOUS
        <5>2. x.nonce < first.nonce BY <3>1, <3>4, <5>1, <1>1 DEF SealedInOrder
        <5>3. recvNonce <= x.nonce BY <3>1, <1>2 DEF NoncesExpected
        <5>. QED BY <5>2, <5>3, <3>4, <3>1, <1>t
      <4>. QED BY <3>1, <3>2, <3>4, <4>1, <1>t
    <3>. QED BY <3>1, <3>3, <3>4, <1>g
  <2>2. ASSUME NEW s \in Sources PROVE Len(got'[s]) <= Done(s)'
    <3>1. Len(got[s]) <= Done(s) BY DEF WithinSource
    <3>2. CASE Len(got'[s]) = Len(got[s]) BY <3>1, <3>2, <1>d
    <3>3. CASE s = first.src /\ Len(got'[first.src]) = first.n /\ ~ first.more
      <4>1. first.n <= Done(first.src) BY <3>3, <1>1 DEF WithinSource
      <4>. QED BY <3>3, <4>1, <1>d
    <3>. QED BY <3>2, <3>3, <1>g
  <2>. QED BY <2>1, <2>2 DEF WithinSource
<1>6. NoneMissing'
  <2> SUFFICES ASSUME up', NEW s \in Sources, NEW m \in Len(got'[s]) + 1 .. Done(s)
               PROVE  \E x \in InFlight' : x.src = s /\ x.n = m /\ ~ x.more
    BY <1>d DEF NoneMissing
  <2>1. Len(got[s]) <= Len(got'[s]) /\ Len(got'[s]) \in Nat
    <3>1. CASE s = first.src BY <3>1, <1>g, <1>t
    <3>2. CASE s # first.src BY <3>2, <1>g, <1>t
    <3>. QED BY <3>1, <3>2
  <2>2. m \in Len(got[s]) + 1 .. Done(s) BY <2>1, <1>t
  <2>3. PICK x \in InFlight : x.src = s /\ x.n = m /\ ~ x.more BY <2>2, <1>2 DEF NoneMissing
  <2>4. x # first
    <3>1. SUFFICES ASSUME x = first PROVE FALSE
      OBVIOUS
    <3>2. /\ first.nonce = recvNonce /\ ~ first.more
          /\ got' = [got EXCEPT ![first.src] = Append(@, first.n)]
      BY <3>1, <2>3, <1>2
    <3>3. Len(got'[first.src]) = Len(got[first.src]) + 1
      <4>1. got'[first.src] = Append(got[first.src], first.n) BY <3>2, <1>t
      <4>. QED BY <4>1, <1>t
    <3>4. first.n = Len(got'[s]) BY <3>1, <3>3, <2>3, <1>g, <1>t
    <3>. QED BY <3>1, <3>4, <2>3, <2>1
  <2>. QED BY <2>3, <2>4, <1>1
<1>. QED BY <1>3, <1>4, <1>5, <1>6

-----------------------------------------------------------------------------
(* The invariant: initially, and through every step. *)

LEMMA InitLinkInv ==
  ASSUME Init PROVE LinkInv
<1>1. QueuesInv BY InitQueuesInv DEF Init
<1>2. TypeOK
  <2>1. QueuesTypeOK BY <1>1 DEF QueuesInv
  <2>2. /\ begun \in [Senders -> Nat] /\ unsealed \in [Senders -> Nat]
        /\ frame \in [Senders -> Seq(LinkCell)]
    BY DEF Init
  <2>3. rx \in Seq(Seq(LinkCell)) /\ wire \in Seq(LinkCell) BY DEF Init
  <2>4. got \in [Sources -> Seq(Nat)] BY DEF Init
  <2>5. wpc = "control" /\ sendNonce \in Nat /\ recvNonce \in Nat /\ up \in BOOLEAN BY DEF Init
  <2>. QED BY <2>1, <2>2, <2>3, <2>4, <2>5 DEF TypeOK
<1>3. /\ Len(wire) = 0 /\ Len(rx) = 0 /\ \A s \in Senders : Len(frame[s]) = 0
      /\ \A s \in Sources : Len(got[s]) = 0 /\ Done(s) = 0
  <2>1. Len(wire) = 0 /\ Len(rx) = 0 /\ \A s \in Senders : Len(frame[s]) = 0 BY DEF Init
  <2>2. ASSUME NEW s \in Sources PROVE Len(got[s]) = 0 /\ Done(s) = 0
    BY DEF Init, QueuesInit, Done, Sources
  <2>. QED BY <2>1, <2>2
<1>4. \A x : x \notin InFlight BY <1>3, Places
<1>5. PlacesApart
  BY <1>3 DEF PlacesApart, WireApart, ChannelApart, FramesApart, WireOffChannel, WireOffFrames,
              ChannelOffFrames
<1>6. NoncesExpected /\ SealedInOrder BY <1>4 DEF NoncesExpected, SealedInOrder
<1>7. WithinSource /\ NoneMissing BY <1>3, <1>4 DEF WithinSource, NoneMissing
<1>8. NoLostWakeup /\ ReaderBehind BY DEF Init, NoLostWakeup, ReaderBehind
<1>. QED BY <1>1, <1>2, <1>5, <1>6, <1>7, <1>8 DEF LinkInv

\* A step that leaves cells, counters and the sources' progress alone.
LEMMA RestKeepsInv ==
  ASSUME LinkInv, TypeOK', QueuesInv', NoLostWakeup', PlacesApart',
         \A x : x \in InFlight' <=> x \in InFlight,
         UNCHANGED farVars, sendNonce' = sendNonce,
         \A s \in Sources : Done(s)' = Done(s)
  PROVE  LinkInv'
<1>1. NoncesExpected' /\ SealedInOrder' /\ WithinSource' /\ NoneMissing'
  BY FlightRests DEF LinkInv
<1>2. ReaderBehind' BY DEF LinkInv, ReaderBehind, farVars
<1>. QED BY <1>1, <1>2 DEF LinkInv

LEMMA QueuesRest ==
  ASSUME LinkInv, UNCHANGED queueVars PROVE QueuesInv'
BY SignalKeepsInv DEF LinkInv

\* Steps that leave every place alone.
LEMMA PlacesRest ==
  ASSUME PlacesApart, wire' = wire, rx' = rx, frame' = frame
  PROVE  PlacesApart' /\ \A x : x \in InFlight' <=> x \in InFlight
<1>1. ChannelApart' BY ChannelRests DEF PlacesApart
<1>2. WireApart'
  <2> SUFFICES ASSUME NEW i \in 1 .. Len(wire), NEW j \in 1 .. Len(wire), wire[i].nonce = wire[j].nonce
               PROVE  i = j
    BY DEF WireApart
  <2>. QED BY DEF PlacesApart, WireApart
<1>3. FramesApart' BY DEF PlacesApart, FramesApart
<1>6. WireOffChannel'
  <2> SUFFICES ASSUME NEW i \in 1 .. Len(wire), NEW k \in 1 .. Len(rx), NEW j \in 1 .. Len(rx[k])
               PROVE  wire[i].nonce # rx[k][j].nonce
    BY DEF WireOffChannel
  <2>. QED BY DEF PlacesApart, WireOffChannel
<1>7. WireOffFrames'
  <2> SUFFICES ASSUME NEW i \in 1 .. Len(wire), NEW s \in Senders, NEW j \in 1 .. Len(frame[s])
               PROVE  wire[i].nonce # frame[s][j].nonce
    BY DEF WireOffFrames
  <2>. QED BY DEF PlacesApart, WireOffFrames
<1>4. ChannelOffFrames' BY DEF PlacesApart, ChannelOffFrames
<1>5. \A x : x \in InFlight' <=> x \in InFlight BY DEF InFlight
<1>. QED BY <1>1, <1>2, <1>3, <1>4, <1>5, <1>6, <1>7 DEF PlacesApart

LEMMA SendMsgKeepsInv ==
  ASSUME LinkInv, NEW s \in Senders, NEW size \in 1 .. MaxCells[s], SendMsg(s, size)
  PROVE  LinkInv'
<1>1. MaxCells[s] \in Nat /\ size \in Nat /\ size > 0 BY LinkAssumption
<1>2. TypeOK'
  <2>1. begun' \in [Senders -> Nat] /\ unsealed' \in [Senders -> Nat]
    BY <1>1 DEF LinkInv, TypeOK, SendMsg
  <2>2. QueuesTypeOK' BY DEF LinkInv, TypeOK, SendMsg, QueuesTypeOK, queueVars
  <2>. QED BY <2>1, <2>2 DEF LinkInv, TypeOK, SendMsg, farVars
<1>3. QueuesInv' BY QueuesRest DEF SendMsg
<1>4. NoLostWakeup' BY DEF LinkInv, NoLostWakeup, SendMsg, queueVars, Ready
<1>5. PlacesApart' /\ \A x : x \in InFlight' <=> x \in InFlight
  BY PlacesRest DEF LinkInv, SendMsg
<1>6. ASSUME NEW t \in Sources PROVE Done(t)' = Done(t)
  <2>1. CASE t \in Circuits BY <2>1 DEF SendMsg, queueVars, Done
  <2>2. CASE t \notin Circuits
    <3>1. t \in Senders BY <2>2 DEF Sources
    <3>2. CASE t = s
      <4>1. unsealed[s] = 0 /\ unsealed'[s] = size /\ begun'[s] = begun[s] + 1 /\ begun[s] \in Nat
        BY DEF SendMsg, LinkInv, TypeOK
      <4>. QED BY <2>2, <3>2, <4>1, <1>1 DEF Done
    <3>3. CASE t # s
      <4>1. unsealed'[t] = unsealed[t] /\ begun'[t] = begun[t]
        BY <3>1, <3>3 DEF SendMsg, LinkInv, TypeOK
      <4>. QED BY <2>2, <4>1 DEF Done
    <3>. QED BY <3>2, <3>3
  <2>. QED BY <2>1, <2>2
<1>7. UNCHANGED farVars /\ sendNonce' = sendNonce BY DEF SendMsg
<1>. QED BY <1>2, <1>3, <1>4, <1>5, <1>6, <1>7, RestKeepsInv

LEMMA SealCellKeepsInv ==
  ASSUME LinkInv, NEW s \in Senders, SealCell(s) PROVE LinkInv'
<1>n. PICK new : new = Cell(s, begun[s], sendNonce, unsealed[s] > 1) OBVIOUS
<1>1. /\ TypeOK' /\ PlacesApart'
      /\ \A x : x \in InFlight' <=> x \in InFlight \/ x = new
  BY <1>n, SealMoves DEF LinkInv
<1>2. /\ begun[s] \in Nat /\ unsealed[s] \in Nat /\ sendNonce \in Nat /\ unsealed[s] > 0
      /\ s \in Sources /\ s \notin Circuits
  BY SendersAssumption DEF LinkInv, TypeOK, SealCell, Sources
<1>3. /\ new \in LinkCell /\ new.src = s /\ new.n = begun[s] /\ new.nonce = sendNonce
      /\ new.more = (unsealed[s] > 1)
  BY <1>n, <1>2 DEF Cell, LinkCell
<1>4. QueuesInv' BY QueuesRest DEF SealCell
<1>5. NoLostWakeup' BY DEF LinkInv, NoLostWakeup, SealCell, queueVars, Ready
<1>6. Done(s) = begun[s] - 1 BY <1>2 DEF Done
<1>7. /\ sendNonce' = sendNonce + 1 /\ UNCHANGED farVars /\ begun' = begun
      /\ unsealed'[s] = unsealed[s] - 1 /\ \A t \in Senders : t # s => unsealed'[t] = unsealed[t]
      /\ sent' = sent
  BY DEF LinkInv, TypeOK, SealCell, queueVars
<1>8. Done(s)' = IF unsealed[s] > 1 THEN begun[s] - 1 ELSE begun[s]
  BY <1>2, <1>7 DEF Done
<1>9. \A t \in Sources : t # s => Done(t)' = Done(t)
  BY <1>7 DEF Done, Sources
<1>10. new.n = Done(new.src) + 1 BY <1>2, <1>3, <1>6
<1>11. Done(new.src)' = IF new.more THEN Done(new.src) ELSE Done(new.src) + 1
  <2>1. CASE unsealed[s] > 1
    <3>1. new.more BY <2>1, <1>3
    <3>2. Done(s)' = Done(s) BY <2>1, <1>6, <1>8
    <3>. QED BY <3>1, <3>2, <1>3
  <2>2. CASE ~ unsealed[s] > 1
    <3>1. ~ new.more BY <2>2, <1>3
    <3>2. Done(s)' = Done(s) + 1 BY <2>2, <1>2, <1>6, <1>8
    <3>. QED BY <3>1, <3>2, <1>3
  <2>. QED BY <2>1, <2>2
<1>12. NoncesExpected' /\ SealedInOrder' /\ WithinSource' /\ NoneMissing'
  <2>1. \A t \in Sources : t # new.src => Done(t)' = Done(t) BY <1>3, <1>9
  <2>. QED BY <1>1, <1>3, <1>7, <1>10, <1>11, <2>1, FlightGrows DEF LinkInv, ReaderBehind
<1>13. ReaderBehind'
  <2>1. recvNonce \in Nat BY DEF LinkInv, TypeOK
  <2>. QED BY <2>1, <1>2, <1>7 DEF LinkInv, ReaderBehind, farVars
<1>. QED BY <1>1, <1>4, <1>5, <1>12, <1>13 DEF LinkInv

LEMMA EnqueueKeepsInv ==
  ASSUME LinkInv, NEW s \in Senders, Enqueue(s) PROVE LinkInv'
<1>1. TypeOK' /\ PlacesApart' /\ \A x : x \in InFlight' <=> x \in InFlight
  BY EnqueueMoves DEF LinkInv
<1>2. QueuesInv' BY QueuesRest DEF Enqueue
<1>3. NoLostWakeup' BY DEF LinkInv, NoLostWakeup, Enqueue, queueVars, Ready
<1>4. \A t \in Sources : Done(t)' = Done(t) BY DEF Enqueue, Done, queueVars
<1>5. UNCHANGED farVars /\ sendNonce' = sendNonce BY DEF Enqueue
<1>. QED BY <1>1, <1>2, <1>3, <1>4, <1>5, RestKeepsInv

\* The writer's steps that touch no circuit queue.
LEMMA WriteKeepsInv ==
  ASSUME LinkInv, WriteControl PROVE LinkInv'
<1>1. TypeOK' /\ PlacesApart' /\ \A x : x \in InFlight' <=> x \in InFlight
  BY WriteMoves DEF LinkInv
<1>2. QueuesInv' BY QueuesRest DEF WriteControl
<1>3. NoLostWakeup' BY DEF WriteControl, NoLostWakeup
<1>4. \A t \in Sources : Done(t)' = Done(t) BY DEF WriteControl, Done, queueVars, taskVars
<1>5. UNCHANGED farVars /\ sendNonce' = sendNonce BY DEF WriteControl
<1>. QED BY <1>1, <1>2, <1>3, <1>4, <1>5, RestKeepsInv

\* The writer looks, sleeps or wakes; a cell is pushed or notified of; time passes.
LEMMA IdleKeepsInv ==
  ASSUME LinkInv, QueuesInv', NoLostWakeup', wpc' \in {"control", "circuits", "asleep"},
         UNCHANGED <<taskVars, rx, sendNonce, wire, farVars, sent>>
  PROVE  LinkInv'
<1>1. TypeOK' BY DEF LinkInv, QueuesInv, TypeOK, taskVars, farVars
<1>2. PlacesApart' /\ \A x : x \in InFlight' <=> x \in InFlight
  BY PlacesRest DEF LinkInv, taskVars
<1>3. \A t \in Sources : Done(t)' = Done(t) BY DEF Done, taskVars
<1>. QED BY <1>1, <1>2, <1>3, RestKeepsInv

LEMMA CircuitKeepsInv ==
  ASSUME LinkInv, NEW c \in Circuits, WriteCircuit(c) PROVE LinkInv'
<1>1. PICK new \in LinkCell :
        /\ new.src = c /\ new.n = sent[c] + 1 /\ new.nonce = sendNonce /\ new.more = FALSE
        /\ wire' = Append(wire, new)
  BY SealedCell DEF LinkInv
<1>2. /\ TypeOK' /\ PlacesApart' /\ \A x : x \in InFlight' <=> x \in InFlight \/ x = new
  BY <1>1, CircuitMoves DEF LinkInv
<1>3. QueuesInv' BY PopNextKeepsInv DEF LinkInv, WriteCircuit
<1>4. NoLostWakeup' BY DEF WriteCircuit, NoLostWakeup
<1>5. /\ sendNonce' = sendNonce + 1 /\ UNCHANGED farVars /\ UNCHANGED taskVars
      /\ sent'[c] = sent[c] + 1 /\ \A d \in Circuits : d # c => sent'[d] = sent[d]
      /\ sent[c] \in Nat /\ sendNonce \in Nat
  BY DEF WriteCircuit, PopNext, LinkInv, TypeOK, QueuesTypeOK
<1>6. Done(c) = sent[c] /\ Done(c)' = sent[c] + 1 BY <1>5 DEF Done
<1>7. \A t \in Sources : t # c => Done(t)' = Done(t) BY <1>5 DEF Done, Sources, taskVars
<1>8. new.n = Done(new.src) + 1 BY <1>1, <1>6
<1>9. Done(new.src)' = IF new.more THEN Done(new.src) ELSE Done(new.src) + 1 BY <1>1, <1>6
<1>10. NoncesExpected' /\ SealedInOrder' /\ WithinSource' /\ NoneMissing'
  <2>1. \A t \in Sources : t # new.src => Done(t)' = Done(t) BY <1>1, <1>7
  <2>. QED BY <1>1, <1>2, <1>5, <1>8, <1>9, <2>1, FlightGrows DEF LinkInv, ReaderBehind
<1>11. ReaderBehind'
  <2>1. recvNonce \in Nat BY DEF LinkInv, TypeOK
  <2>. QED BY <2>1, <1>5 DEF LinkInv, ReaderBehind, farVars
<1>. QED BY <1>2, <1>3, <1>4, <1>10, <1>11 DEF LinkInv

LEMMA ReadKeepsInv ==
  ASSUME LinkInv, ReadCell PROVE LinkInv'
<1>1. TypeOK' /\ PlacesApart' BY ReadMoves DEF LinkInv
<1>2. QueuesInv' BY QueuesRest DEF ReadCell
<1>3. NoLostWakeup' BY DEF LinkInv, ReadCell, NoLostWakeup, queueVars, Ready
<1>4. NoncesExpected' /\ SealedInOrder' /\ WithinSource' /\ NoneMissing'
  BY ReadKeeps DEF LinkInv
<1>5. ReaderBehind'
  <2>1. wire[1] \in InFlight /\ wire[1] = Head(wire) BY ReadMoves DEF LinkInv
  <2>2. up' => wire[1].nonce = recvNonce BY <2>1 DEF ReadCell
  <2>3. wire[1].nonce < sendNonce BY <2>1 DEF LinkInv, NoncesExpected
  <2>4. recvNonce \in Nat /\ sendNonce \in Nat /\ recvNonce' = recvNonce + 1 /\ sendNonce' = sendNonce
    BY DEF LinkInv, TypeOK, ReadCell
  <2>. QED BY <2>2, <2>3, <2>4 DEF ReaderBehind
<1>. QED BY <1>1, <1>2, <1>3, <1>4, <1>5 DEF LinkInv

LEMMA WriterKeepsInv ==
  ASSUME LinkInv, WriterStep PROVE LinkInv'
<1>1. CASE WriteControl BY <1>1, WriteKeepsInv
<1>2. ASSUME NEW c \in Circuits, WriteCircuit(c) PROVE LinkInv'
  BY <1>2, CircuitKeepsInv
<1>3. CASE /\ wpc' = "circuits" /\ UNCHANGED <<queueVars, taskVars, rx, sendNonce, wire, farVars>>
  <2>1. QueuesInv' BY <1>3, QueuesRest
  <2>2. NoLostWakeup' BY <1>3 DEF NoLostWakeup
  <2>. QED BY <1>3, <2>1, <2>2, IdleKeepsInv DEF queueVars
<1>4. CASE Sleep
  <2>1. QueuesInv' BY <1>4, QueuesRest DEF Sleep
  <2>2. NoLostWakeup' BY <1>4 DEF Sleep, NoLostWakeup, Ready, queueVars
  <2>. QED BY <1>4, <2>1, <2>2, IdleKeepsInv DEF Sleep, queueVars
<1>5. CASE Wake /\ wpc' = "control" /\ UNCHANGED <<taskVars, rx, sendNonce, wire, farVars>>
  <2>1. QueuesInv' BY <1>5, SignalKeepsInv DEF LinkInv
  <2>2. NoLostWakeup' BY <1>5 DEF NoLostWakeup
  <2>. QED BY <1>5, <2>1, <2>2, IdleKeepsInv DEF Wake
<1>. QED BY <1>1, <1>2, <1>3, <1>4, <1>5 DEF WriterStep, TryRecv, Wakeup

LEMMA QueueStepKeepsInv ==
  ASSUME LinkInv, QueueStep PROVE LinkInv'
<1>u. UNCHANGED <<taskVars, rx, wpc, sendNonce, wire, farVars>> BY DEF QueueStep
<1>w. wpc' \in {"control", "circuits", "asleep"} BY <1>u DEF LinkInv, TypeOK
<1>1. CASE NotifyOne
  <2>1. QueuesInv' BY <1>1, SignalKeepsInv DEF LinkInv
  <2>2. NoLostWakeup' BY <1>1 DEF NotifyOne, NoLostWakeup
  <2>. QED BY <1>1, <1>u, <1>w, <2>1, <2>2, IdleKeepsInv DEF NotifyOne
<1>2. CASE Decay
  <2>1. QueuesInv' BY <1>2, DecayKeepsInv DEF LinkInv
  <2>2. NoLostWakeup' BY <1>2, <1>u DEF LinkInv, Decay, NoLostWakeup, Ready
  <2>. QED BY <1>2, <1>u, <1>w, <2>1, <2>2, IdleKeepsInv DEF Decay
<1>3. ASSUME NEW c \in Circuits, Push(c) PROVE LinkInv'
  <2>1. QueuesInv' BY <1>3, PushKeepsInv DEF LinkInv
  <2>2. unnotified \in Nat /\ unnotified' = unnotified + 1
    BY <1>3 DEF LinkInv, TypeOK, QueuesTypeOK, Push
  <2>3. NoLostWakeup' BY <2>2 DEF NoLostWakeup
  <2>. QED BY <1>3, <1>u, <1>w, <2>1, <2>3, IdleKeepsInv DEF Push
<1>. QED BY <1>1, <1>2, <1>3 DEF QueueStep

LEMMA StutterKeepsInv ==
  ASSUME LinkInv, UNCHANGED linkVars PROVE LinkInv'
<1>1. UNCHANGED <<queueVars, taskVars, rx, wpc, sendNonce, wire, farVars>> BY DEF linkVars
<1>2. QueuesInv' BY <1>1, QueuesRest
<1>3. NoLostWakeup' BY <1>1 DEF LinkInv, NoLostWakeup, Ready, queueVars
<1>4. wpc' \in {"control", "circuits", "asleep"} BY <1>1 DEF LinkInv, TypeOK
<1>. QED BY <1>1, <1>2, <1>3, <1>4, IdleKeepsInv DEF queueVars

\* The invariant holds in every reachable state.
THEOREM LinkSafe == Spec => []LinkInv
<1>1. Init => LinkInv BY InitLinkInv
<1>2. LinkInv /\ [Next]_linkVars => LinkInv'
  <2> SUFFICES ASSUME LinkInv, [Next]_linkVars PROVE LinkInv'
    OBVIOUS
  <2>1. CASE \E s \in Senders : \E size \in 1 .. MaxCells[s] : SendMsg(s, size)
    BY <2>1, SendMsgKeepsInv
  <2>2. CASE \E s \in Senders : SealCell(s) BY <2>2, SealCellKeepsInv
  <2>3. CASE \E s \in Senders : Enqueue(s) BY <2>3, EnqueueKeepsInv
  <2>4. CASE WriterStep BY <2>4, WriterKeepsInv
  <2>5. CASE ReadCell BY <2>5, ReadKeepsInv
  <2>6. CASE QueueStep BY <2>6, QueueStepKeepsInv
  <2>7. CASE UNCHANGED linkVars BY <2>7, StutterKeepsInv
  <2>. QED BY <2>1, <2>2, <2>3, <2>4, <2>5, <2>6, <2>7 DEF Next
<1>. QED BY <1>1, <1>2, PTL DEF Spec

(***************************************************************************)
(* The writer's select loses no wakeup (register_peer, CellQueues::push):  *)
(* for any number of circuits and senders, a writer asleep over queued     *)
(* cells has a permit stored or one about to be.                           *)
(***************************************************************************)
THEOREM NoWakeupIsLost == Spec => []NoLostWakeup
<1>1. LinkInv => NoLostWakeup BY DEF LinkInv
<1>. QED BY <1>1, LinkSafe, PTL

(***************************************************************************)
(* Session::encrypt never hands a nonce out twice: for any number of tasks *)
(* that seal at once, the sealed cells in flight have distinct nonces,     *)
(* none of which the reader has opened.                                    *)
(***************************************************************************)
THEOREM NoncesAreUsedOnce == Spec => []NonceUsedOnce
<1>1. LinkInv => NonceUsedOnce
  <2> SUFFICES ASSUME LinkInv PROVE NonceUsedOnce
    OBVIOUS
  <2>1. ASSUME NEW x \in InFlight, NEW y \in InFlight, x.nonce = y.nonce PROVE x = y
    <3>p. PlacesApart BY DEF LinkInv
    <3>1. ASSUME NEW i \in 1 .. Len(wire), x = wire[i] PROVE x = y
      <4>1. ASSUME NEW j \in 1 .. Len(wire), y = wire[j] PROVE x = y
        BY <2>1, <3>1, <4>1, <3>p DEF PlacesApart, WireApart
      <4>2. ASSUME NEW l \in 1 .. Len(rx), NEW j \in 1 .. Len(rx[l]), y = rx[l][j] PROVE FALSE
        BY <2>1, <3>1, <4>2, <3>p DEF PlacesApart, WireOffChannel
      <4>3. ASSUME NEW t \in Senders, NEW j \in 1 .. Len(frame[t]), y = frame[t][j] PROVE FALSE
        BY <2>1, <3>1, <4>3, <3>p DEF PlacesApart, WireOffFrames
      <4>. QED BY <4>1, <4>2, <4>3, Places
    <3>2. ASSUME NEW k \in 1 .. Len(rx), NEW i \in 1 .. Len(rx[k]), x = rx[k][i] PROVE x = y
      <4>1. ASSUME NEW j \in 1 .. Len(wire), y = wire[j] PROVE FALSE
        BY <2>1, <3>2, <4>1, <3>p DEF PlacesApart, WireOffChannel
      <4>2. ASSUME NEW l \in 1 .. Len(rx), NEW j \in 1 .. Len(rx[l]), y = rx[l][j] PROVE x = y
        BY <2>1, <3>2, <4>2, <3>p DEF PlacesApart, ChannelApart
      <4>3. ASSUME NEW t \in Senders, NEW j \in 1 .. Len(frame[t]), y = frame[t][j] PROVE FALSE
        BY <2>1, <3>2, <4>3, <3>p DEF PlacesApart, ChannelOffFrames
      <4>. QED BY <4>1, <4>2, <4>3, Places
    <3>3. ASSUME NEW s \in Senders, NEW i \in 1 .. Len(frame[s]), x = frame[s][i] PROVE x = y
      <4>1. ASSUME NEW j \in 1 .. Len(wire), y = wire[j] PROVE FALSE
        BY <2>1, <3>3, <4>1, <3>p DEF PlacesApart, WireOffFrames
      <4>2. ASSUME NEW l \in 1 .. Len(rx), NEW j \in 1 .. Len(rx[l]), y = rx[l][j] PROVE FALSE
        BY <2>1, <3>3, <4>2, <3>p DEF PlacesApart, ChannelOffFrames
      <4>3. ASSUME NEW t \in Senders, NEW j \in 1 .. Len(frame[t]), y = frame[t][j] PROVE x = y
        BY <2>1, <3>3, <4>3, <3>p DEF PlacesApart, FramesApart
      <4>. QED BY <4>1, <4>2, <4>3, Places
    <3>. QED BY <3>1, <3>2, <3>3, Places
  <2>. QED BY <2>1 DEF LinkInv, NoncesExpected, NonceUsedOnce
<1>. QED BY <1>1, LinkSafe, PTL

-----------------------------------------------------------------------------
(* The link implements the ordered link. *)

LEMMA InitOrdered ==
  ASSUME Init PROVE Ordered!Init
<1>1. Submitted = [s \in Sources |-> 0]
  <2>1. \A s \in Sources : (IF s \in Circuits THEN pushed[s] ELSE begun[s]) = 0
    BY DEF Init, QueuesInit, Sources
  <2>. QED BY <2>1 DEF Submitted
<1>. QED BY <1>1 DEF Init, Ordered!Init

\* Messages a source has not submitted are not sealed.
LEMMA DoneWasSubmitted ==
  ASSUME LinkInv, NEW s \in Sources PROVE Submitted[s] \in Nat /\ Done(s) <= Submitted[s]
<1>1. CASE s \in Circuits
  <2>1. pushed[s] = sent[s] + Len(q[s]) BY <1>1 DEF LinkInv, QueuesInv, CircuitFIFO
  <2>2. pushed[s] \in Nat /\ sent[s] \in Nat /\ Len(q[s]) \in Nat
    BY <1>1, Typed DEF LinkInv, QueuesInv
  <2>. QED BY <1>1, <2>1, <2>2 DEF Done, Submitted
<1>2. CASE s \notin Circuits
  <2>1. s \in Senders BY <1>2 DEF Sources
  <2>2. begun[s] \in Nat /\ unsealed[s] \in Nat BY <2>1 DEF LinkInv, TypeOK
  <2>. QED BY <1>2, <2>2 DEF Done, Submitted
<1>. QED BY <1>1, <1>2

\* A task begins a message, or a cell is pushed: its source submits.
LEMMA Submits ==
  ASSUME LinkInv, NEW s \in Sources, UNCHANGED farVars,
         Submitted' = [t \in Sources |-> IF t = s THEN Submitted[t] + 1 ELSE Submitted[t]]
  PROVE  Ordered!Next
<1>1. Submitted' = [Submitted EXCEPT ![s] = @ + 1]
  <2>1. DOMAIN Submitted = Sources BY DEF Submitted
  <2>. QED BY <2>1
<1>2. Ordered!Submit(s) BY <1>1 DEF Ordered!Submit, farVars
<1>. QED BY <1>2 DEF Ordered!Next

LEMMA SendMsgSubmits ==
  ASSUME LinkInv, NEW s \in Senders, NEW size, SendMsg(s, size)
  PROVE  Ordered!Next
<1>1. s \in Sources /\ s \notin Circuits BY SendersAssumption DEF Sources
<1>2. ASSUME NEW t \in Sources
      PROVE  (IF t \in Circuits THEN pushed[t] ELSE begun[t])'
               = IF t = s THEN Submitted[t] + 1 ELSE Submitted[t]
  <2>1. CASE t \in Circuits BY <2>1, <1>1 DEF SendMsg, Submitted, queueVars
  <2>2. CASE t \notin Circuits
    <3>1. t \in Senders BY <2>2 DEF Sources
    <3>2. begun'[t] = IF t = s THEN begun[t] + 1 ELSE begun[t]
      BY <3>1 DEF SendMsg, LinkInv, TypeOK
    <3>. QED BY <2>2, <3>2 DEF Submitted
  <2>. QED BY <2>1, <2>2
<1>3. Submitted' = [t \in Sources |-> IF t = s THEN Submitted[t] + 1 ELSE Submitted[t]]
  BY <1>2 DEF Submitted
<1>. QED BY <1>1, <1>3, Submits DEF SendMsg

LEMMA PushSubmits ==
  ASSUME LinkInv, NEW c \in Circuits, Push(c), UNCHANGED <<taskVars, farVars>>
  PROVE  Ordered!Next
<1>1. c \in Sources BY DEF Sources
<1>2. ASSUME NEW t \in Sources
      PROVE  (IF t \in Circuits THEN pushed[t] ELSE begun[t])'
               = IF t = c THEN Submitted[t] + 1 ELSE Submitted[t]
  <2>1. CASE t \in Circuits
    <3>1. pushed'[t] = IF t = c THEN pushed[t] + 1 ELSE pushed[t]
      BY <2>1 DEF Push, LinkInv, TypeOK, QueuesTypeOK
    <3>. QED BY <2>1, <3>1 DEF Submitted
  <2>2. CASE t \notin Circuits BY <2>2 DEF Submitted, taskVars
  <2>. QED BY <2>1, <2>2
<1>3. Submitted' = [t \in Sources |-> IF t = c THEN Submitted[t] + 1 ELSE Submitted[t]]
  BY <1>2 DEF Submitted
<1>. QED BY <1>1, <1>3, Submits

\* What the reader does: deliver, break, or nothing the user sees.
LEMMA ReadRefines ==
  ASSUME LinkInv, ReadCell PROVE [Ordered!Next]_(Ordered!absVars)
<1>. DEFINE first == wire[1]
<1>. HIDE DEF first
<1>1. first \in InFlight /\ first = Head(wire) BY ReadMoves DEF LinkInv, first
<1>2. /\ up /\ UNCHANGED <<queueVars, taskVars>>
      /\ \/ first.nonce = recvNonce /\ first.more /\ got' = got /\ up'
         \/ /\ first.nonce = recvNonce /\ ~ first.more /\ up'
            /\ got' = [got EXCEPT ![first.src] = Append(@, first.n)]
         \/ ~ up' /\ got' = got
  BY <1>1, ReadShape DEF LinkInv
<1>b. up' \in BOOLEAN /\ up \in BOOLEAN BY ReadMoves DEF LinkInv, TypeOK
<1>3. Submitted' = Submitted BY <1>2 DEF Submitted, queueVars, taskVars
<1>4. CASE got' = got /\ up'
  BY <1>2, <1>3, <1>4, <1>b DEF Ordered!absVars
<1>5. CASE ~ up' /\ got' = got
  <2>1. Ordered!Break BY <1>2, <1>3, <1>5, <1>b DEF Ordered!Break
  <2>. QED BY <2>1 DEF Ordered!Next
<1>6. CASE /\ first.nonce = recvNonce /\ ~ first.more /\ up'
           /\ got' = [got EXCEPT ![first.src] = Append(@, first.n)]
  <2>. DEFINE s == first.src
  <2>0. /\ s \in Sources /\ first.n \in Nat /\ Len(got[s]) \in Nat /\ Submitted[s] \in Nat
        /\ Done(s) \in Int
    BY <1>1, FlightTyped, DoneTyped, DoneWasSubmitted DEF LinkInv, LinkCell
  <2>1. first.n = Len(got[s]) + 1 BY <1>1, <1>2, <1>6, ReadInTurn DEF LinkInv
  <2>2. first.n <= Done(s) BY <1>1, <1>6 DEF LinkInv, WithinSource
  <2>3. Done(s) <= Submitted[s] BY <2>0, DoneWasSubmitted
  <2>4. Len(got[s]) < Submitted[s] BY <2>0, <2>1, <2>2, <2>3
  <2>5. got' = [got EXCEPT ![s] = Append(@, Len(@) + 1)] BY <1>6, <2>1
  <2>6. up' = up BY <1>2, <1>6, <1>b
  <2>. HIDE DEF s
  <2>7. Ordered!Deliver(s) BY <1>2, <1>3, <2>4, <2>5, <2>6 DEF Ordered!Deliver
  <2>. QED BY <2>0, <2>7 DEF Ordered!Next
<1>. QED BY <1>2, <1>4, <1>5, <1>6

(***************************************************************************)
(* A peer link (register_peer's writer, PeerConn::send_msg, recv_session   *)
(* at the far end) is an ordered link for each who sends on it: whatever   *)
(* the interleaving of sealing, queuing and writing, what is dispatched is *)
(* each source's next message, until the link breaks.                      *)
(***************************************************************************)
THEOREM LinkIsOrdered == Spec => ImplementsOrderedLink
<1>1. Init => Ordered!Init BY InitOrdered
<1>2. LinkInv /\ [Next]_linkVars => [Ordered!Next]_(Ordered!absVars)
  <2> SUFFICES ASSUME LinkInv, [Next]_linkVars PROVE [Ordered!Next]_(Ordered!absVars)
    OBVIOUS
  <2>1. CASE \E s \in Senders : \E size \in 1 .. MaxCells[s] : SendMsg(s, size)
    BY <2>1, SendMsgSubmits
  <2>2. CASE ReadCell BY <2>2, ReadRefines
  <2>3. CASE \E c \in Circuits : Push(c) /\ UNCHANGED <<taskVars, farVars>>
    BY <2>3, PushSubmits
  <2>4. CASE UNCHANGED <<pushed, begun, got, up>>
    <3>1. Submitted' = Submitted BY <2>4 DEF Submitted
    <3>. QED BY <2>4, <3>1 DEF Ordered!absVars
  <2>5. \/ \E s \in Senders : \E size \in 1 .. MaxCells[s] : SendMsg(s, size)
        \/ ReadCell
        \/ \E c \in Circuits : Push(c) /\ UNCHANGED <<taskVars, farVars>>
        \/ UNCHANGED <<pushed, begun, got, up>>
    <3>1. ASSUME NEW s \in Senders, SealCell(s) \/ Enqueue(s)
          PROVE  UNCHANGED <<pushed, begun, got, up>>
      BY <3>1 DEF SealCell, Enqueue, queueVars, farVars
    <3>2. CASE WriterStep
      BY <3>2 DEF WriterStep, TryRecv, Sleep, Wakeup, WriteCircuit, WriteControl, PopNext, Wake,
                  queueVars, taskVars, farVars
    <3>3. CASE QueueStep
      BY <3>3 DEF QueueStep, NotifyOne, Decay, taskVars, farVars
    <3>4. CASE UNCHANGED linkVars BY <3>4 DEF linkVars, queueVars, taskVars, farVars
    <3>. QED BY <3>1, <3>2, <3>3, <3>4 DEF Next
  <2>. QED BY <2>1, <2>2, <2>3, <2>4, <2>5
<1>. QED BY <1>1, <1>2, LinkSafe, PTL DEF Spec, ImplementsOrderedLink, Ordered!Spec

-----------------------------------------------------------------------------
(* The identities of nodes and the keys pinned for them; and certificates. *)

\* What may be in an identity file, and on the wire.
Files == [id : {0} \cup Gens, static : BOOLEAN, key : Keys]
Wires == [from : Describer, to : Describer, desc : Descs]

\* What an identity that is never rewritten costs: every id or key of a node but its
\* first is paid for by a write that failed or was torn, so both stay within their sets.
CountersPaid ==
    \A m \in Rebooting :
        /\ nodeId[m] <= mishaps + 1 /\ (file[m] = NoFile => nodeId[m] <= mishaps)
        /\ signKey[m] <= mishaps + 1 /\ (file[m].key = 0 => signKey[m] <= mishaps) /\ file[m].key <= mishaps + 1
        /\ file[m] # NoFile => file[m].id \in Gens /\ file[m].id <= mishaps + 1
        /\ phase[m] # "down" => nodeId[m] \in Gens /\ file[m] # NoFile

\* A speaker that is up has a key, so no statement in flight is without one.
AlwaysKeyed ==
    /\ \A n \in Describer \ Rebooting : nodeId[n] = 1 /\ (n \in Speaker => signKey[n] # 0)
    /\ \A n \in Rebooting : phase[n] = "up" => signKey[n] # 0
    /\ \A x \in descWire : x.desc.key # 0

\* Nothing is held of a node for which no key is pinned.
PinnedFirst ==
    \A n \in Describer, i \in DescId : pinned[n][i] = 0 => descriptors[n][i] = NoDesc

\* The one key of a node whose writes were all whole: the one in its file, in every
\* statement of it and in every pin, under whatever id.
OneKey(m) ==
    /\ file[m].key = signKey[m]
    /\ phase[m] = "loading" => file[m].id = nodeId[m]
    /\ \A x \in descWire : x.desc.of[1] = m => x.desc.key = signKey[m]
    /\ \A n \in Describer, g \in Gens : pinned[n][<<m, g>>] \in {0, signKey[m]}
KeyIsOne == mishaps = 0 => \A m \in Rebooting : OneKey(m)

\* Together.
DescInv == DescTypeOK /\ CountersPaid /\ AlwaysKeyed /\ PinnedFirst /\ HeldIsPinned /\ KeyIsOne

-----------------------------------------------------------------------------
\* There is a first id and a first key.
LEMMA GensAndKeys ==
    /\ Gens \subseteq Nat /\ Keys \subseteq Nat /\ 1 \in Gens /\ 0 \in Keys /\ 1 \in Keys
    /\ \A k \in Nat : k <= MaxMishaps => k + 1 \in Gens /\ k + 1 \in Keys
    /\ \A g \in Gens : g # 0
BY DescriptorsAssumption DEF Gens, Keys

\* A missing file, as one.
LEMMA NoFileTyped == NoFile \in Files /\ NoFile.id = 0 /\ NoFile.key = 0 /\ NoFile.static = FALSE
BY GensAndKeys DEF NoFile, Files

\* The invariant holds at the start, and each step keeps it.
LEMMA InitInv == DescInit => DescInv
<1> SUFFICES ASSUME DescInit PROVE DescInv
  OBVIOUS
<1> USE GensAndKeys, NoFileTyped
<1>1. file \in [Describer -> Files] /\ \A n \in Describer : file[n].key = 0 /\ (file[n] = NoFile \/ file[n].id = 1)
  BY DEF DescInit, Files
<1>2. phase \in [Describer -> {"down", "loading", "up"}] /\ nodeId \in [Describer -> {0} \cup Gens] /\ signKey \in [Describer -> Keys]
  BY DEF DescInit
<1>3. pinned \in [Describer -> [DescId -> Keys]] /\ descriptors \in [Describer -> [DescId -> Descs \cup {NoDesc}]]
  BY DEF DescInit
<1>4. DescTypeOK
  BY <1>1, <1>2, <1>3, DescriptorsAssumption DEF DescInit, DescTypeOK, Files
<1>5. \A m \in Rebooting : m \in Describer /\ nodeId[m] = 0 /\ signKey[m] = 0 /\ phase[m] = "down"
  BY DescriptorsAssumption DEF DescInit
<1>6. CountersPaid
  <2> SUFFICES ASSUME NEW m \in Rebooting
               PROVE  /\ nodeId[m] <= mishaps + 1 /\ (file[m] = NoFile => nodeId[m] <= mishaps)
                      /\ signKey[m] <= mishaps + 1 /\ (file[m].key = 0 => signKey[m] <= mishaps) /\ file[m].key <= mishaps + 1
                      /\ file[m] # NoFile => file[m].id \in Gens /\ file[m].id <= mishaps + 1
                      /\ phase[m] # "down" => nodeId[m] \in Gens /\ file[m] # NoFile
    BY DEF CountersPaid
  <2>1. mishaps = 0
    BY DEF DescInit
  <2>2. file[m] # NoFile => file[m].id = 1
    BY <1>1, <1>5
  <2>3. file[m].key = 0
    BY <1>1, <1>5
  <2> QED BY <2>1, <2>2, <2>3, <1>5
<1>7. AlwaysKeyed
  BY <1>5 DEF AlwaysKeyed, DescInit
<1>8. PinnedFirst /\ HeldIsPinned
  BY DEF PinnedFirst, HeldIsPinned, DescInit
<1>9. \A n \in Describer, m \in Rebooting, g \in Gens : pinned[n][<<m, g>>] = 0
  BY <1>5 DEF DescInit, DescId
<1>10. KeyIsOne
  <2>1. descWire = {}
    BY DEF DescInit
  <2> QED BY <2>1, <1>1, <1>5, <1>9 DEF KeyIsOne, OneKey
<1> QED BY <1>4, <1>6, <1>7, <1>8, <1>10 DEF DescInv

-----------------------------------------------------------------------------
LEMMA LoadOrCreateKeeps == ASSUME DescInv, NEW n \in Rebooting, LoadOrCreate(n) PROVE DescInv'
<1> USE GensAndKeys, NoFileTyped
<1>1. /\ n \in Describer /\ phase[n] = "down" /\ phase' = [phase EXCEPT ![n] = "loading"]
      /\ UNCHANGED <<signKey, pinned, descriptors, linkUp, descWire, descNow, reboots, mishaps>>
  BY DescriptorsAssumption DEF LoadOrCreate
<1>2. /\ file \in [Describer -> Files] /\ nodeId \in [Describer -> {0} \cup Gens] /\ signKey \in [Describer -> Keys]
      /\ mishaps \in Nat /\ mishaps <= MaxMishaps /\ Rebooting \subseteq Describer
  BY DescriptorsAssumption DEF DescInv, DescTypeOK, Files
<1>3. PICK f \in Files, i \in Gens : /\ file' = [file EXCEPT ![n] = f] /\ nodeId' = [nodeId EXCEPT ![n] = i]
                                    /\ f # NoFile /\ f.id = i /\ f.key = file[n].key /\ i <= mishaps + 1
  <2>1. CASE file[n] # NoFile
    <3> DEFINE f == [file[n] EXCEPT !.static = TRUE]
    <3>1. f \in Files /\ f.id = file[n].id /\ f.key = file[n].key /\ f.static = TRUE
      BY <1>1, <1>2 DEF Files
    <3>2. file[n].id \in Gens /\ file[n].id <= mishaps + 1
      BY <2>1 DEF DescInv, CountersPaid
    <3> QED BY <3>1, <3>2, <2>1 DEF LoadOrCreate, Write
  <2>2. CASE file[n] = NoFile
    <3> DEFINE f == [id |-> nodeId[n] + 1, static |-> TRUE, key |-> 0]
    <3>1. nodeId[n] \in Nat /\ nodeId[n] <= mishaps
      BY <2>2, <1>1, <1>2 DEF DescInv, CountersPaid
    <3>2. nodeId[n] + 1 \in Gens /\ nodeId[n] + 1 <= mishaps + 1
      BY <3>1, <1>2, DescriptorsAssumption
    <3>3. f \in Files /\ f.static = TRUE /\ f.key = file[n].key /\ f.id = nodeId[n] + 1
      BY <3>2, <2>2 DEF Files
    <3> QED BY <3>2, <3>3, <2>2 DEF LoadOrCreate, Write
  <2> QED BY <2>1, <2>2
<1>4. DescTypeOK'
  BY <1>1, <1>2, <1>3 DEF DescInv, DescTypeOK, Files
<1>5. CountersPaid'
  BY <1>1, <1>2, <1>3 DEF DescInv, CountersPaid
<1>6. AlwaysKeyed'
  BY <1>1, <1>2, <1>3 DEF DescInv, AlwaysKeyed, DescTypeOK
<1>7. PinnedFirst' /\ HeldIsPinned'
  BY <1>1 DEF DescInv, PinnedFirst, HeldIsPinned
<1>8. KeyIsOne'
  BY <1>1, <1>2, <1>3 DEF DescInv, KeyIsOne, OneKey, DescTypeOK
<1> QED BY <1>4, <1>5, <1>6, <1>7, <1>8 DEF DescInv

\* A key made is the next, and still one of the keys.
LEMMA MintedTyped ==
    ASSUME DescInv, NEW n \in Rebooting, phase[n] = "loading"
    PROVE  /\ Minted(n) \in Keys /\ Minted(n) # 0 /\ Minted(n) <= mishaps + 1
           /\ Saved(n) \in Files /\ Saved(n) # NoFile /\ Saved(n).key = Minted(n) /\ Saved(n).id = file[n].id
<1> USE GensAndKeys, NoFileTyped
<1>1. n \in Describer /\ file[n] \in Files /\ signKey[n] \in Keys /\ mishaps \in Nat /\ mishaps <= MaxMishaps
  BY DescriptorsAssumption DEF DescInv, DescTypeOK, Files
<1>2. /\ signKey[n] <= mishaps + 1 /\ (file[n].key = 0 => signKey[n] <= mishaps) /\ file[n].key <= mishaps + 1
     /\ file[n] # NoFile /\ file[n].id \in Gens
  BY DEF DescInv, CountersPaid
<1>3. Minted(n) \in Keys /\ Minted(n) # 0 /\ Minted(n) <= mishaps + 1
  <2>1. CASE file[n].key # 0
    BY <2>1, <1>1, <1>2 DEF Minted, Files
  <2>2. CASE file[n].key = 0
    <3>1. Minted(n) = signKey[n] + 1 /\ signKey[n] \in Nat
      BY <2>2, <1>1 DEF Minted
    <3> QED BY <3>1, <2>2, <1>1, <1>2, DescriptorsAssumption
  <2> QED BY <2>1, <2>2
<1>4. Saved(n) \in Files /\ Saved(n).key = Minted(n) /\ Saved(n).id = file[n].id
  BY <1>1, <1>3 DEF Saved, Files
<1> QED BY <1>3, <1>4

\* What a node says of itself is a descriptor, of its own id and under its own key.
LEMMA BuildTyped ==
    ASSUME DescInv, NEW n \in Speaker, phase[n] = "up"
    PROVE  /\ Build(n) \in Descs /\ Build(n).key = signKey[n] /\ signKey[n] # 0 /\ Build(n).of = <<n, nodeId[n]>>
<1> USE GensAndKeys
<1>1. n \in Describer /\ nodeId[n] \in Gens
  BY DescriptorsAssumption DEF DescInv, AlwaysKeyed, CountersPaid
<1>2. signKey[n] \in Keys /\ signKey[n] # 0 /\ descNow \in 0 .. DescEnd
  BY <1>1, DescriptorsAssumption DEF DescInv, DescTypeOK, AlwaysKeyed
<1> QED BY <1>1, <1>2 DEF Build, MyId, Descs, DescId

LEMMA LoadSigningKeyKeeps == ASSUME DescInv, NEW n \in Rebooting, LoadSigningKey(n) PROVE DescInv'
<1> USE GensAndKeys, NoFileTyped
<1>1. /\ n \in Describer /\ phase[n] = "loading" /\ phase' = [phase EXCEPT ![n] = "up"]
      /\ signKey' = [signKey EXCEPT ![n] = Minted(n)] /\ file' = [file EXCEPT ![n] = Saved(n)]
      /\ UNCHANGED <<nodeId, pinned, descriptors, linkUp, descWire, descNow, reboots, mishaps>>
  BY DescriptorsAssumption DEF LoadSigningKey, Write
<1>2. /\ file \in [Describer -> Files] /\ phase \in [Describer -> {"down", "loading", "up"}]
      /\ signKey \in [Describer -> Keys] /\ mishaps \in Nat /\ Rebooting \subseteq Describer
  BY DescriptorsAssumption DEF DescInv, DescTypeOK, Files
<1>3. PICK f \in Files, k \in Keys : /\ signKey' = [signKey EXCEPT ![n] = k] /\ file' = [file EXCEPT ![n] = f]
                                    /\ f # NoFile /\ f.key = k /\ f.id = file[n].id
                                    /\ k # 0 /\ k <= mishaps + 1 /\ k = Minted(n)
  BY <1>1, MintedTyped
<1>4. DescTypeOK'
  BY <1>1, <1>2, <1>3 DEF DescInv, DescTypeOK, Files
<1>5. CountersPaid'
  BY <1>1, <1>2, <1>3 DEF DescInv, CountersPaid
<1>6. AlwaysKeyed'
  BY <1>1, <1>2, <1>3 DEF DescInv, AlwaysKeyed
<1>7. PinnedFirst' /\ HeldIsPinned'
  BY <1>1 DEF DescInv, PinnedFirst, HeldIsPinned
<1>8. ASSUME mishaps = 0, NEW m \in Rebooting PROVE OneKey(m)'
  <2>1. OneKey(m)
    BY <1>8 DEF DescInv, KeyIsOne
  <2>2. CASE m # n
    BY <2>1, <2>2, <1>1, <1>2, <1>3 DEF OneKey
  <2>3. CASE m = n
    <3>1. signKey[n] # 0 => k = signKey[n]
      BY <2>1, <2>3, <1>3 DEF OneKey, Minted
    <3>2. \A x \in descWire : x.desc.key # 0
      BY DEF DescInv, AlwaysKeyed
    <3> QED BY <2>1, <2>3, <3>1, <3>2, <1>1, <1>2, <1>3 DEF OneKey
  <2> QED BY <2>2, <2>3
<1> QED BY <1>1, <1>4, <1>5, <1>6, <1>7, <1>8 DEF DescInv, KeyIsOne

LEMMA MintUnsavedKeeps == ASSUME DescInv, NEW n \in Rebooting, MintUnsaved(n) PROVE DescInv'
<1> USE GensAndKeys, NoFileTyped
<1>1. /\ n \in Describer /\ phase[n] = "loading" /\ file[n].key = 0 /\ mishaps < MaxMishaps /\ mishaps' = mishaps + 1
      /\ UNCHANGED <<nodeId, pinned, descriptors, linkUp, descWire, descNow, reboots>>
  BY DescriptorsAssumption DEF MintUnsaved
<1>2. /\ file \in [Describer -> Files] /\ phase \in [Describer -> {"down", "loading", "up"}]
      /\ signKey \in [Describer -> Keys] /\ nodeId \in [Describer -> {0} \cup Gens]
      /\ mishaps \in Nat /\ mishaps' \in 0 .. MaxMishaps /\ Rebooting \subseteq Describer
  BY <1>1, DescriptorsAssumption DEF DescInv, DescTypeOK, Files
<1>3. Minted(n) \in Keys /\ Minted(n) # 0 /\ Minted(n) <= mishaps + 1
  BY <1>1, MintedTyped
<1>4. KeyIsOne'
  BY <1>1, <1>2 DEF KeyIsOne
<1>5. PinnedFirst' /\ HeldIsPinned'
  BY <1>1 DEF DescInv, PinnedFirst, HeldIsPinned
<1>6. CASE phase' = [phase EXCEPT ![n] = "up"] /\ signKey' = [signKey EXCEPT ![n] = Minted(n)] /\ UNCHANGED file
  <2>1. DescTypeOK'
    BY <1>1, <1>2, <1>3, <1>6 DEF DescInv, DescTypeOK, Files
  <2>2. CountersPaid'
    <3> SUFFICES ASSUME NEW m \in Rebooting
                 PROVE  /\ nodeId[m] <= mishaps' + 1 /\ (file'[m] = NoFile => nodeId[m] <= mishaps')
                        /\ signKey'[m] <= mishaps' + 1 /\ (file'[m].key = 0 => signKey'[m] <= mishaps')
                        /\ file'[m].key <= mishaps' + 1
                        /\ file'[m] # NoFile => file'[m].id \in Gens /\ file'[m].id <= mishaps' + 1
                        /\ phase'[m] # "down" => nodeId[m] \in Gens /\ file'[m] # NoFile
      BY <1>1 DEF CountersPaid
    <3>1. nodeId[m] \in Nat /\ signKey[m] \in Nat /\ file[m].key \in Nat /\ file[m].id \in Nat
      BY <1>2 DEF Files
    <3>2. /\ nodeId[m] <= mishaps + 1 /\ signKey[m] <= mishaps + 1 /\ file[m].key <= mishaps + 1
          /\ file[m] # NoFile => file[m].id \in Gens /\ file[m].id <= mishaps + 1
          /\ phase[m] # "down" => nodeId[m] \in Gens /\ file[m] # NoFile
      BY DEF DescInv, CountersPaid
    <3>3. /\ nodeId[m] <= mishaps' /\ signKey[m] <= mishaps' /\ file[m].key <= mishaps'
          /\ file[m] # NoFile => file[m].id <= mishaps'
      BY <3>1, <3>2, <1>1, <1>2
    <3>4. /\ file'[m] = file[m] /\ mishaps' \in Nat /\ signKey'[m] \in Nat /\ signKey'[m] <= mishaps'
          /\ phase'[m] # "down" => phase[m] # "down"
      <4>1. signKey'[m] = signKey[m] \/ signKey'[m] = Minted(n)
        BY <1>2, <1>6
      <4>2. phase'[m] # "down" => phase[m] # "down"
        BY <1>1, <1>2, <1>6
      <4>3. mishaps' \in Nat /\ Minted(n) \in Nat /\ Minted(n) <= mishaps'
        <5>1. Minted(n) \in Nat /\ Minted(n) <= mishaps + 1
          BY <1>3
        <5>2. mishaps' = mishaps + 1 /\ mishaps' \in Nat
          BY <1>1, <1>2
        <5> QED BY <5>1, <5>2
      <4>4. signKey'[m] \in Nat /\ signKey'[m] <= mishaps'
        BY <4>1, <4>3, <3>1, <3>3
      <4> QED BY <4>2, <4>3, <4>4, <1>6
    <3> QED BY <3>1, <3>2, <3>3, <3>4
  <2>3. AlwaysKeyed'
    BY <1>1, <1>2, <1>3, <1>6 DEF DescInv, AlwaysKeyed
  <2> QED BY <2>1, <2>2, <2>3, <1>4, <1>5 DEF DescInv
<1>7. CASE phase' = [phase EXCEPT ![n] = "down"] /\ file' = [file EXCEPT ![n] = NoFile] /\ UNCHANGED signKey
  <2>1. DescTypeOK'
    BY <1>1, <1>2, <1>7 DEF DescInv, DescTypeOK, Files
  <2>2. CountersPaid'
    <3> SUFFICES ASSUME NEW m \in Rebooting
                 PROVE  /\ nodeId[m] <= mishaps' + 1 /\ (file'[m] = NoFile => nodeId[m] <= mishaps')
                        /\ signKey'[m] <= mishaps' + 1 /\ (file'[m].key = 0 => signKey'[m] <= mishaps')
                        /\ file'[m].key <= mishaps' + 1
                        /\ file'[m] # NoFile => file'[m].id \in Gens /\ file'[m].id <= mishaps' + 1
                        /\ phase'[m] # "down" => nodeId[m] \in Gens /\ file'[m] # NoFile
      BY <1>1 DEF CountersPaid
    <3>1. nodeId[m] \in Nat /\ signKey[m] \in Nat /\ file[m].key \in Nat /\ file[m].id \in Nat
      BY <1>2 DEF Files
    <3>2. /\ nodeId[m] <= mishaps + 1 /\ signKey[m] <= mishaps + 1 /\ file[m].key <= mishaps + 1
          /\ file[m] # NoFile => file[m].id \in Gens /\ file[m].id <= mishaps + 1
          /\ phase[m] # "down" => nodeId[m] \in Gens /\ file[m] # NoFile
      BY DEF DescInv, CountersPaid
    <3>3. /\ nodeId[m] <= mishaps' /\ signKey[m] <= mishaps' /\ file[m].key <= mishaps'
          /\ file[m] # NoFile => file[m].id <= mishaps'
      BY <3>1, <3>2, <1>1, <1>2
    <3>4. /\ file'[m] \in {file[m], NoFile} /\ mishaps' \in Nat /\ signKey'[m] = signKey[m]
          /\ phase'[m] # "down" => phase[m] # "down" /\ file'[m] = file[m]
      BY <1>1, <1>2, <1>7
    <3> QED BY <3>1, <3>2, <3>3, <3>4
  <2>3. AlwaysKeyed'
    BY <1>1, <1>2, <1>7 DEF DescInv, AlwaysKeyed
  <2> QED BY <2>1, <2>2, <2>3, <1>4, <1>5 DEF DescInv
<1> QED BY <1>6, <1>7 DEF MintUnsaved, Write

LEMMA RebootKeeps == ASSUME DescInv, NEW n \in Rebooting, Reboot(n) PROVE DescInv'
<1> USE GensAndKeys
<1>1. /\ n \in Describer /\ phase' = [phase EXCEPT ![n] = "down"] /\ reboots' = reboots + 1 /\ reboots < MaxReboots
      /\ pinned' = [pinned EXCEPT ![n] = [i \in DescId |-> 0]]
      /\ descriptors' = [descriptors EXCEPT ![n] = [i \in DescId |-> NoDesc]]
      /\ linkUp' \subseteq linkUp /\ descWire' \subseteq descWire
      /\ UNCHANGED <<file, nodeId, signKey, descNow, mishaps>>
  BY DescriptorsAssumption DEF Reboot
<1>2. /\ phase \in [Describer -> {"down", "loading", "up"}] /\ pinned \in [Describer -> [DescId -> Keys]]
      /\ descriptors \in [Describer -> [DescId -> Descs \cup {NoDesc}]] /\ Rebooting \subseteq Describer
  BY DescriptorsAssumption DEF DescInv, DescTypeOK
<1>3. DescTypeOK'
  <2>1. reboots' \in 0 .. MaxReboots
    BY <1>1, DescriptorsAssumption DEF DescInv, DescTypeOK
  <2> QED BY <1>1, <1>2, <2>1 DEF DescInv, DescTypeOK
<1>4. CountersPaid'
  BY <1>1, <1>2 DEF DescInv, CountersPaid
<1>5. AlwaysKeyed'
  BY <1>1, <1>2 DEF DescInv, AlwaysKeyed
<1>6. PinnedFirst' /\ HeldIsPinned'
  BY <1>1, <1>2 DEF DescInv, PinnedFirst, HeldIsPinned
<1>7. ASSUME mishaps = 0, NEW m \in Rebooting PROVE OneKey(m)'
  <2>1. OneKey(m)
    BY <1>7 DEF DescInv, KeyIsOne
  <2>2. \A g \in Gens : <<m, g>> \in DescId
    BY <1>2 DEF DescId
  <2> QED BY <2>1, <2>2, <1>1, <1>2 DEF OneKey
<1> QED BY <1>1, <1>3, <1>4, <1>5, <1>6, <1>7 DEF DescInv, KeyIsOne

LEMMA ConnectKeeps == ASSUME DescInv, NEW n \in Describer, NEW m \in Describer, Connect(n, m) PROVE DescInv'
<1> USE GensAndKeys
<1>1. /\ phase[n] = "up" /\ phase[m] = "up" /\ linkUp' = linkUp \cup {{n, m}} /\ {n, m} \in Edge
      /\ descWire' = descWire \cup Announces(n, m) \cup Announces(m, n)
      /\ UNCHANGED <<file, phase, nodeId, signKey, pinned, descriptors, descNow, reboots, mishaps>>
  BY DEF Connect
<1>2. ASSUME NEW x \in descWire'
      PROVE  x \in descWire \/ /\ x \in Wires /\ x.desc.key # 0
                               /\ x.desc.key = signKey[x.desc.of[1]]
  <2>1. ASSUME NEW p \in Describer, NEW r \in Describer, phase[p] = "up", x \in Announces(p, r)
        PROVE  x \in Wires /\ x.desc.key # 0 /\ x.desc.key = signKey[x.desc.of[1]]
    <3>1. p \in Speaker /\ x = [from |-> p, to |-> r, desc |-> Build(p)]
      BY <2>1 DEF Announces
    <3>2. Build(p) \in Descs /\ Build(p).key = signKey[p] /\ signKey[p] # 0 /\ Build(p).of[1] = p
      BY <3>1, <2>1, BuildTyped
    <3> QED BY <3>1, <3>2 DEF Wires
  <2> QED BY <2>1, <1>1
<1>3. DescTypeOK'
  BY <1>1, <1>2 DEF DescInv, DescTypeOK, Wires
<1>4. CountersPaid' /\ PinnedFirst' /\ HeldIsPinned'
  BY <1>1 DEF DescInv, CountersPaid, PinnedFirst, HeldIsPinned
<1>5. AlwaysKeyed'
  BY <1>1, <1>2 DEF DescInv, AlwaysKeyed
<1>6. KeyIsOne'
  BY <1>1, <1>2 DEF DescInv, KeyIsOne, OneKey
<1> QED BY <1>3, <1>4, <1>5, <1>6 DEF DescInv

LEMMA RecvRelayDescKeeps == ASSUME DescInv, NEW x \in descWire, RecvRelayDesc(x) PROVE DescInv'
<1> USE GensAndKeys
<1> DEFINE t == x.to  i == x.desc.of
<1>1. /\ x \in Wires /\ t \in Describer /\ i \in DescId /\ x.desc \in Descs /\ x.desc.key \in Keys /\ x.desc.key # 0
  <2>1. x \in Wires
    BY DEF DescInv, DescTypeOK, Wires
  <2>2. x.desc.key # 0
    BY DEF DescInv, AlwaysKeyed
  <2> QED BY <2>1, <2>2 DEF Wires, Descs
<1>2. /\ pinned \in [Describer -> [DescId -> Keys]] /\ descriptors \in [Describer -> [DescId -> Descs \cup {NoDesc}]]
      /\ pinned' = [pinned EXCEPT ![t][i] = PinFor(x)]
      /\ UNCHANGED <<file, phase, nodeId, signKey, linkUp, descNow, reboots, mishaps>>
  BY DEF RecvRelayDesc, DescInv, DescTypeOK
<1>3. /\ PinFor(x) \in {x.desc.key, pinned[t][i]} /\ PinFor(x) \in Keys
      /\ pinned[t][i] # 0 => PinFor(x) = pinned[t][i]
  BY <1>1, <1>2 DEF PinFor
<1>4. ASSUME NEW y \in descWire' PROVE \E z \in descWire : y.desc = z.desc
  <2> DEFINE onward == {[from |-> t, to |-> m, desc |-> x.desc] : m \in {m \in Describer \ {x.from} : {t, m} \in linkUp}}
  <2>1. descWire' \subseteq descWire \cup onward
    BY DEF RecvRelayDesc
  <2>2. ASSUME NEW z \in onward PROVE z.desc = x.desc
    <3>1. PICK m \in Describer : z = [from |-> t, to |-> m, desc |-> x.desc]
      BY <2>2
    <3> QED BY <3>1
  <2> QED BY <1>4, <2>1, <2>2
<1>5. descWire' \subseteq Wires
  <2>1. descWire \subseteq Wires
    BY DEF DescInv, DescTypeOK, Wires
  <2>2. ASSUME NEW z \in Describer PROVE [from |-> t, to |-> z, desc |-> x.desc] \in Wires
    BY <1>1 DEF Wires
  <2> DEFINE onward == {[from |-> t, to |-> m, desc |-> x.desc] : m \in {m \in Describer \ {x.from} : {t, m} \in linkUp}}
  <2>3. descWire' \subseteq descWire \cup onward
    BY DEF RecvRelayDesc
  <2>4. onward \subseteq Wires
    BY <2>2
  <2> QED BY <2>1, <2>3, <2>4
<1>6. \/ UNCHANGED descriptors
      \/ descriptors' = [descriptors EXCEPT ![t][i] = x.desc] /\ PinFor(x) = x.desc.key
  BY DEF RecvRelayDesc, Verifies
<1>7. DescTypeOK'
  <2>1. pinned' \in [Describer -> [DescId -> Keys]]
    BY <1>1, <1>2, <1>3
  <2>2. descriptors' \in [Describer -> [DescId -> Descs \cup {NoDesc}]]
    <3>1. CASE descriptors' = [descriptors EXCEPT ![t][i] = x.desc]
      <4>1. [descriptors[t] EXCEPT ![i] = x.desc] \in [DescId -> Descs \cup {NoDesc}]
        BY <1>1, <1>2
      <4> QED BY <4>1, <3>1, <1>1, <1>2
    <3> QED BY <3>1, <1>2, <1>6
  <2> QED BY <1>2, <1>5, <2>1, <2>2 DEF DescInv, DescTypeOK, Wires
<1>8. CountersPaid'
  BY <1>2 DEF DescInv, CountersPaid
<1>9. AlwaysKeyed'
  BY <1>2, <1>4 DEF DescInv, AlwaysKeyed
<1>10. ASSUME NEW n \in Describer, NEW j \in DescId, ~(n = t /\ j = i)
       PROVE  pinned'[n][j] = pinned[n][j] /\ descriptors'[n][j] = descriptors[n][j]
  BY <1>1, <1>2, <1>6, <1>10
<1>11. pinned'[t][i] = PinFor(x)
  BY <1>1, <1>2
<1>12. descriptors'[t][i] = descriptors[t][i] \/ (descriptors'[t][i] = x.desc /\ PinFor(x) = x.desc.key)
  BY <1>1, <1>2, <1>6
<1>13. PinnedFirst' /\ HeldIsPinned'
  <2>1. (pinned[t][i] = 0 => descriptors[t][i] = NoDesc) /\ (descriptors[t][i] # NoDesc => descriptors[t][i].key = pinned[t][i])
    BY <1>1 DEF DescInv, PinnedFirst, HeldIsPinned
  <2>2. pinned'[t][i] = 0 => descriptors'[t][i] = NoDesc
    BY <2>1, <1>1, <1>3, <1>11, <1>12
  <2>3. descriptors'[t][i] # NoDesc => descriptors'[t][i].key = pinned'[t][i]
    BY <2>1, <1>3, <1>11, <1>12
  <2> QED BY <2>2, <2>3, <1>10 DEF DescInv, PinnedFirst, HeldIsPinned
<1>14. ASSUME mishaps = 0, NEW m \in Rebooting PROVE OneKey(m)'
  <2>1. OneKey(m)
    BY <1>14 DEF DescInv, KeyIsOne
  <2>2. \A y \in descWire' : y.desc.of[1] = m => y.desc.key = signKey[m]
    BY <2>1, <1>4 DEF OneKey
  <2>3. ASSUME NEW n \in Describer, NEW g \in Gens PROVE pinned'[n][<<m, g>>] \in {0, signKey[m]}
    <3>1. <<m, g>> \in DescId
      BY DescriptorsAssumption DEF DescId
    <3>2. CASE n = t /\ <<m, g>> = i
      <4>1. i[1] = m /\ x.desc.key = signKey[m]
        BY <3>2, <2>1 DEF OneKey
      <4>2. pinned[t][i] \in {0, signKey[m]}
        BY <3>2, <2>1 DEF OneKey
      <4> QED BY <3>2, <4>1, <4>2, <1>3, <1>11
    <3> QED BY <3>1, <3>2, <2>1, <1>10 DEF OneKey
  <2> QED BY <2>1, <2>2, <2>3, <1>2 DEF OneKey
<1> QED BY <1>2, <1>7, <1>8, <1>9, <1>13, <1>14 DEF DescInv, KeyIsOne

LEMMA DescTickKeeps == ASSUME DescInv, DescTick PROVE DescInv'
<1>1. descNow' \in 0 .. DescEnd
  BY DescriptorsAssumption DEF DescInv, DescTypeOK, DescTick
<1> QED BY <1>1 DEF DescInv, DescTypeOK, CountersPaid, AlwaysKeyed, PinnedFirst, HeldIsPinned, KeyIsOne, OneKey, DescTick

\* Every step keeps it.
LEMMA DescInvKept == DescInv /\ [DescNext]_descVars => DescInv'
<1> SUFFICES ASSUME DescInv, [DescNext]_descVars PROVE DescInv'
  OBVIOUS
<1>1. CASE UNCHANGED descVars
  BY <1>1 DEF descVars, DescInv, DescTypeOK, CountersPaid, AlwaysKeyed, PinnedFirst, HeldIsPinned, KeyIsOne, OneKey
<1>2. CASE DescNext
  BY <1>2, LoadOrCreateKeeps, LoadSigningKeyKeeps, MintUnsavedKeeps, RebootKeeps, ConnectKeeps,
     RecvRelayDescKeeps, DescTickKeeps DEF DescNext
<1> QED BY <1>1, <1>2

\* The binding of a node id to its key (relay_desc.rs, "Binding"): what any node holds of
\* another carries the key that node showed it over their own link, and however often a
\* relay restarts the key others pinned for its id is its own, while its identity is
\* written whole.
THEOREM BindingAlwaysHolds == DescSpec => []BindingHolds
<1>1. ASSUME DescInv PROVE BindingHolds
  <2>1. ASSUME mishaps = 0, NEW n \in Describer, NEW m \in Rebooting, phase[m] = "up"
        PROVE  pinned[n][MyId(m)] \in {0, signKey[m]}
    BY <1>1, <2>1 DEF DescInv, KeyIsOne, OneKey, CountersPaid, MyId
  <2> QED BY <1>1, <2>1 DEF DescInv, BindingHolds, KeyOutlivesRestarts
<1> QED BY <1>1, InitInv, DescInvKept, PTL DEF DescSpec

-----------------------------------------------------------------------------
(* Certificates. *)

\* Powers of two are numbers, and the next is twice the last: a set has twice the
\* subsets when it has one element more.
LEMMA PowerDoubles == ASSUME NEW n \in Nat PROVE 2 ^ n \in Nat /\ 2 ^ (n + 1) = 2 * 2 ^ n
<1> DEFINE S == 1 .. n
           P == SUBSET S
           W == {A \union {n + 1} : A \in P}
           f == [A \in P |-> A \union {n + 1}]
<1>1. /\ IsFiniteSet(S) /\ Cardinality(S) = n
      /\ IsFiniteSet(1 .. n + 1) /\ Cardinality(1 .. n + 1) = n + 1
  BY FS_Interval
<1>2. /\ IsFiniteSet(P) /\ Cardinality(P) = 2 ^ n /\ Cardinality(P) \in Nat
      /\ Cardinality(SUBSET (1 .. n + 1)) = 2 ^ (n + 1)
  BY <1>1, FS_SUBSET, FS_CardinalityType
<1>3. n + 1 \notin S
  OBVIOUS
<1>4. SUBSET (1 .. n + 1) = P \union W
  <2>1. 1 .. n + 1 = S \union {n + 1}
    OBVIOUS
  <2>2. ASSUME NEW B \in SUBSET (1 .. n + 1) PROVE B \in P \union W
    <3>1. CASE n + 1 \in B
      <4>1. B \ {n + 1} \in P /\ B = (B \ {n + 1}) \union {n + 1}
        BY <2>1, <3>1
      <4> QED BY <4>1
    <3>2. CASE n + 1 \notin B
      BY <2>1, <3>2
    <3> QED BY <3>1, <3>2
  <2>3. ASSUME NEW B \in P \union W PROVE B \in SUBSET (1 .. n + 1)
    BY <2>1
  <2> QED BY <2>2, <2>3
<1>5. P \intersect W = {}
  BY <1>3
<1>6. f \in Bijection(P, W)
  <2>1. f \in [P -> W]
    OBVIOUS
  <2>2. \A A, B \in P : f[A] = f[B] => A = B
    BY <1>3
  <2>3. \A w \in W : \E A \in P : f[A] = w
    OBVIOUS
  <2> HIDE DEF f, P, W
  <2> QED BY <2>1, <2>2, <2>3, Fun_IsBij
<1> HIDE DEF f, P, W, S
<1>7. IsFiniteSet(W) /\ Cardinality(W) = Cardinality(P)
  BY <1>2, <1>6, FS_Bijection DEF ExistsBijection
<1>8. Cardinality(P \union W) = Cardinality(P) + Cardinality(W) - Cardinality(P \intersect W)
  BY <1>2, <1>7, FS_Union
<1>9. Cardinality(P \intersect W) = 0
  BY <1>5, FS_EmptySet
<1>a. Cardinality(P \union W) = 2 ^ (n + 1)
  BY <1>2, <1>4
<1>b. 2 ^ n \in Nat /\ Cardinality(P) = 2 ^ n /\ Cardinality(W) = 2 ^ n
  BY <1>2, <1>7
<1>c. 2 ^ (n + 1) = 2 ^ n + 2 ^ n - 0
  BY <1>8, <1>9, <1>a, <1>b
<1> QED BY <1>b, <1>c

\* What an attempt to generate yields passes the check from its fields alone: the two
\* forms of n give back the j they came from.
LEMMA GeneratedVerifies ==
  ASSUME NEW j \in Int, NEW c \in Generate(j)
  PROVE  Verify(c)
<1>1. ASSUME Prime2(j), c = Cert(j, 2 * j - 1, 2) PROVE Verify(c)
  <2>1. /\ c.n = 2 * (2 * j - 1) /\ c.phi = 2 * j - 1 - 1 /\ c.mu = 2 /\ c.j = j 
        /\ c.dr = DigitalRoot(2 * j - 1 - 1) /\ c.sg = IF IsPrime(2 * j - 1) THEN 1 ELSE 0
    BY <1>1 DEF Cert
  <2>2. c.n \div 2 = 2 * j - 1 /\ c.n % 2 = 0
    BY <2>1
  <2>3. c.phi % c.mu = 0 /\ c.phi \div c.mu + 1 = c.j
    BY <2>1
  <2>4. DigitalRoot(2 * j - 1 - 1) >= 5 /\ IsPrime(j) /\ IsPrime(2 * j - 1)
    BY <1>1 DEF Prime2
  <2> QED BY <2>1, <2>2, <2>3, <2>4 DEF Verify
<1>2. ASSUME Prime4(j), c = Cert(j, 4 * j - 3, 4) PROVE Verify(c)
  <2>1. /\ c.n = 2 * (4 * j - 3) /\ c.phi = 4 * j - 3 - 1 /\ c.mu = 4 /\ c.j = j 
        /\ c.dr = DigitalRoot(4 * j - 3 - 1) /\ c.sg = IF IsPrime(2 * j - 1) THEN 1 ELSE 0
    BY <1>2 DEF Cert
  <2>2. c.n \div 2 = 4 * j - 3 /\ c.n % 2 = 0
    BY <2>1
  <2>3. c.phi % c.mu = 0 /\ c.phi \div c.mu + 1 = c.j
    BY <2>1
  <2>4. DigitalRoot(4 * j - 3 - 1) < 5 /\ IsPrime(j) /\ IsPrime(4 * j - 3)
    BY <1>2 DEF Prime4
  <2>5. DigitalRoot(4 * j - 3 - 1) \in Nat
    BY DEF DigitalRoot
  <2> QED BY <2>1, <2>2, <2>3, <2>4, <2>5 DEF Verify
<1> QED BY <1>1, <1>2 DEF Generate
\* So does every certificate of so many bits.
LEMMA CertsVerify == ASSUME NEW c \in Certs PROVE Verify(c) /\ \E j \in RandomOdd : c \in Generate(j)
<1>1. PICK j \in RandomOdd : c \in Generate(j)
  BY DEF Certs
<1>2. j \in Int
  BY DEF RandomOdd
<1> QED BY <1>1, <1>2, GeneratedVerifies

\* A node's certificates, of its memory and its file, are ones it generated.
LEMMA CertsGenerated == CertSpec => [](cert \in Certs /\ saved \in Certs)
<1> DEFINE Inv == cert \in Certs /\ saved \in Certs
<1>1. CertInit => Inv
  BY DEF CertInit
<1>2. Inv /\ [CertNext]_certVars => Inv'
  BY DEF CertNext, certVars, RotLinkUp, Rotate, HandleCertRotate, RotLinkCloses, RotLinkLost, RotLinkGivenUp,
     RotTick, ReapRotated, RotatorRestarts
<1> QED BY <1>1, <1>2, PTL DEF CertSpec

\* Whatever rotations, links and restarts come, the certificate a node shows, and the one
\* it would start again with, pass PhiCert::verify at every other node: for any number of
\* bits, sieve and witnesses, right or wrong (cert.rs, generate and verify).
THEOREM ShownCertsVerify == CertSpec => [](Verify(cert) /\ Verify(saved))
<1>1. (cert \in Certs /\ saved \in Certs) => (Verify(cert) /\ Verify(saved))
  BY CertsVerify
<1> QED BY <1>1, CertsGenerated, PTL

\* Where the sieve and the Miller-Rabin witnesses are right about the numbers of so many
\* bits, every certificate a node ever shows is accepted and made of primes; no number
\* generate tests is longer than that (cert.rs, is_prime, random_odd).
THEOREM GeneratedIsAccepted ==
    ASSUME TestIsRight
    PROVE  CertSpec => []CertIsAccepted
<1>1. (cert \in Certs /\ saved \in Certs) => CertIsAccepted
  <2> SUFFICES ASSUME cert \in Certs PROVE CertIsAccepted
    OBVIOUS
  <2>1. PICK j \in RandomOdd : cert \in Generate(j)
    BY CertsVerify
  <2>2. Verify(cert)
    BY CertsVerify
  <2>3. j \in Int /\ j <= 2 ^ (Bits - 2) - 1
    BY DEF RandomOdd
  <2>4. /\ 2 ^ (Bits - 2) \in Nat /\ 2 ^ (Bits - 1) = 2 * 2 ^ (Bits - 2) /\ 2 ^ Bits = 2 * 2 ^ (Bits - 1)
        /\ 2 ^ (Bits + 1) = 2 * 2 ^ Bits
    <3>1. Bits - 2 \in Nat /\ Bits - 1 \in Nat /\ Bits \in Nat /\ (Bits - 2) + 1 = Bits - 1 /\ (Bits - 1) + 1 = Bits
      BY CertRotationAssumption
    <3> QED BY <3>1, PowerDoubles
  <2>5. /\ cert.j = j /\ cert.phi + 1 \in {2 * j - 1, 4 * j - 3}
        /\ IsPrime(cert.j) /\ IsPrime(cert.phi + 1)
    <3>1. ASSUME Prime2(j), cert = Cert(j, 2 * j - 1, 2) PROVE <2>5!1 /\ <2>5!2
      <4>1. cert.j = j /\ cert.phi = 2 * j - 1 - 1
        BY <3>1 DEF Cert
      <4>2. cert.phi + 1 = 2 * j - 1
        BY <4>1, <2>3
      <4> QED BY <3>1, <4>1, <4>2 DEF Prime2
    <3>2. ASSUME Prime4(j), cert = Cert(j, 4 * j - 3, 4) PROVE <2>5!1 /\ <2>5!2
      <4>1. cert.j = j /\ cert.phi = 4 * j - 3 - 1
        BY <3>2 DEF Cert
      <4>2. cert.phi + 1 = 4 * j - 3
        BY <4>1, <2>3
      <4> QED BY <3>2, <4>1, <4>2 DEF Prime4
    <3> QED BY <3>1, <3>2, <2>1 DEF Generate
  <2>6. j >= 2
    BY <2>5, <2>3 DEF IsPrime
  <2> HIDE DEF TestIsRight
  <2>7. cert.j \in 1 .. 2 ^ (Bits + 1) /\ cert.phi + 1 \in 1 .. 2 ^ (Bits + 1)
    BY <2>3, <2>4, <2>5, <2>6
  <2>8. Prime(cert.j) /\ Prime(cert.phi + 1)
    BY <2>5, <2>7 DEF TestIsRight
  <2> QED BY <2>2, <2>8 DEF CertIsAccepted
<1> QED BY <1>1, CertsGenerated, PTL
=============================================================================

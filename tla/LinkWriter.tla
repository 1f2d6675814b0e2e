----------------------------- MODULE LinkWriter -----------------------------
(***************************************************************************)
(* One direction of a peer link: the tasks that send control messages      *)
(* (PeerConn::send_msg: the padding task, handlers, gossip), the circuit   *)
(* queues, the writer task that drains both (node.rs, register_peer), and  *)
(* the reader task at the far end.                                         *)
(*                                                                         *)
(* A link cell on the wire carries the nonce it was sealed with.  Control  *)
(* messages are sealed cell by cell in send_msg, before they enter the     *)
(* writer's channel; circuit cells are sealed by the writer.  The far end  *)
(* opens cells with its own counter, in the order they arrive, and its     *)
(* reader task ends at the first cell that does not open.                  *)
(***************************************************************************)
EXTENDS CellQueues

CONSTANTS
  Senders,    \* tasks that call send_msg on this link
  MaxSends,   \* bound: control messages per task
  MaxCells,   \* link cells the longest control message spans, per task
  ChanCap     \* capacity of the writer's channel (256 in the code)

ASSUME SendersAssumption == Senders \cap Circuits = {}
ASSUME LinkAssumption ==
  MaxSends \in Nat /\ MaxCells \in [Senders -> Nat \ {0}] /\ ChanCap \in Nat \ {0}

VARIABLES
  begun,      \* send_msg calls begun, per task
  unsealed,   \* cells the task's current message has still to seal
  frame,      \* cells of it sealed so far
  rx,         \* the writer's channel: sealed frames
  wpc,        \* where the writer task is: "control", "circuits", "asleep"
  sendNonce,  \* Session.send_nonce
  wire,       \* cells written and not yet read
  recvNonce,  \* the far end's Session.recv_nonce
  up,         \* the far end's reader task is running
  got         \* messages of each source the far end dispatched, in order

taskVars == <<begun, unsealed, frame>>
farVars  == <<recvNonce, up, got>>
linkVars == <<queueVars, taskVars, rx, wpc, sendNonce, wire, farVars>>

\* A sealed link cell of source s's n-th message.
Cell(s, n, nonce, more) == [src |-> s, n |-> n, nonce |-> nonce, more |-> more]

Sources == Circuits \cup Senders

-----------------------------------------------------------------------------

Init ==
  /\ QueuesInit
  /\ begun = [s \in Senders |-> 0]
  /\ unsealed = [s \in Senders |-> 0]
  /\ frame = [s \in Senders |-> <<>>]
  /\ rx = <<>>
  /\ wpc = "control"
  /\ sendNonce = 0
  /\ wire = <<>>
  /\ recvNonce = 0
  /\ up = TRUE
  /\ got = [s \in Sources |-> <<>>]

\* A task calls send_msg with a message of the given number of cells.
SendMsg(s, size) ==
  /\ unsealed[s] = 0 /\ frame[s] = <<>>
  /\ begun[s] < MaxSends
  /\ begun' = [begun EXCEPT ![s] = @ + 1]
  /\ unsealed' = [unsealed EXCEPT ![s] = size]
  /\ UNCHANGED <<queueVars, frame, rx, wpc, sendNonce, wire, farVars>>

\* Mutant: the loop seals a cell before it asks whether one is left.
SealCell_unguarded(s) ==
  /\ begun[s] > 0
  /\ frame' = [frame EXCEPT ![s] =
                 Append(@, Cell(s, begun[s], sendNonce, unsealed[s] > 1))]
  /\ unsealed' = [unsealed EXCEPT ![s] = @ - 1]
  /\ sendNonce' = sendNonce + 1
  /\ UNCHANGED <<queueVars, begun, rx, wpc, wire, farVars>>

\* Mutant: the counter advances once per message, not once per cell.
SealCell_perMessage(s) ==
  /\ unsealed[s] > 0
  /\ frame' = [frame EXCEPT ![s] =
                 Append(@, Cell(s, begun[s], sendNonce, unsealed[s] > 1))]
  /\ unsealed' = [unsealed EXCEPT ![s] = @ - 1]
  /\ sendNonce' = IF unsealed[s] > 1 THEN sendNonce ELSE sendNonce + 1
  /\ UNCHANGED <<queueVars, begun, rx, wpc, wire, farVars>>

\* encode_cells seals the next cell of the message.  Each encrypt takes its
\* nonce with one fetch_add; other tasks may seal between two cells.
SealCell(s) ==
  /\ unsealed[s] > 0
  /\ frame' = [frame EXCEPT ![s] =
                 Append(@, Cell(s, begun[s], sendNonce, unsealed[s] > 1))]
  /\ unsealed' = [unsealed EXCEPT ![s] = @ - 1]
  /\ sendNonce' = sendNonce + 1
  /\ UNCHANGED <<queueVars, begun, rx, wpc, wire, farVars>>

\* sender.send(frame).await: waits while the channel is full.
Enqueue(s) ==
  /\ unsealed[s] = 0 /\ frame[s] # <<>>
  /\ Len(rx) < ChanCap
  /\ rx' = Append(rx, frame[s])
  /\ frame' = [frame EXCEPT ![s] = <<>>]
  /\ UNCHANGED <<queueVars, begun, unsealed, wpc, sendNonce, wire, farVars>>

\* The writer takes a sealed frame off its channel and writes all of it.
WriteControl ==
  /\ rx # <<>>
  /\ wire' = wire \o Head(rx)
  /\ rx' = Tail(rx)
  /\ wpc' = "control"
  /\ UNCHANGED <<queueVars, taskVars, sendNonce, farVars>>

\* The top of the writer's loop: try_recv, control first.
TryRecv ==
  /\ wpc = "control"
  /\ \/ WriteControl
     \/ /\ rx = <<>>
        /\ wpc' = "circuits"
        /\ UNCHANGED <<queueVars, taskVars, rx, sendNonce, wire, farVars>>

\* Then the circuit the scheduler picks: seal its head cell and write it.
WriteCircuit(c) ==
  /\ wpc = "circuits"
  /\ PopNext(c)
  /\ wire' = Append(wire, Cell(c, Head(q[c])[2], sendNonce, FALSE))
  /\ sendNonce' = sendNonce + 1
  /\ wpc' = "control"
  /\ UNCHANGED <<taskVars, rx, farVars>>

\* Mutant: only the channel is looked at before sleeping.
Sleep_early ==
  /\ wpc = "circuits"
  /\ wpc' = "asleep"
  /\ UNCHANGED <<queueVars, taskVars, rx, sendNonce, wire, farVars>>

\* Nothing to send: enter the select.
Sleep ==
  /\ wpc = "circuits"
  /\ Ready = {}
  /\ wpc' = "asleep"
  /\ UNCHANGED <<queueVars, taskVars, rx, sendNonce, wire, farVars>>

\* The select's two arms: a frame on the channel, or a queued circuit cell.
Wakeup ==
  /\ wpc = "asleep"
  /\ \/ WriteControl
     \/ /\ Wake
        /\ wpc' = "control"
        /\ UNCHANGED <<taskVars, rx, sendNonce, wire, farVars>>

\* A message is dispatched with its last cell.
Dispatched(cell) ==
  IF cell.more THEN got ELSE [got EXCEPT ![cell.src] = Append(@, cell.n)]

\* Mutant: a cell that does not open is skipped and the reader goes on.
ReadCell_skips ==
  LET cell == Head(wire) IN
  /\ up /\ wire # <<>>
  /\ wire' = Tail(wire)
  /\ recvNonce' = recvNonce + 1
  /\ got' = IF cell.nonce = recvNonce THEN Dispatched(cell) ELSE got
  /\ UNCHANGED <<queueVars, taskVars, rx, wpc, sendNonce, up>>

\* The far end's recv_session reads one link cell: it opens only under the
\* nonce the reader expects; the reader task ends on any error.
ReadCell ==
  LET cell == Head(wire) IN
  /\ up /\ wire # <<>>
  /\ wire' = Tail(wire)
  /\ recvNonce' = recvNonce + 1
  /\ IF cell.nonce = recvNonce
       THEN /\ got' = Dispatched(cell)
            /\ up' = up
       ELSE /\ up' = FALSE
            /\ got' = got
  /\ UNCHANGED <<queueVars, taskVars, rx, wpc, sendNonce>>

\* Mutant: notify_waiters, which stores no permit for a writer not yet waiting.
QueueStep_waiters ==
  /\ \/ /\ NotifyOne /\ wpc = "asleep"
     \/ /\ unnotified > 0 /\ unnotified' = unnotified - 1
        /\ UNCHANGED <<q, score, weight, permit, pushed, sent, overtaken>>
     \/ \E c \in Circuits : Push(c)
  /\ UNCHANGED <<taskVars, rx, wpc, sendNonce, wire, farVars>>

\* The queues' own steps that do not concern the writer.
QueueStep ==
  /\ NotifyOne \/ Decay \/ \E c \in Circuits : Push(c)
  /\ UNCHANGED <<taskVars, rx, wpc, sendNonce, wire, farVars>>

-----------------------------------------------------------------------------

WriterStep == TryRecv \/ Sleep \/ Wakeup \/ \E c \in Circuits : WriteCircuit(c)

Next ==
  \/ \E s \in Senders : \/ \E size \in 1 .. MaxCells[s] : SendMsg(s, size)
                        \/ SealCell(s) \/ Enqueue(s)
  \/ WriterStep
  \/ ReadCell
  \/ QueueStep

Spec == Init /\ [][Next]_linkVars

\* Tasks the runtime keeps scheduling: a push finishes its notify, a send in
\* progress goes on, writer and reader run while they can.  Nothing obliges
\* anyone to send.
Fairness ==
  /\ WF_linkVars(NotifyOne /\ UNCHANGED <<taskVars, rx, wpc, sendNonce, wire, farVars>>)
  /\ \A s \in Senders : WF_linkVars(SealCell(s)) /\ WF_linkVars(Enqueue(s))
  /\ WF_linkVars(WriterStep)
  /\ WF_linkVars(ReadCell)

FairSpec == Spec /\ Fairness

-----------------------------------------------------------------------------

LinkCell == [src : Sources, n : Nat, nonce : Nat, more : BOOLEAN]

TypeOK ==
  /\ QueuesTypeOK
  /\ begun \in [Senders -> Nat]
  /\ unsealed \in [Senders -> Nat]
  /\ frame \in [Senders -> Seq(LinkCell)]
  /\ rx \in Seq(Seq(LinkCell))
  /\ wpc \in {"control", "circuits", "asleep"}
  /\ sendNonce \in Nat
  /\ wire \in Seq(LinkCell)
  /\ recvNonce \in Nat
  /\ up \in BOOLEAN
  /\ got \in [Sources -> Seq(Nat)]

(***************************************************************************)
(* "Seal order is then wire order by construction, and there is no window  *)
(* in which the two can disagree" (circuit_sched.rs): while the link is up *)
(* the cells on the wire carry the nonces the reader will expect, in turn. *)
(***************************************************************************)
SealOrderIsWireOrder ==
  /\ up
  /\ \A i \in 1 .. Len(wire) : wire[i].nonce = recvNonce + i - 1

(***************************************************************************)
(* No wakeup is lost between push's unlock and the writer's select: a      *)
(* writer asleep over queued cells has a permit stored, or a push is still *)
(* about to store one.                                                     *)
(***************************************************************************)
NoLostWakeup ==
  (wpc = "asleep" /\ Ready # {}) => (permit \/ unnotified > 0)

\* Every cell sealed and not yet opened.
InFlight ==
  (UNION {{frame[s][i] : i \in 1 .. Len(frame[s])} : s \in Senders})
    \cup (UNION {{rx[j][i] : i \in 1 .. Len(rx[j])} : j \in 1 .. Len(rx)})
    \cup {wire[i] : i \in 1 .. Len(wire)}

(***************************************************************************)
(* An AEAD nonce is never used twice on a link, although many tasks seal   *)
(* at once: the sealed cells in flight have distinct nonces, all taken     *)
(* from the counter, and while the reader runs none repeats one it opened. *)
(***************************************************************************)
NonceUsedOnce ==
  /\ \A x, y \in InFlight : x.nonce = y.nonce => x = y
  /\ \A x \in InFlight :
       x.nonce < sendNonce /\ (up => recvNonce <= x.nonce)

(***************************************************************************)
(* "Losing the race can't drop a frame": a link that stays up hands every  *)
(* queued circuit cell to the peer (the reader ends or the cell arrives).  *)
(***************************************************************************)
CellsArrive ==
  []<>(~ up \/ \A c \in Circuits : Len(got[c]) = pushed[c])

\* What each source has asked the link to carry: cells pushed, messages begun.
Submitted == [s \in Sources |-> IF s \in Circuits THEN pushed[s] ELSE begun[s]]

(***************************************************************************)
(* The link implements the ordered link: whatever the interleaving, a      *)
(* reader that accepts a message accepts each source's next one.           *)
(***************************************************************************)
Ordered == INSTANCE OrderedLink WITH
  Sources   <- Sources,
  submitted <- Submitted,
  arrived   <- got

ImplementsOrderedLink == Ordered!Spec
=============================================================================

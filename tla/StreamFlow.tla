----------------------------- MODULE StreamFlow -----------------------------
(***************************************************************************)
(* The streams of one circuit and their flow control, client end and exit  *)
(* end (stream.rs; node.rs stream_*, handle_exit_*, and the DATA, SENDME,  *)
(* CONNECTED and END arms of handle_circuit_cell; the windows of           *)
(* OriginCircuit and RelayCircuit in circuit_mgr.rs).                      *)
(*                                                                         *)
(* A DATA cell is its number within its stream and direction.  The path in *)
(* between is two FIFO channels.  The congestion window grows by at most   *)
(* one increment per SENDME, or shrinks, within its clamp: how it moves is *)
(* the business of Vegas.  Each end dispatches the cells of its channel    *)
(* one after the other, as the reader task of a link does.                 *)
(***************************************************************************)
EXTENDS Naturals, Sequences, FiniteSets

CONSTANTS
  Streams,       \* stream ids, handed out in order
  StreamWindow,  \* STREAM_WINDOW_START
  StreamInc,     \* STREAM_SENDME_INC = STREAM_SENDME_DELIVERED
  CircInc,       \* CC_SENDME_INC
  FlowCwndMin,       \* CC_CWND_MIN (= CC_CWND_INIT)
  FlowCwndMax,       \* CC_CWND_MAX
  AppCap,        \* capacity of a stream's channel to the application (32)
  MaxUp,         \* bound: DATA cells a client writes, per stream
  MaxDown        \* bound: DATA cells a target answers with, per stream

ASSUME StreamsAssumption == Streams \subseteq Nat \ {0} /\ IsFiniteSet(Streams)
ASSUME WindowsAssumption ==
  /\ {StreamWindow, StreamInc, CircInc, AppCap} \subseteq Nat \ {0}
  /\ FlowCwndMax \in Nat /\ {MaxUp, MaxDown} \subseteq [Streams -> Nat]
  /\ FlowCwndMin \in CircInc .. FlowCwndMax

VARIABLES
  up,         \* cells on their way to the exit
  down,       \* cells on their way to the client
  client,     \* the client's Stream, per stream id
  writer,     \* where a stream_write call is: "idle", "slot", "granted"
  exit,       \* the exit's end of each stream: "none", "open", "ended"
  exitWriter, \* streams with an entry in exit_writers
  flowOrigin,     \* the client's circuit: [inflight, cwnd, delivered]
  relay,      \* the exit's circuit: [inflight, cwnd, delivered]
  gotUp,      \* what each stream's target was given, in order
  gotDown     \* what each stream's application channel was given, in order

flowVars == <<up, down, client, writer, exit, exitWriter, flowOrigin, relay, gotUp, gotDown>>

Cell(cmd, s, n) == [cmd |-> cmd, stream |-> s, n |-> n]

CircuitSendme == Cell("sendme", 0, 0)

Count(ch, cmd) == Cardinality({i \in DOMAIN ch : ch[i].cmd = cmd})

-----------------------------------------------------------------------------

FlowInit ==
  /\ up = <<>> /\ down = <<>>
  /\ client = [s \in Streams |->
       [state |-> "none", window |-> StreamWindow, delivered |-> 0, queued |-> 0, sent |-> 0]]
  /\ writer = [s \in Streams |-> "idle"]
  /\ exit = [s \in Streams |-> [state |-> "none", sent |-> 0]]
  /\ exitWriter = {}
  /\ flowOrigin = [inflight |-> 0, cwnd |-> FlowCwndMin, delivered |-> 0]
  /\ relay = [inflight |-> 0, cwnd |-> FlowCwndMin, delivered |-> 0]
  /\ gotUp = [s \in Streams |-> <<>>] /\ gotDown = [s \in Streams |-> <<>>]

\* try_consume_circ_window: Vegas can_send and on_send.
CanSend(c) == c.inflight < c.cwnd
NoteSend(c)  == [c EXCEPT !.inflight = @ + 1]

\* on_circ_sendme: Vegas on_sendme, with any step of the window it can take.
AfterSendme(c) ==
  {[c EXCEPT !.inflight = IF @ < CircInc THEN 0 ELSE @ - CircInc, !.cwnd = w] :
     w \in {v \in FlowCwndMin .. FlowCwndMax : v <= c.cwnd + CircInc}}

\* Mutant: the count is not reset when the SENDME goes out.
Delivered_unreset(c) == [c EXCEPT !.delivered = @ + 1]

\* note_circ_delivered and reset_circ_delivered.
Due(c) == c.delivered + 1 >= CircInc
Delivered(c) == [c EXCEPT !.delivered = IF Due(c) THEN 0 ELSE @ + 1]

\* SENDMEs to send, each on stream 0.
Sendmes(b) == IF b THEN <<CircuitSendme>> ELSE <<>>

-----------------------------------------------------------------------------
(* The client. *)

\* stream_open: open_stream, then a BEGIN cell.
StreamOpen(s) ==
  /\ client[s].state = "none"
  /\ \A r \in Streams : r < s => client[r].state # "none"
  /\ client' = [client EXCEPT ![s].state = "connecting"]
  /\ up' = Append(up, Cell("begin", s, 0))
  /\ UNCHANGED <<down, writer, exit, exitWriter, flowOrigin, relay, gotUp, gotDown>>

\* stream_write of one chunk: first a slot of the stream's window,
TakeStreamSlot(s) ==
  /\ writer[s] = "idle"
  /\ client[s].state = "open" /\ client[s].window > 0
  /\ client[s].sent < MaxUp[s]
  /\ client' = [client EXCEPT ![s].window = @ - 1]
  /\ writer' = [writer EXCEPT ![s] = "slot"]
  /\ UNCHANGED <<up, down, exit, exitWriter, flowOrigin, relay, gotUp, gotDown>>

\* then one of the circuit's, or an error to the caller,
TakeCircSlot(s) ==
  /\ writer[s] = "slot"
  /\ writer' = [writer EXCEPT ![s] = IF CanSend(flowOrigin) THEN "granted" ELSE "idle"]
  /\ flowOrigin' = IF CanSend(flowOrigin) THEN NoteSend(flowOrigin) ELSE flowOrigin
  /\ UNCHANGED <<up, down, client, exit, exitWriter, relay, gotUp, gotDown>>

\* then the cell, whatever became of the stream since.
SendStreamRelay(s) ==
  /\ writer[s] = "granted"
  /\ writer' = [writer EXCEPT ![s] = "idle"]
  /\ client' = [client EXCEPT ![s].sent = @ + 1]
  /\ up' = Append(up, Cell("data", s, client[s].sent + 1))
  /\ UNCHANGED <<down, exit, exitWriter, flowOrigin, relay, gotUp, gotDown>>

\* stream_close: an END cell, and the stream is removed.
StreamClose(s) ==
  /\ writer[s] = "idle"
  /\ client[s].state \in {"connecting", "open"}
  /\ client' = [client EXCEPT ![s].state = "removed"]
  /\ up' = Append(up, Cell("end", s, 0))
  /\ UNCHANGED <<down, writer, exit, exitWriter, flowOrigin, relay, gotUp, gotDown>>

\* The application takes a chunk from its channel.
AppRead(s) ==
  /\ client[s].queued > 0
  /\ client' = [client EXCEPT ![s].queued = @ - 1]
  /\ UNCHANGED <<up, down, writer, exit, exitWriter, flowOrigin, relay, gotUp, gotDown>>

\* on_data: the cell is accepted only if the stream is open and the
\* application's channel has room.  (inbound_buffered cannot reach
\* STREAM_BUFFER_MAX within one batch of 50 cells.)
StreamAccepts(s) == client[s].state = "open" /\ client[s].queued < AppCap

\* The stream's batch is full: a SENDME is due, and goes out on stream 0.
BatchDone(s) == StreamAccepts(s) /\ client[s].delivered + 1 >= StreamInc

\* Mutant: DATA for a stream that does not take it earns the exit no credit.
ClientRecvData_uncounted ==
  LET s == Head(down).stream  n == Head(down).n  a == StreamAccepts(s) IN
  /\ down # <<>> /\ Head(down).cmd = "data"
  /\ flowOrigin' = IF a THEN Delivered(flowOrigin) ELSE flowOrigin
  /\ client' = IF a THEN [client EXCEPT ![s].queued = @ + 1] ELSE client
  /\ gotDown' = IF a THEN [gotDown EXCEPT ![s] = Append(@, n)] ELSE gotDown
  /\ up' = up \o Sendmes(a /\ Due(flowOrigin))
  /\ down' = Tail(down)
  /\ UNCHANGED <<writer, exit, exitWriter, relay, gotUp>>

ClientRecvData ==
  LET s == Head(down).stream  n == Head(down).n IN
  /\ down # <<>> /\ Head(down).cmd = "data"
  /\ flowOrigin' = Delivered(flowOrigin)
  /\ IF StreamAccepts(s)
       THEN /\ client' = [client EXCEPT ![s].queued = @ + 1,
                            ![s].delivered = IF BatchDone(s) THEN 0 ELSE @ + 1]
            /\ gotDown' = [gotDown EXCEPT ![s] = Append(@, n)]
       ELSE UNCHANGED <<client, gotDown>>
  /\ up' = up \o Sendmes(BatchDone(s)) \o Sendmes(Due(flowOrigin))
  /\ down' = Tail(down)
  /\ UNCHANGED <<writer, exit, exitWriter, relay, gotUp>>

ClientRecvSendme ==
  /\ down # <<>> /\ Head(down).cmd = "sendme"
  /\ flowOrigin' \in AfterSendme(flowOrigin)
  /\ down' = Tail(down)
  /\ UNCHANGED <<up, client, writer, exit, exitWriter, relay, gotUp, gotDown>>

\* CONNECTED opens a stream that is connecting; END closes and removes it.
ClientRecvControl ==
  LET s == Head(down).stream IN
  /\ down # <<>> /\ Head(down).cmd \in {"connected", "end"}
  /\ client' = [client EXCEPT ![s].state =
       IF Head(down).cmd = "end" THEN "removed"
       ELSE IF @ = "connecting" THEN "open" ELSE @]
  /\ down' = Tail(down)
  /\ UNCHANGED <<up, writer, exit, exitWriter, flowOrigin, relay, gotUp, gotDown>>

-----------------------------------------------------------------------------
(* The exit. *)

\* handle_exit_begin: the target answers (CONNECTED, an entry in
\* exit_writers, a pump task), or it does not (END).
ExitRecvBegin(reached) ==
  LET s == Head(up).stream IN
  /\ up # <<>> /\ Head(up).cmd = "begin"
  /\ up' = Tail(up)
  /\ down' = Append(down, Cell(IF reached THEN "connected" ELSE "end", s, 0))
  /\ exit' = [exit EXCEPT ![s].state = IF reached THEN "open" ELSE "ended"]
  /\ exitWriter' = IF reached THEN exitWriter \cup {s} ELSE exitWriter
  /\ UNCHANGED <<client, writer, flowOrigin, relay, gotUp, gotDown>>

\* handle_exit_data: written if the stream has a writer, counted anyway.
ExitRecvData ==
  LET s == Head(up).stream IN
  /\ up # <<>> /\ Head(up).cmd = "data"
  /\ gotUp' = IF s \in exitWriter THEN [gotUp EXCEPT ![s] = Append(@, Head(up).n)] ELSE gotUp
  /\ relay' = Delivered(relay)
  /\ down' = down \o Sendmes(Due(relay))
  /\ up' = Tail(up)
  /\ UNCHANGED <<client, writer, exit, exitWriter, flowOrigin, gotDown>>

\* handle_exit_sendme: the client only ever sends them on stream 0.
ExitRecvSendme ==
  /\ up # <<>> /\ Head(up).cmd = "sendme"
  /\ relay' \in AfterSendme(relay)
  /\ up' = Tail(up)
  /\ UNCHANGED <<down, client, writer, exit, exitWriter, flowOrigin, gotUp, gotDown>>

\* handle_exit_end: the writer goes; the pump task is not told.
ExitRecvEnd ==
  /\ up # <<>> /\ Head(up).cmd = "end"
  /\ exitWriter' = exitWriter \ {Head(up).stream}
  /\ up' = Tail(up)
  /\ UNCHANGED <<down, client, writer, exit, flowOrigin, relay, gotUp, gotDown>>

\* The pump task: what the target sent goes out once the circuit has a slot.
Pump(s) ==
  /\ exit[s].state = "open" /\ exit[s].sent < MaxDown[s]
  /\ CanSend(relay)
  /\ relay' = NoteSend(relay)
  /\ exit' = [exit EXCEPT ![s].sent = @ + 1]
  /\ down' = Append(down, Cell("data", s, exit[s].sent + 1))
  /\ UNCHANGED <<up, client, writer, exitWriter, flowOrigin, gotUp, gotDown>>

\* The target closes: END, and the pump clears the writer as it ends.
StreamPumpEnds(s) ==
  /\ exit[s].state = "open"
  /\ exit' = [exit EXCEPT ![s].state = "ended"]
  /\ exitWriter' = exitWriter \ {s}
  /\ down' = Append(down, Cell("end", s, 0))
  /\ UNCHANGED <<up, client, writer, flowOrigin, relay, gotUp, gotDown>>

-----------------------------------------------------------------------------

ClientRecv == ClientRecvData \/ ClientRecvSendme \/ ClientRecvControl

ExitRecv ==
  \/ \E b \in BOOLEAN : ExitRecvBegin(b)
  \/ ExitRecvData \/ ExitRecvSendme \/ ExitRecvEnd

FlowNext ==
  \/ \E s \in Streams :
       \/ StreamOpen(s) \/ TakeStreamSlot(s) \/ TakeCircSlot(s) \/ SendStreamRelay(s)
       \/ StreamClose(s) \/ AppRead(s)
       \/ Pump(s) \/ StreamPumpEnds(s)
  \/ ClientRecv \/ ExitRecv

FlowSpec == FlowInit /\ [][FlowNext]_flowVars

\* Reader tasks run, a pump with data polls every 10 ms for a slot, a write
\* in progress goes on.  Nobody has to open, write, read or close.
FlowFairness ==
  /\ WF_flowVars(ClientRecv) /\ WF_flowVars(ExitRecv)
  /\ \A s \in Streams :
       /\ WF_flowVars(Pump(s))
       /\ WF_flowVars(TakeCircSlot(s)) /\ WF_flowVars(SendStreamRelay(s))

FlowFairSpec == FlowSpec /\ FlowFairness

-----------------------------------------------------------------------------

Circuit == [inflight : Nat, cwnd : FlowCwndMin .. FlowCwndMax, delivered : 0 .. CircInc - 1]
Cells   == [cmd : {"begin", "connected", "data", "end", "sendme"},
            stream : Streams \cup {0}, n : Nat]

FlowTypeOK ==
  /\ up \in Seq(Cells) /\ down \in Seq(Cells)
  /\ client \in [Streams -> [state : {"none", "connecting", "open", "removed"},
                             window : 0 .. StreamWindow, delivered : 0 .. StreamInc - 1,
                             queued : 0 .. AppCap, sent : Nat]]
  /\ writer \in [Streams -> {"idle", "slot", "granted"}]
  /\ exit \in [Streams -> [state : {"none", "open", "ended"}, sent : Nat]]
  /\ exitWriter \subseteq Streams
  /\ flowOrigin \in Circuit /\ relay \in Circuit
  /\ gotUp \in [Streams -> Seq(Nat)] /\ gotDown \in [Streams -> Seq(Nat)]

(***************************************************************************)
(* No circuit credit is lost or minted on the way up: what the client      *)
(* counts in flight is what has a slot and is not yet sent, what is on the *)
(* wire, what the exit has counted towards its next SENDME, and the        *)
(* increments of the SENDMEs coming back ("each SENDME frees exactly one   *)
(* window"), across streams that open, close and are refused meanwhile.    *)
(***************************************************************************)
UploadCredit ==
  flowOrigin.inflight =
    Cardinality({s \in Streams : writer[s] = "granted"}) + Count(up, "data")
      + relay.delivered + CircInc * Count(down, "sendme")

(***************************************************************************)
(* A full congestion window is never a dead end: at either end, some cell  *)
(* is still to be counted by the far end, or a SENDME is on its way, even  *)
(* for streams that are closed or refused by the time their DATA arrives.  *)
(***************************************************************************)
WindowReopens ==
  /\ ~ CanSend(flowOrigin) =>
       \/ Count(up, "data") + Count(down, "sendme") > 0
       \/ \E s \in Streams : writer[s] = "granted"
  /\ ~ CanSend(relay) => Count(down, "data") + Count(up, "sendme") > 0

(***************************************************************************)
(* What a target is given of a stream is what the client wrote from the    *)
(* start, nothing left out, although DATA may cross END in either          *)
(* direction and the writer may go at any time.                            *)
(***************************************************************************)
UploadInOrder ==
  \A s \in Streams : gotUp[s] = [i \in 1 .. Len(gotUp[s]) |-> i]

\* What the windows of an upload stand for: every cell counted, every full window
\* with its answer under way, every chunk in its place.
FlowAccounted == UploadCredit /\ WindowReopens /\ UploadInOrder

(***************************************************************************)
(* A pump with data is not stuck on the congestion window for ever: it     *)
(* sends all its target has, or the target closes.                         *)
(***************************************************************************)
PumpDrains ==
  \A s \in Streams :
    []<>(exit[s].state = "open" => exit[s].sent = MaxDown[s])

(***************************************************************************)
(* "For every STREAM_SENDME_INC received DATA cells, the receiver emits a  *)
(* RELAY_SENDME, which increments the sender's window" (stream.rs): a      *)
(* stream whose window the client has used up gets some of it back.        *)
(***************************************************************************)
StreamWindowRefilled ==
  \A s \in Streams :
    (client[s].state = "open" /\ client[s].window = 0)
      ~> (client[s].state # "open" \/ client[s].window > 0)

(***************************************************************************)
(* "Apply backpressure - don't accept; peer will hit its own send window   *)
(* and stop" (Stream.on_data): a slow application makes the sender wait,   *)
(* and what it reads has no holes.                                         *)
(***************************************************************************)
DownloadInOrder ==
  \A s \in Streams : gotDown[s] = [i \in 1 .. Len(gotDown[s]) |-> i]
=============================================================================

----------------------------- MODULE ExitStreams -----------------------------
(***************************************************************************)
(* The exit of a circuit with the connections it opens: the exit policy,   *)
(* the table of write halves, the task that reads each connection, and the *)
(* cells they send back.  A cell is encrypted and numbered by the running  *)
(* digest under the lock of the circuit tables, and queued on the link     *)
(* after it is released; the handlers of a link's cells run one at a time  *)
(* in its reader task.  StreamFlow models the windows; here a window is a  *)
(* credit.                                                                 *)
(***************************************************************************)
EXTENDS Naturals, Sequences, FiniteSets

CONSTANTS Opens,     \* the streams clients open: triples of previous hop, circuit id, stream id
          Credit,    \* the backward window
          BwCells,   \* cells of a bandwidth test
          MaxCells   \* bound: cells stamped on one circuit

ASSUME ExitAssumption ==
    /\ \A s \in Opens : Len(s) = 3
    /\ Credit \in Nat \ {0} /\ BwCells \in Nat /\ MaxCells \in Nat

CircuitOf(s) == <<s[1], s[2]>>
KeyOf(s) == <<s[2], s[3]>>
Circ == {CircuitOf(s) : s \in Opens}
Hops == {s[1] : s \in Opens}
Task == Hops \cup Opens        \* the link readers, the tasks reading connections
Target == {"bw-test", "private", "alias", "public"}

VARIABLES exitRelays,    \* the circuits in CircuitManager.relays
          begin,     \* of each stream, where handle_exit_begin is: "no", "connecting", "registered", "over"
          to,        \* what the client asked for: "alias" is a name of a private address
          writers,   \* exit_writers: by circuit id and stream id, the connection, or none
          reader,    \* the task of each stream: "no", "reading", "holding", "closing", "over"
          bwLeft,    \* cells a bandwidth test has left
          credit,    \* the circuit's window
          stamped,   \* the cells numbered so far
          pending,   \* the number each task has stamped and not queued, 0 if none
          queued,    \* the cells of the circuit on the link, by number
          received,  \* history: whose data each connection was written
          ended      \* history: the streams the client has ended
exitVars == <<exitRelays, begin, to, writers, reader, bwLeft, credit, stamped, pending, queued, received, ended>>

NoTarget == <<>>

-----------------------------------------------------------------------------
(* exit_policy. *)

CheckPreResolve(target) == target # "private"
\* Mutant: the address a name resolved to is not looked at.
CheckPostResolve_not(target) == TRUE
CheckPostResolve(target) == target \notin {"private", "alias"}

-----------------------------------------------------------------------------
(* Sending back. *)

\* send_backward_relay, send_backward_relay_stream: under the lock, if the circuit is there.
Stamp(task, c) ==
    IF c \in exitRelays
    THEN /\ stamped' = [stamped EXCEPT ![c] = @ + 1]
         /\ pending' = [pending EXCEPT ![task] = [circuit |-> c, number |-> stamped[c] + 1]]
    ELSE UNCHANGED <<stamped, pending>>
Free(task) == pending[task] = NoTarget
\* After it: send_circuit_cell.
Queue(task) ==
    /\ ~Free(task)
    /\ queued' = [queued EXCEPT ![pending[task].circuit] = Append(@, pending[task].number)]
    /\ pending' = [pending EXCEPT ![task] = NoTarget]
    /\ UNCHANGED <<exitRelays, begin, to, writers, reader, bwLeft, credit, stamped, received, ended>>

-----------------------------------------------------------------------------
(* The link's reader task. *)

\* The reader of the link of s is between two cells.
Dispatching(s) ==
    Free(s[1]) /\ \A o \in Opens : o[1] = s[1] => begin[o] \notin {"connecting", "registered"}
Handles(s) == Dispatching(s) /\ CircuitOf(s) \in exitRelays /\ stamped[CircuitOf(s)] < MaxCells

\* handle_exit_begin, as far as the connect; serve_bw_test.
Begin(s, target) ==
    /\ Handles(s) /\ begin[s] = "no"
    /\ to' = [to EXCEPT ![s] = target]
    /\ IF target = "bw-test"
       THEN begin' = [begin EXCEPT ![s] = "registered"] /\ Stamp(s[1], CircuitOf(s))
       ELSE IF CheckPreResolve(target)
       THEN begin' = [begin EXCEPT ![s] = "connecting"] /\ UNCHANGED <<stamped, pending>>
       ELSE begin' = [begin EXCEPT ![s] = "over"] /\ Stamp(s[1], CircuitOf(s))
    /\ UNCHANGED <<exitRelays, writers, reader, bwLeft, credit, queued, received, ended>>

\* The connect succeeds: the stream is registered and CONNECTED is sent, or it is refused
\* after all, or its circuit has gone.
Connects(s) ==
    /\ begin[s] = "connecting"
    /\ begin' = [begin EXCEPT ![s] = IF CheckPostResolve(to[s]) /\ CircuitOf(s) \in exitRelays THEN "registered" ELSE "over"]
    /\ Stamp(s[1], CircuitOf(s))
    /\ UNCHANGED <<exitRelays, to, writers, reader, bwLeft, credit, queued, received, ended>>
\* It fails, or takes 15 seconds.  Mutant: the connect has no timeout.
ConnectFails_never(s) == FALSE /\ UNCHANGED exitVars
ConnectFails(s) ==
    /\ begin[s] = "connecting"
    /\ begin' = [begin EXCEPT ![s] = "over"]
    /\ Stamp(s[1], CircuitOf(s))
    /\ UNCHANGED <<exitRelays, to, writers, reader, bwLeft, credit, queued, received, ended>>

\* CONNECTED is queued: the write half is entered and the task is spawned.
SpawnReader(s) ==
    /\ begin[s] = "registered" /\ Free(s[1])
    /\ begin' = [begin EXCEPT ![s] = "over"]
    /\ reader' = [reader EXCEPT ![s] = "reading"]
    /\ IF to[s] = "bw-test" THEN bwLeft' = [bwLeft EXCEPT ![s] = BwCells] /\ UNCHANGED writers
       ELSE writers' = [writers EXCEPT ![KeyOf(s)] = s] /\ UNCHANGED bwLeft
    /\ UNCHANGED <<exitRelays, to, credit, stamped, pending, queued, received, ended>>

\* handle_exit_data: written to the connection entered for the ids, if there is one;
\* every so often a circuit SENDME goes back.
ExitData(s, sendmeDue) ==
    /\ Handles(s) /\ begin[s] = "over" /\ s \notin ended
    /\ received' = IF writers[KeyOf(s)] = NoTarget THEN received
                   ELSE [received EXCEPT ![writers[KeyOf(s)]] = @ \cup {s}]
    /\ IF sendmeDue THEN Stamp(s[1], CircuitOf(s)) ELSE UNCHANGED <<stamped, pending>>
    /\ UNCHANGED <<exitRelays, begin, to, writers, reader, bwLeft, credit, queued, ended>>

\* handle_exit_end: the write half goes, the task is not told.
ExitEnd(s) ==
    /\ Dispatching(s) /\ CircuitOf(s) \in exitRelays /\ begin[s] = "over" /\ s \notin ended
    /\ ended' = ended \cup {s}
    /\ writers' = [writers EXCEPT ![KeyOf(s)] = NoTarget]
    /\ UNCHANGED <<exitRelays, begin, to, reader, bwLeft, credit, stamped, pending, queued, received>>

\* handle_exit_sendme of the circuit.
ExitSendme(c) ==
    /\ c \in exitRelays /\ \A s \in Opens : CircuitOf(s) = c => Dispatching(s)
    /\ credit[c] < Credit
    /\ credit' = [credit EXCEPT ![c] = Credit]
    /\ UNCHANGED <<exitRelays, begin, to, writers, reader, bwLeft, stamped, pending, queued, received, ended>>

-----------------------------------------------------------------------------
(* The task that reads a connection, or generates a bandwidth test. *)

\* The target sends something.
ReadsSome(s) ==
    /\ reader[s] = "reading" /\ Free(s)
    /\ to[s] = "bw-test" => bwLeft[s] > 0
    /\ stamped[CircuitOf(s)] < MaxCells
    /\ reader' = [reader EXCEPT ![s] = "holding"]
    /\ UNCHANGED <<exitRelays, begin, to, writers, bwLeft, credit, stamped, pending, queued, received, ended>>

\* A slot of the window is taken and the cell goes back; the circuit is gone: the task
\* ends, leaving its entry.
SendsBack(s) ==
    LET c == CircuitOf(s) IN
    /\ reader[s] = "holding" /\ (c \in exitRelays => credit[c] > 0)
    /\ IF c \in exitRelays
       THEN /\ credit' = [credit EXCEPT ![c] = @ - 1]
            /\ reader' = [reader EXCEPT ![s] = "reading"]
            /\ bwLeft' = [bwLeft EXCEPT ![s] = IF to[s] = "bw-test" THEN @ - 1 ELSE @]
       ELSE /\ reader' = [reader EXCEPT ![s] = "over"]
            /\ UNCHANGED <<credit, bwLeft>>
    /\ Stamp(s, c)
    /\ UNCHANGED <<exitRelays, begin, to, writers, queued, received, ended>>

\* The target closes, or the test is done: END goes back, then the entry goes.
ReadsEof(s) ==
    /\ reader[s] = "reading" /\ Free(s) /\ (to[s] = "bw-test" => bwLeft[s] = 0)
    /\ stamped[CircuitOf(s)] < MaxCells
    /\ reader' = [reader EXCEPT ![s] = "closing"]
    /\ Stamp(s, CircuitOf(s))
    /\ UNCHANGED <<exitRelays, begin, to, writers, bwLeft, credit, queued, received, ended>>
ReaderCleansUp(s) ==
    /\ reader[s] = "closing" /\ Free(s)
    /\ reader' = [reader EXCEPT ![s] = "over"]
    /\ writers' = IF to[s] = "bw-test" THEN writers ELSE [writers EXCEPT ![KeyOf(s)] = NoTarget]
    /\ UNCHANGED <<exitRelays, begin, to, bwLeft, credit, stamped, pending, queued, received, ended>>

\* The circuit is destroyed or evicted.
ExitCircuitGone(c) ==
    /\ c \in exitRelays
    /\ exitRelays' = exitRelays \ {c}
    /\ UNCHANGED <<begin, to, writers, reader, bwLeft, credit, stamped, pending, queued, received, ended>>

ExitInit ==
    /\ exitRelays = Circ /\ begin = [s \in Opens |-> "no"] /\ to = [s \in Opens |-> "public"]
    /\ writers = [k \in {KeyOf(s) : s \in Opens} |-> NoTarget] /\ reader = [s \in Opens |-> "no"]
    /\ bwLeft = [s \in Opens |-> 0] /\ credit = [c \in Circ |-> Credit] /\ stamped = [c \in Circ |-> 0]
    /\ pending = [t \in Task |-> NoTarget] /\ queued = [c \in Circ |-> <<>>]
    /\ received = [s \in Opens |-> {}] /\ ended = {}

ExitNext ==
    \/ \E t \in Task : Queue(t)
    \/ \E s \in Opens, target \in Target : Begin(s, target)
    \/ \E s \in Opens : Connects(s)
    \/ \E s \in Opens : ConnectFails(s)
    \/ \E s \in Opens : SpawnReader(s)
    \/ \E s \in Opens, due \in BOOLEAN : ExitData(s, due)
    \/ \E s \in Opens : ExitEnd(s)
    \/ \E c \in Circ : ExitSendme(c)
    \/ \E s \in Opens : ReadsSome(s)
    \/ \E s \in Opens : SendsBack(s)
    \/ \E s \in Opens : ReadsEof(s)
    \/ \E s \in Opens : ReaderCleansUp(s)
    \/ \E c \in Circ : ExitCircuitGone(c)

\* Every task runs; a connect ends within its timeout.  Targets owe nothing.
ExitFairness ==
    /\ \A t \in Task : WF_exitVars(Queue(t))
    /\ \A s \in Opens : /\ WF_exitVars(ConnectFails(s)) /\ WF_exitVars(SpawnReader(s))
                        /\ WF_exitVars(SendsBack(s)) /\ WF_exitVars(ReaderCleansUp(s))
ExitSpec == ExitInit /\ [][ExitNext]_exitVars /\ ExitFairness

ExitTypeOK ==
    /\ exitRelays \subseteq Circ /\ begin \in [Opens -> {"no", "connecting", "registered", "over"}]
    /\ to \in [Opens -> Target] /\ \A k \in DOMAIN writers : writers[k] = NoTarget \/ writers[k] \in Opens
    /\ reader \in [Opens -> {"no", "reading", "holding", "closing", "over"}]
    /\ credit \in [Circ -> 0..Credit] /\ bwLeft \in [Opens -> 0..BwCells]
    /\ received \in [Opens -> SUBSET Opens] /\ ended \subseteq Opens

\* Whatever its name, a destination the policy rejects is never written to and
\* nothing is read from it, though the exit has connected to it by then.
RejectedIsNotServed ==
    \A s \in Opens : to[s] \in {"private", "alias"} => received[s] = {} /\ reader[s] = "no"

\* A destination that does not answer does not hold up the link: BEGIN is handled in its
\* reader task, which is back for the next cell.
LinkIsServed == \A s \in Opens : []<>(begin[s] = "connecting" => Dispatching(s))

\* "Cells on a circuit are a stream: reorder them and the far end decrypts garbage"
\* (circuit_sched.rs:72-73): they are queued in the order they were stamped and encrypted.
\* (Violated: each is stamped under the circuits' lock, and queued after it is let go.)
DigestOrderIsQueueOrder ==
    \A c \in Circ : \A i, j \in 1..Len(queued[c]) : i < j => queued[c][i] < queued[c][j]
=============================================================================

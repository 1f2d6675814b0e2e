------------------------------- MODULE Control -------------------------------
(***************************************************************************)
(* The daemon's control socket and its longest command, bw_measure         *)
(* (phinet-daemon/main.rs), as the bandwidth scanner calls it              *)
(* (phinet-bwscanner): a measurement builds a circuit, opens a stream to   *)
(* the test source at its end, and times what arrives.                     *)
(*                                                                         *)
(* A job is one command in the daemon.  It goes on when its caller has     *)
(* given up.  Bytes are counted in chunks, and a timeout may run out at    *)
(* any moment.                                                             *)
(***************************************************************************)
EXTENDS Naturals, FiniteSets

CONSTANTS Caller,      \* the programs that use the socket
          Holder,      \* those that send the cookie with a request: not DaemonMeasurementTransport
          Job,         \* commands
          Payload,     \* the chunks asked for
          MaxCalls     \* bound on the requests of each caller

ASSUME ControlAssumption == Holder \subseteq Caller /\ Payload \in Nat \ {0} /\ MaxCalls \in Nat

VARIABLES cookieFile,  \* control.cookie: whole, or missing or short
          daemonUp,    \* the daemon runs, with the cookie it loaded
          calls,       \* requests made by each caller
          awaits,      \* the job whose answer each caller waits for, or Nothing
          answer,      \* what the last request of each came to: "none", "refused", "failed" or "measured"
          stage,       \* of each job: "no", "build", "open", "ready", "first", "drain", "ended" or "unbuilt"
          measuring,   \* the jobs whose circuit, or what was built of it, is in the circuit table
          streaming,   \* those with a stream on it
          got          \* chunks received by each
ctlVars == <<cookieFile, daemonUp, calls, awaits, answer, stage, measuring, streaming, got>>

Nothing == "nothing"
Go(j, s) == stage' = [stage EXCEPT ![j] = s]
Caused(j) == {k \in Caller : awaits[k] = j}

\* load_or_create_cookie: a whole cookie is kept, anything else replaced.
DaemonStarts ==
    /\ ~daemonUp /\ daemonUp' = TRUE /\ cookieFile' = "whole"
    /\ UNCHANGED <<calls, awaits, answer, stage, measuring, streaming, got>>

\* ctl_request, and what DaemonMeasurementTransport sends in its place: a request carries
\* what the file holds, or nothing.
Carries(k) == IF k \in Holder THEN cookieFile ELSE "nothing"

\* cookie_ok.
CookieOk(given) == given = "whole"

\* handle_ctl: one request; without the cookie the answer is "unauthorized".
Ask(k, j) ==
    /\ daemonUp /\ awaits[k] = Nothing /\ calls[k] < MaxCalls /\ calls' = [calls EXCEPT ![k] = @ + 1]
    /\ IF CookieOk(Carries(k))
       THEN stage[j] = "no" /\ Go(j, "build") /\ awaits' = [awaits EXCEPT ![k] = j] /\ UNCHANGED answer
       ELSE answer' = [answer EXCEPT ![k] = "refused"] /\ UNCHANGED <<stage, awaits>>
    /\ UNCHANGED <<cookieFile, daemonUp, measuring, streaming, got>>

\* measure: per_relay_timeout at the scanner, and the next pass begins.
GivesUp(k) ==
    /\ awaits[k] # Nothing /\ awaits' = [awaits EXCEPT ![k] = Nothing]
    /\ answer' = [answer EXCEPT ![k] = "failed"]
    /\ UNCHANGED <<cookieFile, daemonUp, calls, stage, measuring, streaming, got>>

\* The job ends so, and answers whoever still waits.
Ends(j, how, what) ==
    /\ answer' = [k \in Caller |-> IF k \in Caused(j) THEN what ELSE answer[k]]
    /\ awaits' = [k \in Caller |-> IF k \in Caused(j) THEN Nothing ELSE awaits[k]]
    /\ Go(j, how)
Answers(j, what) == Ends(j, "ended", what)

-----------------------------------------------------------------------------
(* bw_measure. *)

\* build_circuit, of target and helper; no such peers, and it is not tried.  An error is
\* passed on as it comes: what was built before CREATED or EXTENDED failed to arrive stays
\* in the table, and bw_measure does not know its id.
Built(j) ==
    /\ stage[j] = "build" /\ Go(j, "open") /\ measuring' = measuring \cup {j}
    /\ UNCHANGED <<cookieFile, daemonUp, calls, awaits, answer, streaming, got>>
CircuitFails(j) ==
    /\ stage[j] = "build" /\ Ends(j, "unbuilt", "failed")
    /\ measuring' \in {measuring, measuring \cup {j}}
    /\ UNCHANGED <<cookieFile, daemonUp, calls, streaming, got>>

\* Its guard destroys it, or evict_idle_circuits does an hour later.
HalfBuiltGoes(j) ==
    /\ stage[j] = "unbuilt" /\ j \in measuring /\ measuring' = measuring \ {j}
    /\ UNCHANGED <<cookieFile, daemonUp, calls, awaits, answer, stage, streaming, got>>

\* stream_open to "bw-test".
Opened(j) ==
    /\ stage[j] = "open" /\ j \in measuring /\ Go(j, "ready") /\ streaming' = streaming \cup {j}
    /\ UNCHANGED <<cookieFile, daemonUp, calls, awaits, answer, measuring, got>>

\* An error: the stream and the circuit go, and the circuit's streams with it.
\* Mutant: the error path of the first chunk keeps them.
Discards_first(j) ==
    IF stage[j] = "first" THEN UNCHANGED <<measuring, streaming>>
    ELSE measuring' = measuring \ {j} /\ streaming' = streaming \ {j}
Discards(j) == measuring' = measuring \ {j} /\ streaming' = streaming \ {j}

OpenFails(j) ==
    /\ stage[j] = "open" /\ Discards(j) /\ Answers(j, "failed")
    /\ UNCHANGED <<cookieFile, daemonUp, calls, got>>

\* CONNECTED, or the stream's end, resolves ready.
Ready(j) ==
    /\ stage[j] = "ready" /\ Go(j, "first")
    /\ UNCHANGED <<cookieFile, daemonUp, calls, awaits, answer, measuring, streaming, got>>

\* The waits with a timeout: 15 s, 30 s and 60 s.
Bounded == {"ready", "first", "drain"}

\* Nothing within the first two, or the stream closed before any data: an error.
ReadyFails(j) ==
    /\ stage[j] \in Bounded \cap {"ready", "first"} /\ Discards(j) /\ Answers(j, "failed")
    /\ UNCHANGED <<cookieFile, daemonUp, calls, got>>
FirstCloses(j) ==
    /\ stage[j] = "first" /\ j \notin streaming /\ Discards(j) /\ Answers(j, "failed")
    /\ UNCHANGED <<cookieFile, daemonUp, calls, got>>

\* A chunk.
Chunk(j) ==
    /\ stage[j] \in {"first", "drain"} /\ j \in streaming /\ got[j] < Payload
    /\ got' = [got EXCEPT ![j] = @ + 1] /\ Go(j, "drain")
    /\ UNCHANGED <<cookieFile, daemonUp, calls, awaits, answer, measuring, streaming>>

\* All of it, the stream's end or a timeout: what came is the measurement.
Measured(j) ==
    /\ stage[j] = "drain" /\ (got[j] >= Payload \/ j \notin streaming \/ "drain" \in Bounded)
    /\ Discards(j) /\ Answers(j, "measured")
    /\ UNCHANGED <<cookieFile, daemonUp, calls, got>>

\* Meanwhile the circuit is torn down, or the helper ends the stream.
StreamEnds(j) ==
    /\ j \in streaming /\ streaming' = streaming \ {j}
    /\ measuring' \in {measuring, measuring \ {j}}
    /\ UNCHANGED <<cookieFile, daemonUp, calls, awaits, answer, stage, got>>

-----------------------------------------------------------------------------
CtlInit ==
    /\ cookieFile \in {"whole", "short"} /\ daemonUp = FALSE
    /\ calls = [k \in Caller |-> 0] /\ awaits = [k \in Caller |-> Nothing] /\ answer = [k \in Caller |-> "none"]
    /\ stage = [j \in Job |-> "no"] /\ measuring = {} /\ streaming = {} /\ got = [j \in Job |-> 0]

JobStep(j) ==
    \/ Built(j) \/ CircuitFails(j) \/ Opened(j) \/ OpenFails(j) \/ Ready(j)
    \/ ReadyFails(j) \/ FirstCloses(j) \/ Chunk(j) \/ Measured(j)
CtlNext ==
    \/ DaemonStarts
    \/ \E k \in Caller : GivesUp(k) \/ \E j \in Job : Ask(k, j)
    \/ \E j \in Job : JobStep(j) \/ HalfBuiltGoes(j) \/ StreamEnds(j)

CtlSpec == CtlInit /\ [][CtlNext]_ctlVars

-----------------------------------------------------------------------------
CtlTypeOK ==
    /\ cookieFile \in {"whole", "short"} /\ daemonUp \in BOOLEAN
    /\ calls \in [Caller -> 0..MaxCalls] /\ awaits \in [Caller -> Job \cup {Nothing}]
    /\ answer \in [Caller -> {"none", "refused", "failed", "measured"}]
    /\ stage \in [Job -> {"no", "build", "open", "ready", "first", "drain", "ended", "unbuilt"}]
    /\ streaming \subseteq measuring \cup {j \in Job : stage[j] # "no"} /\ measuring \subseteq Job /\ got \in [Job -> 0..Payload]

\* However a measurement ends that had its circuit, and whoever still waits for it, it
\* leaves neither circuit nor stream in the daemon's tables (main.rs:1268-1344).  One whose
\* build failed leaves at most what was built: nothing is measured and nobody streams on it.
MeasurementCleansUp ==
    \A j \in Job :
        /\ stage[j] = "ended" => j \notin measuring \cup streaming
        /\ stage[j] = "unbuilt" => j \notin streaming /\ got[j] = 0
=============================================================================

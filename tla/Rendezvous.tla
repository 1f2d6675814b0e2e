---------------------------- MODULE Rendezvous ----------------------------
(* One client's fetches from a hidden service (node.rs: hs_fetch), the      *)
(* rendezvous point that splices each of them, and the service with its     *)
(* queue of intents, its drain loop and its server. A fetch stands for its  *)
(* cookie, its rendezvous circuit, the end-to-end keys made for it and the  *)
(* circuit the service builds to meet it: each of these is fresh per fetch. *)
(* Paths are FIFO channels between the client, the point and the service.   *)
EXTENDS Naturals, Sequences

CONSTANTS Fetch,     \* the fetches of the client
          QueueCap,  \* intents the service keeps (64)
          Chunks,    \* DATA cells of one response
          RdvFaults  \* faults: circuits destroyed or cut, replies that do not verify

ASSUME RendezvousAssumption ==
    QueueCap \in Nat \ {0} /\ Chunks \in Nat \ {0} /\ RdvFaults \in Nat

VARIABLES
    fetch,      \* where hs_fetch is
    origin,     \* client: rendezvous circuits in `origins`
    spare,      \* client: what else each fetch has there: its introduction circuit, a failed build
    pending,    \* client: pending_rendezvous
    rdvWaiter,     \* client: rendezvous_waiters with its oneshot
    keysC,      \* client: e2e_keys
    collector,  \* client: hs_response_collectors
    got,        \* client: chunks the fetch's receiver holds
    rdr,        \* client: the reader's place in handle_rendezvous2
    intro,      \* the cell on the introduction circuit
    up, down,   \* cells of the client's circuit, to and from the point
    cookies, bridged, \* the point: rendezvous_cookies, rendezvous_bridges
    hup, hdown, \* cells of the service's circuit, to and from the point
    queue,      \* service: hs_pending_rendezvous
    drain,      \* service: hs_rendezvous_drain_loop
    keysH,      \* service: e2e_keys
    serving,    \* service: the next chunk of serve_hs_request, 0 when idle
    cut,        \* fetches whose circuits no longer carry cells
    rdvFaults

client  == <<fetch, origin, spare, pending, rdvWaiter, keysC, collector, got, rdr>>
point   == <<cookies, bridged>>
service == <<queue, drain, keysH, serving>>
wires   == <<intro, up, down, hup, hdown>>
remote  == <<point, service, wires, cut, rdvFaults>>
rdvVars    == <<client, remote>>

Phases == {"idle", "rpDial", "rpBuild", "rp", "introDial", "introBuild", "intro", "est", "armed", "awaiting", "ready",
           "open", "reading", "clean", "done", "failed"}
Idle == [at |-> "idle"]

RdvInit ==
    /\ fetch = [f \in Fetch |-> "idle"] /\ rdvWaiter = [f \in Fetch |-> "none"]
    /\ rdr = [f \in Fetch |-> "idle"] /\ got = [f \in Fetch |-> 0]
    /\ origin = {} /\ spare = {} /\ pending = {} /\ keysC = {} /\ collector = {}
    /\ intro = [f \in Fetch |-> "none"]
    /\ up = [f \in Fetch |-> <<>>] /\ down = [f \in Fetch |-> <<>>]
    /\ hup = [f \in Fetch |-> <<>>] /\ hdown = [f \in Fetch |-> <<>>]
    /\ cookies = {} /\ bridged = {}
    /\ queue = <<>> /\ drain = Idle /\ keysH = {}
    /\ serving = [f \in Fetch |-> 0]
    /\ cut = {} /\ rdvFaults = 0

To(f, phase) == fetch' = [fetch EXCEPT ![f] = phase]
\* A cell put on a path; a path that was cut swallows it.
Put(path, f, cell) == IF f \in cut THEN path ELSE [path EXCEPT ![f] = Append(@, cell)]
Take(path, f) == [path EXCEPT ![f] = Tail(@)]
Next_(path, f, cell) == path[f] # <<>> /\ Head(path[f]) = cell

---------------------------------------------------------------------------
(* hs_fetch *)

\* build_circuit fails: what was built before an answer failed to arrive stays
\* in `origins`, and its id is not returned.
MayLeave(f) == spare' \in {spare, spare \union {<<f, "half">>}}
\* destroy_circuit of the introduction circuit, which may have gone before.
LetIntroGo(f) == spare' = spare \ {<<f, "intro">>}

\* Resolve the descriptor, take a rendezvous circuit from the pool or build
\* one, dialling its guard first if that is not linked.
TakeRp(f) ==
    /\ fetch[f] = "idle"
    /\ \/ To(f, "rp") /\ origin' = origin \union {f}
       \/ (\E phase \in {"rpDial", "rpBuild", "failed"} : To(f, phase)) /\ UNCHANGED origin
    /\ UNCHANGED <<spare, pending, rdvWaiter, keysC, collector, got, rdr, remote>>

\* build_circuit returns, by its own timeout at the latest.
BuildRp(f) ==
    /\ fetch[f] = "rpBuild"
    /\ \/ To(f, "rp") /\ origin' = origin \union {f} /\ UNCHANGED spare
       \/ To(f, "failed") /\ MayLeave(f) /\ UNCHANGED origin
    /\ UNCHANGED <<pending, rdvWaiter, keysC, collector, got, rdr, remote>>

\* Choose a path that avoids the service and end it there.
ChooseIntro(f) ==
    /\ fetch[f] = "rp"
    /\ \E phase \in {"introDial", "introBuild", "clean"} : To(f, phase)
    /\ UNCHANGED <<origin, spare, pending, rdvWaiter, keysC, collector, got, rdr, remote>>

BuildIntro(f) ==
    /\ fetch[f] = "introBuild"
    /\ \/ To(f, "intro") /\ spare' = spare \union {<<f, "intro">>}
       \/ To(f, "clean") /\ MayLeave(f)
    /\ UNCHANGED <<origin, pending, rdvWaiter, keysC, collector, got, rdr, remote>>

\* connect, which awaits the dial and the guard's PowChallenge without a
\* timeout, returns.
DialReturns(f) ==
    /\ \/ fetch[f] = "rpDial" /\ \E phase \in {"rpBuild", "failed"} : To(f, phase)
       \/ fetch[f] = "introDial" /\ \E phase \in {"introBuild", "clean"} : To(f, phase)
    /\ UNCHANGED <<origin, spare, pending, rdvWaiter, keysC, collector, got, rdr, remote>>

EstablishRendezvous(f) ==
    /\ fetch[f] = "intro"
    /\ IF f \in origin
       THEN /\ To(f, "est") /\ pending' = pending \union {f}
            /\ up' = Put(up, f, "est") /\ UNCHANGED spare
       ELSE To(f, "clean") /\ LetIntroGo(f) /\ UNCHANGED <<pending, up>>
    /\ UNCHANGED <<origin, rdvWaiter, keysC, collector, got, rdr, point, service,
                   intro, down, hup, hdown, cut, rdvFaults>>

AwaitRendezvous(f) ==
    /\ fetch[f] = "est"
    /\ To(f, "armed")
    /\ rdvWaiter' = [rdvWaiter EXCEPT ![f] = "open"]
    /\ UNCHANGED <<origin, spare, pending, keysC, collector, got, rdr, remote>>

\* send_introduce1, then the introduction circuit is torn down, whether the
\* cell was sent or not: the cell is ahead of the DESTROY on it. The circuit
\* may have gone meanwhile.
SendIntroduce1(f) ==
    /\ fetch[f] = "armed"
    /\ LetIntroGo(f)
    /\ \/ /\ f \in pending /\ <<f, "intro">> \in spare
          /\ To(f, "awaiting")
          /\ intro' = [intro EXCEPT ![f] = "intro1"]
          /\ UNCHANGED rdvWaiter
       \/ /\ To(f, "clean")
          /\ rdvWaiter' = [rdvWaiter EXCEPT ![f] = "none"]
          /\ UNCHANGED intro
    /\ UNCHANGED <<origin, pending, keysC, collector, got, rdr, point, service,
                   up, down, hup, hdown, cut, rdvFaults>>

\* The oneshot resolves: the keys are in place, or the reply did not verify
\* and handle_rendezvous2 has torn the circuit down.
Woken(f) ==
    /\ fetch[f] = "awaiting"
    /\ \/ rdvWaiter[f] = "ok" /\ To(f, "ready")
       \/ rdvWaiter[f] = "err" /\ To(f, "failed")
    /\ rdvWaiter' = [rdvWaiter EXCEPT ![f] = "none"]
    /\ UNCHANGED <<origin, spare, pending, keysC, collector, got, rdr, remote>>

\* Mutant: the wait for RENDEZVOUS2 is not under a timeout.
RendezvousTimeout_never(f) ==
    /\ fetch[f] = "awaiting" /\ rdvWaiter[f] = "open" /\ f \notin pending
    /\ To(f, "clean")
    /\ rdvWaiter' = [rdvWaiter EXCEPT ![f] = "none"]
    /\ UNCHANGED <<origin, spare, pending, keysC, collector, got, rdr, remote>>

\* RENDEZVOUS_TIMEOUT: the waiter is removed first, the circuit torn down after.
RendezvousTimeout(f) ==
    /\ fetch[f] = "awaiting" /\ rdvWaiter[f] = "open"
    /\ To(f, "clean")
    /\ rdvWaiter' = [rdvWaiter EXCEPT ![f] = "none"]
    /\ UNCHANGED <<origin, spare, pending, keysC, collector, got, rdr, remote>>

\* hs_fetch_request: the collector is in place before the request is sent.
OpenCollector(f) ==
    /\ fetch[f] = "ready"
    /\ To(f, "open")
    /\ collector' = collector \union {f}
    /\ UNCHANGED <<origin, spare, pending, rdvWaiter, keysC, got, rdr, remote>>

SendRequest(f) ==
    /\ fetch[f] = "open"
    /\ IF f \in origin
       THEN To(f, "reading") /\ up' = Put(up, f, "req") /\ UNCHANGED collector
       ELSE To(f, "clean") /\ collector' = collector \ {f} /\ UNCHANGED up
    /\ UNCHANGED <<origin, spare, pending, rdvWaiter, keysC, got, rdr, point, service,
                   intro, down, hup, hdown, cut, rdvFaults>>

\* The collector's sender was dropped: what has arrived is the response.
ResponseEnds(f) ==
    /\ fetch[f] = "reading" /\ f \notin collector
    /\ To(f, IF got[f] = 0 THEN "clean" ELSE "done")
    /\ UNCHANGED <<origin, spare, pending, rdvWaiter, keysC, collector, got, rdr, remote>>

ResponseTimeout(f) ==
    /\ fetch[f] = "reading" /\ f \in collector
    /\ To(f, "clean")
    /\ collector' = collector \ {f}
    /\ UNCHANGED <<origin, spare, pending, rdvWaiter, keysC, got, rdr, remote>>

\* Mutant: the circuit is left to be evicted when idle.
Teardown_none(f) ==
    /\ fetch[f] = "clean"
    /\ To(f, "failed")
    /\ UNCHANGED <<origin, spare, keysC, pending, rdvWaiter, collector, got, rdr, remote>>

\* destroy_circuit. It leaves pending_rendezvous alone.
Teardown(f) ==
    /\ fetch[f] = "clean"
    /\ To(f, "failed")
    /\ origin' = origin \ {f} /\ keysC' = keysC \ {f}
    /\ UNCHANGED <<spare, pending, rdvWaiter, collector, got, rdr, remote>>

FetchStep(f) ==
    \/ TakeRp(f) \/ BuildRp(f) \/ ChooseIntro(f) \/ BuildIntro(f)
    \/ EstablishRendezvous(f) \/ AwaitRendezvous(f) \/ SendIntroduce1(f) \/ Woken(f) \/ RendezvousTimeout(f) \/ OpenCollector(f)
    \/ SendRequest(f) \/ ResponseEnds(f) \/ ResponseTimeout(f) \/ Teardown(f)

---------------------------------------------------------------------------
(* The client's reader: one cell at a time; a cell of a circuit that is     *)
(* gone belongs to nobody.                                                  *)

ClientDiscards(f) ==
    /\ rdr[f] = "idle" /\ down[f] # <<>>
    /\ \/ f \notin origin
       \/ Head(down[f]) = "estok"
       \/ Head(down[f]) \in {"chunk", "end"} /\ f \notin keysC
    /\ down' = Take(down, f)
    /\ UNCHANGED <<client, point, service, intro, up, hup, hdown, cut, rdvFaults>>

\* RENDEZVOUS2 is recognised under the lock, then handled under it again.
RecvRendezvous2(f) ==
    /\ rdr[f] = "idle" /\ f \in origin /\ Next_(down, f, "r2")
    /\ down' = Take(down, f)
    /\ rdr' = [rdr EXCEPT ![f] = "r2"]
    /\ UNCHANGED <<fetch, origin, spare, pending, rdvWaiter, keysC, collector, got, point, service,
                   intro, up, hup, hdown, cut, rdvFaults>>

\* complete_rendezvous: the cookie is consumed whatever the outcome.
CompleteRendezvous(f) ==
    /\ rdr[f] = "r2"
    /\ pending' = pending \ {f}
    /\ \/ /\ f \notin pending
          /\ rdr' = [rdr EXCEPT ![f] = "idle"]
          /\ UNCHANGED <<origin, keysC, rdvFaults>>
       \/ /\ f \in pending
          /\ rdr' = [rdr EXCEPT ![f] = "ok"]
          /\ keysC' = keysC \union {f}
          /\ UNCHANGED <<origin, rdvFaults>>
       \/ /\ f \in pending /\ rdvFaults < RdvFaults
          /\ rdr' = [rdr EXCEPT ![f] = "err"]
          /\ origin' = origin \ {f} /\ keysC' = keysC \ {f}
          /\ rdvFaults' = rdvFaults + 1
    /\ UNCHANGED <<fetch, spare, rdvWaiter, collector, got, point, service, wires, cut>>

SignalRendezvous(f) ==
    /\ rdr[f] \in {"ok", "err"}
    /\ rdr' = [rdr EXCEPT ![f] = "idle"]
    /\ rdvWaiter' = [rdvWaiter EXCEPT ![f] = IF @ = "open" THEN rdr[f] ELSE @]
    /\ UNCHANGED <<fetch, origin, spare, pending, keysC, collector, got, remote>>

\* An end-to-end DATA cell goes to the collector. Without one the client takes
\* itself for the service and serve_hs_request answers the response; that
\* answer, which only a fetch that is over can cause, is not followed further.
RecvChunk(f) ==
    /\ rdr[f] = "idle" /\ f \in origin /\ f \in keysC /\ Next_(down, f, "chunk")
    /\ down' = Take(down, f)
    /\ got' = IF f \in collector THEN [got EXCEPT ![f] = @ + 1] ELSE got
    /\ UNCHANGED <<fetch, origin, spare, pending, rdvWaiter, keysC, collector, rdr, point, service,
                   intro, up, hup, hdown, cut, rdvFaults>>

RecvEnd(f) ==
    /\ rdr[f] = "idle" /\ f \in origin /\ f \in keysC /\ Next_(down, f, "end")
    /\ down' = Take(down, f)
    /\ collector' = collector \ {f}
    /\ UNCHANGED <<fetch, origin, spare, pending, rdvWaiter, keysC, got, rdr, point, service,
                   intro, up, hup, hdown, cut, rdvFaults>>

ClientReads(f) ==
    \/ ClientDiscards(f) \/ RecvRendezvous2(f) \/ CompleteRendezvous(f)
    \/ SignalRendezvous(f) \/ RecvChunk(f) \/ RecvEnd(f)

---------------------------------------------------------------------------
(* The rendezvous point *)

RecvEstablishRendezvous(f) ==
    /\ Next_(up, f, "est")
    /\ up' = Take(up, f)
    /\ cookies' = cookies \union {f}
    /\ down' = Put(down, f, "estok")
    /\ UNCHANGED <<client, bridged, service, intro, hup, hdown, cut, rdvFaults>>

\* The cookie is consumed and the legs bridged under one lock.
RecvRendezvous1(f) ==
    /\ Next_(hup, f, "r1")
    /\ hup' = Take(hup, f)
    /\ IF f \in cookies
       THEN /\ cookies' = cookies \ {f} /\ bridged' = bridged \union {f}
            /\ down' = Put(down, f, "r2")
       ELSE UNCHANGED <<cookies, bridged, down>>
    /\ UNCHANGED <<client, service, intro, up, hdown, cut, rdvFaults>>

\* Cells not for the point itself cross the bridge, or are dropped.
Splice(f) ==
    \/ /\ Next_(up, f, "req")
       /\ up' = Take(up, f)
       /\ hdown' = IF f \in bridged THEN Put(hdown, f, "req") ELSE hdown
       /\ UNCHANGED <<client, point, service, intro, down, hup, cut, rdvFaults>>
    \/ /\ \E c \in {"chunk", "end"} :
            /\ Next_(hup, f, c)
            /\ down' = IF f \in bridged THEN Put(down, f, c) ELSE down
       /\ hup' = Take(hup, f)
       /\ UNCHANGED <<client, point, service, intro, up, hdown, cut, rdvFaults>>

---------------------------------------------------------------------------
(* The service *)

\* A relay where the service registered an introduction point passes the
\* introduction on; when the circuit ends at the service itself there is none.
ForwardIntroduce2(f) ==
    /\ intro[f] = "intro1"
    /\ intro' = [intro EXCEPT ![f] = "intro2"]
    /\ UNCHANGED <<client, point, service, up, down, hup, hdown, cut, rdvFaults>>

\* Mutant: the intent is queued whatever the queue holds.
HandleIntroduce2_nocap(f) ==
    /\ intro[f] \in {"intro1", "intro2"}
    /\ intro' = [intro EXCEPT ![f] = "none"]
    /\ queue' = Append(queue, f)
    /\ UNCHANGED <<client, point, drain, keysH, serving, up, down, hup, hdown, cut, rdvFaults>>

\* handle_introduce2: a full queue drops the intent without a word.
HandleIntroduce2(f) ==
    /\ intro[f] \in {"intro1", "intro2"}
    /\ intro' = [intro EXCEPT ![f] = "none"]
    /\ queue' = IF Len(queue) >= QueueCap THEN queue ELSE Append(queue, f)
    /\ UNCHANGED <<client, point, drain, keysH, serving, up, down, hup, hdown, cut, rdvFaults>>

DrainPops ==
    /\ drain = Idle /\ queue # <<>>
    /\ queue' = Tail(queue)
    /\ drain' = [at |-> "dial", fetch |-> Head(queue)]
    /\ UNCHANGED <<client, point, keysH, serving, wires, cut, rdvFaults>>

\* Connect to the point and build the circuit there; each may fail, and an
\* intent has one attempt.
DrainBuilds ==
    /\ drain.at \in {"dial", "build"}
    /\ \/ drain' = [drain EXCEPT !.at = IF @ = "dial" THEN "build" ELSE "send"]
       \/ drain' = Idle
    /\ UNCHANGED <<client, point, queue, keysH, serving, wires, cut, rdvFaults>>

DrainSends ==
    /\ drain.at = "send"
    /\ hup' = Put(hup, drain.fetch, "r1")
    /\ drain' = [drain EXCEPT !.at = "install"]
    /\ UNCHANGED <<client, point, queue, keysH, serving, intro, up, down, hdown, cut, rdvFaults>>

\* The keys go in after RENDEZVOUS1 has left.
DrainInstalls ==
    /\ drain.at = "install"
    /\ keysH' = keysH \union {drain.fetch}
    /\ drain' = Idle
    /\ UNCHANGED <<client, point, queue, serving, wires, cut, rdvFaults>>

\* A request: recognised if the end-to-end layer is there, lost if not.
RecvRequest(f) ==
    /\ serving[f] = 0 /\ Next_(hdown, f, "req")
    /\ hdown' = Take(hdown, f)
    /\ serving' = IF f \in keysH THEN [serving EXCEPT ![f] = 1] ELSE serving
    /\ UNCHANGED <<client, point, queue, drain, keysH, intro, up, down, hup, cut, rdvFaults>>

\* serve_hs_request: the chunks in order, then END.
ServeChunk(f) ==
    /\ serving[f] \in 1 .. Chunks
    /\ hup' = Put(hup, f, "chunk")
    /\ serving' = [serving EXCEPT ![f] = @ + 1]
    /\ UNCHANGED <<client, point, queue, drain, keysH, intro, up, down, hdown, cut, rdvFaults>>

ServeEnd(f) ==
    /\ serving[f] = Chunks + 1
    /\ hup' = Put(hup, f, "end")
    /\ serving' = [serving EXCEPT ![f] = 0]
    /\ UNCHANGED <<client, point, queue, drain, keysH, intro, up, down, hdown, cut, rdvFaults>>

DrainStep == DrainPops \/ DrainBuilds \/ DrainSends \/ DrainInstalls
ServiceStep(f) ==
    \/ ForwardIntroduce2(f) \/ HandleIntroduce2(f)
    \/ RecvRequest(f) \/ ServeChunk(f) \/ ServeEnd(f)

---------------------------------------------------------------------------
(* Faults: the guard tells the client its circuit is gone, or a relay on a  *)
(* path vanishes and nobody tells anyone.                                   *)

RecvDestroy(f) ==
    /\ f \in origin /\ rdvFaults < RdvFaults
    /\ origin' = origin \ {f} /\ keysC' = keysC \ {f}
    /\ rdvFaults' = rdvFaults + 1
    /\ UNCHANGED <<fetch, spare, pending, rdvWaiter, collector, got, rdr, point, service, wires, cut>>

\* The other circuits of a fetch go when their guard says so, or to
\* evict_idle_circuits after an idle hour; nobody waits for a failed build.
SpareGoes(f) ==
    /\ \E w \in {"intro", "half"} : <<f, w>> \in spare /\ spare' = spare \ {<<f, w>>}
    /\ UNCHANGED <<fetch, origin, pending, rdvWaiter, keysC, collector, got, rdr, remote>>

PathCut(f) ==
    /\ f \notin cut /\ rdvFaults < RdvFaults
    /\ cut' = cut \union {f}
    /\ up' = [up EXCEPT ![f] = <<>>] /\ down' = [down EXCEPT ![f] = <<>>]
    /\ hup' = [hup EXCEPT ![f] = <<>>] /\ hdown' = [hdown EXCEPT ![f] = <<>>]
    /\ intro' = [intro EXCEPT ![f] = "none"]
    /\ rdvFaults' = rdvFaults + 1
    /\ UNCHANGED <<client, point, service>>

RdvNext ==
    \/ \E f \in Fetch :
         \/ FetchStep(f) \/ DialReturns(f) \/ ClientReads(f)
         \/ RecvEstablishRendezvous(f) \/ RecvRendezvous1(f) \/ Splice(f)
         \/ ServiceStep(f) \/ RecvDestroy(f) \/ SpareGoes(f) \/ PathCut(f)
    \/ DrainStep

\* hs_fetch is one task: its steps follow each other, its builds poll until
\* their own time is up, and its two waits are under time::timeout. Nothing is
\* assumed of the point or the service, nor that a dial returns.
RdvFairness == \A f \in Fetch : WF_rdvVars(FetchStep(f))
RdvSpec == RdvInit /\ [][RdvNext]_rdvVars /\ RdvFairness

---------------------------------------------------------------------------
RdvTypeOK ==
    /\ fetch \in [Fetch -> Phases]
    /\ rdvWaiter \in [Fetch -> {"none", "open", "ok", "err"}]
    /\ rdr \in [Fetch -> {"idle", "r2", "ok", "err"}]
    /\ got \in [Fetch -> 0 .. Chunks]
    /\ origin \subseteq Fetch /\ spare \subseteq Fetch \X {"intro", "half"}
    /\ pending \subseteq Fetch /\ keysC \subseteq Fetch
    /\ collector \subseteq Fetch /\ cookies \subseteq Fetch /\ bridged \subseteq Fetch
    /\ keysH \subseteq Fetch
    /\ cut \subseteq Fetch
    /\ queue \in Seq(Fetch) /\ Len(queue) <= QueueCap
    /\ drain = Idle \/ drain \in [at : {"dial", "build", "send", "install"}, fetch : Fetch]
    /\ serving \in [Fetch -> 0 .. Chunks + 1]
    /\ rdvFaults \in 0 .. RdvFaults

\* Whatever step of hs_fetch fails, and whichever answer arrives meanwhile, a
\* failed fetch leaves no rendezvous circuit, no waiter and no collector
\* (node.rs:4777), no fetch keeps its introduction circuit past INTRODUCE1
\* (node.rs:4894), and what a failed build left in `origins` is all that stays.
CircuitsReleased ==
    \A f \in Fetch :
        /\ fetch[f] = "failed" => f \notin origin /\ rdvWaiter[f] = "none" /\ f \notin collector
        /\ <<f, "intro">> \in spare => fetch[f] \in {"intro", "est", "armed"}
        /\ <<f, "half">> \in spare => fetch[f] \in {"clean", "failed"}

\* A fetch that succeeds returns every chunk the service sent, and one that
\* reads has never taken a chunk for a request of its own (node.rs:1960-1972).
AnswerIsWhole == \A f \in Fetch : fetch[f] = "done" => got[f] = Chunks

\* A fetch that is over has all of its answer, or has let go of all it held.
FetchOutcome == CircuitsReleased /\ AnswerIsWhole

\* Whatever the service, its queue and the relays do, a fetch returns, unless a
\* guard it has no link to keeps it in connect, which has no timeout
\* (node.rs:856, 864): there is no other place where it can stay.
FetchEnds ==
    \A f \in Fetch : \/ <>[](fetch[f] \in {"rpDial", "introDial"})
                      \/ []<>(fetch[f] \in {"idle", "done", "failed"})
===========================================================================

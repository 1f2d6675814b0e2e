---------------------------- MODULE CircuitBuild ----------------------------
(***************************************************************************)
(* build_circuit seen from the node that builds: the dial of a guard that  *)
(* is not linked, the waits for CREATED and each EXTENDED, the timeout     *)
(* learned from earlier builds (circuit_timing.rs) and the count of what   *)
(* each guard completed (path_bias.rs).  Several builds run at once and    *)
(* share both.                                                             *)
(*                                                                         *)
(* A build's clock is relative: its age, and the age of the wait it is in. *)
(* Ticks are coarser than the 50 ms poll, so a wait that is over its time  *)
(* is seen to be before time goes on.                                      *)
(***************************************************************************)
EXTENDS Naturals, Sequences, FiniteSets

CONSTANTS Builder,      \* concurrent calls of build_circuit
          Guard,        \* the first hops
          BuildHops,         \* the length of every path
          Window, MinSamples, DefaultTimeout, MinTimeout, MaxTimeout,  \* circuit_timing.rs
          MinAttempts,  \* path_bias.rs: MIN_ATTEMPTS
          SlowHop,      \* the ticks a hop needs to answer on a slow network
          MaxAttempts   \* bound: builds through one guard

ASSUME CircuitBuildAssumption ==
    /\ BuildHops \in Nat \ {0} /\ Window \in Nat \ {0} /\ MinSamples \in 1..Window /\ SlowHop \in Nat
    /\ MinTimeout \in Nat /\ DefaultTimeout \in Nat /\ MaxTimeout \in Nat /\ MinTimeout <= MaxTimeout
    /\ MinAttempts \in Nat /\ MaxAttempts \in Nat

VARIABLES linking,    \* the calls that await connect, each with its guard
          job,        \* per builder, what it builds: guard, hops up, age of the build and of the wait, the wait's limit
          samples,    \* BuildTimes.samples
          attempts, successes,   \* PathBias.guards
          slow,       \* whether the network is slow now
          failed      \* history: the guards a build of which has ended without a circuit
buildVars == <<linking, job, samples, attempts, successes, slow, failed>>

Idle == [building |-> FALSE]

-----------------------------------------------------------------------------
(* circuit_timing. *)

\* BuildTimes::record, for a build of that length.
Recorded(s, d) == LET kept == IF Len(s) >= Window THEN Tail(s) ELSE s IN Append(kept, d)

\* Nearest rank of the 80th percentile.  Mutant: the rank is rounded down.
RankOf_floor(n) == IF (4 * n) \div 5 = 0 THEN 1 ELSE (4 * n) \div 5
RankOf(n) == (4 * n + 4) \div 5

\* "Nearest-rank": the smallest sample that at least r of them do not exceed.
Covers(s, v) == Cardinality({i \in DOMAIN s : s[i] <= v})
NearestRank(s, r) ==
    CHOOSE v \in {s[i] : i \in DOMAIN s} :
        Covers(s, v) >= r /\ \A j \in DOMAIN s : Covers(s, s[j]) >= r => v <= s[j]

Clamped(t) == IF t < MinTimeout THEN MinTimeout ELSE IF t > MaxTimeout THEN MaxTimeout ELSE t
\* BuildTimes::timeout: the percentile and half of it again.
Timeout ==
    IF Len(samples) < MinSamples THEN DefaultTimeout
    ELSE Clamped((3 * NearestRank(samples, RankOf(Len(samples)))) \div 2)

-----------------------------------------------------------------------------
(* path_bias. *)

\* GuardStats::is_suspicious: fewer than three attempts in ten succeeded, of
\* at least MinAttempts.
Suspicious(g) == attempts[g] >= MinAttempts /\ 10 * successes[g] < 3 * attempts[g]

-----------------------------------------------------------------------------
(* build_circuit. *)

Dials(b) == \E g \in Guard : <<b, g>> \in linking

\* The guard is not linked: connect dials it and reads its PowChallenge, and neither is
\* under a timeout.  Nothing else of the call has happened yet.
DialGuard(b, g) ==
    /\ ~job[b].building /\ ~Dials(b)
    /\ linking' = linking \cup {<<b, g>>}
    /\ UNCHANGED <<job, samples, attempts, successes, slow, failed>>

\* The dial fails, or somebody else answered it: the call ends with nothing counted.
DialFails(b, g) ==
    /\ <<b, g>> \in linking /\ linking' = linking \ {<<b, g>>}
    /\ UNCHANGED <<job, samples, attempts, successes, slow, failed>>

\* The guard is linked, by this call's dial or before it: CREATE is on its way and the
\* attempt is counted.
StartBuild(b, g) ==
    /\ ~job[b].building /\ (Dials(b) => <<b, g>> \in linking) /\ attempts[g] < MaxAttempts
    /\ linking' = linking \ {<<b, g>>}
    /\ job' = [job EXCEPT ![b] = [building |-> TRUE, guard |-> g, up |-> 0, age |-> 0, wait |-> 0,
                                  limit |-> Timeout]]
    /\ attempts' = [attempts EXCEPT ![g] = @ + 1]
    /\ UNCHANGED <<samples, successes, slow, failed>>

\* A hop's answer: the dispatch task installs it, the next poll starts the next wait.
HopAnswers(b) ==
    /\ job[b].building /\ job[b].up + 1 < BuildHops
    /\ slow => job[b].wait >= SlowHop
    /\ job' = [job EXCEPT ![b].up = @ + 1, ![b].wait = 0]
    /\ UNCHANGED <<linking, samples, attempts, successes, slow, failed>>

\* The last hop's answer: the build is recorded and the call returns the circuit.
BuildCompletes(b) ==
    /\ job[b].building /\ job[b].up + 1 = BuildHops
    /\ slow => job[b].wait >= SlowHop
    /\ samples' = Recorded(samples, job[b].age)
    /\ successes' = [successes EXCEPT ![job[b].guard] = @ + 1]
    /\ job' = [job EXCEPT ![b] = Idle]
    /\ UNCHANGED <<linking, attempts, slow, failed>>

\* Mutant: a wait that starts over at every poll.
Overdue_never(b) == FALSE
Overdue(b) == job[b].building /\ job[b].wait > job[b].limit

\* The wait is over: nothing is recorded, and the circuit stays in the tables.
BuildTimesOut(b) ==
    /\ Overdue(b)
    /\ job' = [job EXCEPT ![b] = Idle]
    /\ failed' = failed \cup {job[b].guard}
    /\ UNCHANGED <<linking, samples, attempts, successes, slow>>

\* The link to the guard is gone, or the circuit was destroyed: the next EXTEND cannot
\* be sent, and the call ends.
BuildFails(b) ==
    /\ job[b].building /\ job[b].up > 0
    /\ job' = [job EXCEPT ![b] = Idle]
    /\ failed' = failed \cup {job[b].guard}
    /\ UNCHANGED <<linking, samples, attempts, successes, slow>>

Aged(j) == IF j.building THEN [j EXCEPT !.age = @ + 1, !.wait = @ + 1] ELSE j
BuildTick ==
    /\ \E b \in Builder : job[b].building
    /\ \A b \in Builder : job[b].building => job[b].wait <= job[b].limit
    /\ job' = [b \in Builder |-> Aged(job[b])]
    /\ UNCHANGED <<linking, samples, attempts, successes, slow, failed>>
NetworkSlows ==
    /\ ~slow /\ slow' = TRUE
    /\ UNCHANGED <<linking, job, samples, attempts, successes, failed>>

BuildInit ==
    /\ linking = {} /\ job = [b \in Builder |-> Idle] /\ samples = <<>>
    /\ attempts = [g \in Guard |-> 0] /\ successes = [g \in Guard |-> 0]
    /\ slow = FALSE /\ failed = {}

BuildNext ==
    \/ \E b \in Builder, g \in Guard : DialGuard(b, g) \/ DialFails(b, g) \/ StartBuild(b, g)
    \/ \E b \in Builder : HopAnswers(b)
    \/ \E b \in Builder : BuildCompletes(b)
    \/ \E b \in Builder : BuildTimesOut(b)
    \/ \E b \in Builder : BuildFails(b)
    \/ BuildTick \/ NetworkSlows

\* A call polls until its wait is over.  Nothing makes a dial return.
BuildFairness == WF_buildVars(BuildTick) /\ \A b \in Builder : WF_buildVars(BuildTimesOut(b))
BuildSpec == BuildInit /\ [][BuildNext]_buildVars /\ BuildFairness

BuildTypeOK ==
    /\ linking \subseteq Builder \X Guard
    /\ \A b \in Builder : job[b] = Idle \/ (job[b].guard \in Guard /\ job[b].up < BuildHops /\ job[b].wait <= job[b].age
                                            /\ job[b].wait <= job[b].limit + 1)
    /\ samples \in Seq(Nat) /\ Len(samples) <= Window
    /\ attempts \in [Guard -> 0..MaxAttempts] /\ successes \in [Guard -> 0..MaxAttempts]
    /\ slow \in BOOLEAN /\ failed \subseteq Guard

\* "Keep waiting long enough for four out of five circuits that would have succeeded":
\* once it adapts, the timeout is the longest allowed, or covers 80% of the builds kept.
TimeoutCoversMost ==
    Len(samples) >= MinSamples =>
        \/ Timeout = MaxTimeout
        \/ 5 * Covers(samples, Timeout) >= 4 * Len(samples)

\* A guard that never failed a build is not suspected of failing them: the builds
\* still under way, counted as attempts, are too few to outweigh those completed.
UnfailedNotSuspected == \A g \in Guard \ failed : ~Suspicious(g)

\* How a build is judged, by time and by outcome, is fair to circuits and to guards.
BuildsJudged == TimeoutCoversMost /\ UnfailedNotSuspected

\* There is one place where a call of build_circuit can be kept for good: connect, by a
\* guard that was not linked and accepts the dial without a word (node.rs:856, 864).  Once
\* CREATE is out, no guard or relay that stops answering keeps it.
BuildEnds == \A b \in Builder : <>[]Dials(b) \/ []<>(~job[b].building /\ ~Dials(b))
=============================================================================

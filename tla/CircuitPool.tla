---------------------------- MODULE CircuitPool ----------------------------
(***************************************************************************)
(* The pool of warm circuits (circuit_pool.rs, CircuitPool), the loop that *)
(* keeps it filled (node.rs, circuit_pool_loop), the fetches that take     *)
(* circuits from it or build their own (rp_circuit, hs_fetch), and node    *)
(* shutdown or a new identity.  A circuit is its id; building one is       *)
(* starting it and then polling until it has its hops or the time is up    *)
(* (build_circuit).                                                        *)
(*                                                                         *)
(* Time is what the pool asks of it: which circuits are stale (MAX_IDLE),  *)
(* and whether the last failed build was just now (REBUILD_BACKOFF).       *)
(***************************************************************************)
EXTENDS Sifting, FiniteSets, SequencesExt

CONSTANTS
  PoolCids,      \* circuit ids, in the order they are handed out
  Fetches,   \* rendezvous fetches
  PoolTarget,    \* POOL_TARGET
  NoFetch       \* no circuit

ASSUME PoolAssumption == PoolTarget \in Nat /\ PoolCids \subseteq Nat /\ NoFetch \notin PoolCids

Loop == "loop"
Builders == Fetches \cup {Loop}

ASSUME LoopAssumption == Loop \notin Fetches

VARIABLES
  ready,     \* CircuitPool.ready: circuits, and whether each is_stale
  backoff,   \* last_failure is less than REBUILD_BACKOFF ago
  loop,      \* where circuit_pool_loop is
  doomed,    \* circuits it has taken out of the pool to destroy
  build,     \* the circuit each builder has started and waits for
  fetch,     \* what each fetch is about: "idle", "building", "using", "over"
  rp,        \* the rendezvous circuit of each fetch
  standing,  \* ids in the circuit manager's origins
  unusedIds,    \* ids not yet handed out
  warmed,    \* circuits that were in the pool and no fetch took (history)
  renewed,   \* new_identity was called (history)
  shutdown   \* shutdown_flag

poolVars  == <<ready, backoff, warmed>>
fetchVars == <<fetch, rp>>
nodeVars  == <<renewed, shutdown>>
poolRunVars == <<poolVars, fetchVars, nodeVars, loop, doomed, build, standing, unusedIds>>

-----------------------------------------------------------------------------

PoolInit ==
  /\ ready = <<>> /\ backoff = FALSE /\ warmed = {}
  /\ loop = "asleep" /\ doomed = {}
  /\ build = [b \in Builders |-> NoFetch]
  /\ fetch = [f \in Fetches |-> "idle"]
  /\ rp = [f \in Fetches |-> NoFetch]
  /\ standing = {}
  /\ unusedIds = PoolCids
  /\ renewed = FALSE /\ shutdown = FALSE

\* wants_more.
WantsMore == ~ backoff /\ Len(ready) < PoolTarget

\* start_circuit and the CREATE: the builder has a circuit to wait for.  Ids
\* count up; the ones passed over went to circuits of other kinds.
Start(b) ==
  \E c \in unusedIds :
    /\ build' = [build EXCEPT ![b] = c]
    /\ standing' = standing \cup {c}
    /\ unusedIds' = {d \in unusedIds : d > c}

\* The circuits a pool holds.
CidsOf(pool) == {pool[i].cid : i \in DOMAIN pool}

IsStale(c) == c.stale
IsFresh(c) == ~ c.stale

\* What drain_stale keeps of a pool.
Kept(pool) == SeqAt(pool, {i \in DOMAIN pool : IsFresh(pool[i])})

-----------------------------------------------------------------------------
(* circuit_pool_loop. *)

\* The ten-second sleep ends, or notify_waiters ends it: on shutdown leave,
\* else drain_stale.
LoopWakes ==
  /\ loop = "asleep"
  /\ IF shutdown
       THEN /\ loop' = "leaving"
            /\ UNCHANGED <<doomed, ready>>
       ELSE /\ loop' = "retiring"
            /\ doomed' = {ready[i].cid : i \in {j \in DOMAIN ready : IsStale(ready[j])}}
            /\ ready' = Kept(ready)
  /\ UNCHANGED <<backoff, warmed, fetchVars, build, standing, unusedIds, nodeVars>>

\* destroy_circuit of a circuit taken out; a no-op for one already gone.
LoopDestroys(c) ==
  /\ loop \in {"retiring", "closing"}
  /\ c \in doomed
  /\ doomed' = doomed \ {c}
  /\ standing' = standing \ {c}
  /\ UNCHANGED <<poolVars, fetchVars, loop, build, unusedIds, nodeVars>>

\* All destroyed: on to the builds, or the end.
LoopDestroyed ==
  /\ doomed = {}
  /\ \/ loop = "retiring" /\ loop' = "deciding"
     \/ loop = "closing" /\ loop' = "gone"
  /\ UNCHANGED <<poolVars, fetchVars, doomed, build, standing, unusedIds, nodeVars>>

\* Start another build,
LoopBuilds ==
  /\ loop = "deciding" /\ WantsMore /\ ~ shutdown
  /\ Start(Loop)
  /\ loop' = "building"
  /\ UNCHANGED <<poolVars, fetchVars, doomed, nodeVars>>

\* or fail to (no path, no guard to dial) and back off,
LoopCannotBuild ==
  /\ loop = "deciding" /\ WantsMore /\ ~ shutdown
  /\ backoff' = TRUE
  /\ loop' = "asleep"
  /\ UNCHANGED <<ready, warmed, fetchVars, doomed, build, standing, unusedIds, nodeVars>>

\* or go back to sleep: enough circuits, backing off, shutting down, or no
\* consensus yet.
LoopRests ==
  /\ loop = "deciding"
  /\ loop' = "asleep"
  /\ UNCHANGED <<poolVars, fetchVars, doomed, build, standing, unusedIds, nodeVars>>

\* The build has all its hops: push.
LoopBuilt ==
  /\ loop = "building" /\ build[Loop] \in standing
  /\ ready' = Append(ready, [cid |-> build[Loop], stale |-> FALSE])
  /\ warmed' = warmed \cup {build[Loop]}
  /\ build' = [build EXCEPT ![Loop] = NoFetch]
  /\ loop' = "deciding"
  /\ UNCHANGED <<backoff, fetchVars, doomed, standing, unusedIds, nodeVars>>

\* The build times out: note_failure.  What was started is left as it is.
LoopTimesOut ==
  /\ loop = "building"
  /\ backoff' = TRUE
  /\ build' = [build EXCEPT ![Loop] = NoFetch]
  /\ loop' = "asleep"
  /\ UNCHANGED <<ready, warmed, fetchVars, doomed, standing, unusedIds, nodeVars>>

\* Out of the loop: take_all.
LoopLeaves ==
  /\ loop = "leaving"
  /\ doomed' = CidsOf(ready)
  /\ ready' = <<>>
  /\ loop' = "closing"
  /\ UNCHANGED <<backoff, warmed, fetchVars, build, standing, unusedIds, nodeVars>>

-----------------------------------------------------------------------------
(* hs_fetch. *)

\* Mutant: the circuit is copied out of the pool.
FetchTakes_copies(f) ==
  /\ fetch[f] = "idle"
  /\ \E i \in DOMAIN ready :
       /\ IsFresh(ready[i])
       /\ rp' = [rp EXCEPT ![f] = ready[i].cid]
  /\ fetch' = [fetch EXCEPT ![f] = "using"]
  /\ UNCHANGED <<poolVars, loop, doomed, build, standing, unusedIds, nodeVars>>

\* rp_circuit: take a circuit that is not stale and whose last hop is not
\* the service's relay; any may be the first such.
FetchTakes(f) ==
  /\ fetch[f] = "idle"
  /\ \E i \in DOMAIN ready :
       /\ IsFresh(ready[i])
       /\ rp' = [rp EXCEPT ![f] = ready[i].cid]
       /\ ready' = RemoveAt(ready, i)
       /\ warmed' = warmed \ {ready[i].cid}
  /\ fetch' = [fetch EXCEPT ![f] = "using"]
  /\ UNCHANGED <<backoff, loop, doomed, build, standing, unusedIds, nodeVars>>

\* rp_circuit with no circuit that suits: build one.
FetchBuilds(f) ==
  /\ fetch[f] = "idle"
  /\ Start(f)
  /\ fetch' = [fetch EXCEPT ![f] = "building"]
  /\ UNCHANGED <<poolVars, rp, loop, doomed, nodeVars>>

FetchBuilt(f) ==
  /\ fetch[f] = "building" /\ build[f] \in standing
  /\ fetch' = [fetch EXCEPT ![f] = "using"]
  /\ rp' = [rp EXCEPT ![f] = build[f]]
  /\ build' = [build EXCEPT ![f] = NoFetch]
  /\ UNCHANGED <<poolVars, loop, doomed, standing, unusedIds, nodeVars>>

\* The build times out and the fetch fails.
FetchTimesOut(f) ==
  /\ fetch[f] = "building"
  /\ fetch' = [fetch EXCEPT ![f] = "over"]
  /\ build' = [build EXCEPT ![f] = NoFetch]
  /\ UNCHANGED <<poolVars, rp, loop, doomed, standing, unusedIds, nodeVars>>

\* The fetch ends: torn down after an error, left standing after success.
FetchEnds(f, failed) ==
  /\ fetch[f] = "using"
  /\ fetch' = [fetch EXCEPT ![f] = "over"]
  /\ rp' = [rp EXCEPT ![f] = NoFetch]
  /\ standing' = IF failed THEN standing \ {rp[f]} ELSE standing
  /\ UNCHANGED <<poolVars, loop, doomed, build, unusedIds, nodeVars>>

-----------------------------------------------------------------------------
(* What happens to circuits, and time. *)

\* The guard destroys a circuit, or idle eviction does.  Nobody who holds
\* the id is told.
CircuitGone(c) ==
  /\ c \in standing
  /\ standing' = standing \ {c}
  /\ UNCHANGED <<poolVars, fetchVars, loop, doomed, build, unusedIds, nodeVars>>

\* The oldest circuits of the pool turn stale.
GoStale(i) ==
  /\ i \in DOMAIN ready /\ IsFresh(ready[i])
  /\ ready' = [j \in DOMAIN ready |-> [ready[j] EXCEPT !.stale = @ \/ j <= i]]
  /\ UNCHANGED <<backoff, warmed, fetchVars, loop, doomed, build, standing, unusedIds, nodeVars>>

BackoffEnds ==
  /\ backoff
  /\ backoff' = FALSE
  /\ UNCHANGED <<ready, warmed, fetchVars, loop, doomed, build, standing, unusedIds, nodeVars>>

\* new_identity: a new CircuitManager, with no circuits and its ids from the
\* first.  The pool keeps what it lists, and those who wait for a circuit or
\* use one keep its id.
PoolNewIdentity ==
  /\ standing' = {}
  /\ unusedIds' = PoolCids
  /\ renewed' = TRUE
  /\ UNCHANGED <<poolVars, fetchVars, loop, doomed, build, shutdown>>

\* PhiNode::shutdown.
Shutdown ==
  /\ ~ shutdown
  /\ shutdown' = TRUE
  /\ UNCHANGED <<poolVars, fetchVars, loop, doomed, build, standing, unusedIds, renewed>>

-----------------------------------------------------------------------------

LoopStep ==
  \/ LoopWakes \/ LoopDestroyed \/ \E c \in PoolCids : LoopDestroys(c)
  \/ LoopBuilds \/ LoopCannotBuild \/ LoopRests
  \/ LoopBuilt \/ LoopTimesOut \/ LoopLeaves

PoolNext ==
  \/ LoopStep
  \/ \E f \in Fetches : \/ FetchTakes(f) \/ FetchBuilds(f) \/ FetchBuilt(f)
                        \/ FetchTimesOut(f) \/ \E b \in BOOLEAN : FetchEnds(f, b)
  \/ \E c \in PoolCids : CircuitGone(c)
  \/ \E i \in 1 .. PoolTarget : GoStale(i)
  \/ BackoffEnds \/ PoolNewIdentity \/ Shutdown

PoolSpec == PoolInit /\ [][PoolNext]_poolRunVars

-----------------------------------------------------------------------------

PoolTypeOK ==
  /\ ready \in Seq([cid : PoolCids, stale : BOOLEAN]) /\ warmed \subseteq PoolCids
  /\ backoff \in BOOLEAN /\ renewed \in BOOLEAN /\ shutdown \in BOOLEAN
  /\ loop \in {"asleep", "retiring", "deciding", "building", "leaving", "closing", "gone"}
  /\ doomed \subseteq PoolCids
  /\ build \in [Builders -> PoolCids \cup {NoFetch}]
  /\ fetch \in [Fetches -> {"idle", "building", "using", "over"}]
  /\ rp \in [Fetches -> PoolCids \cup {NoFetch}]
  /\ standing \subseteq PoolCids /\ unusedIds \subseteq PoolCids

\* No two of those who hold circuits hold the same one.
HeldOnce ==
  /\ \A i, j \in DOMAIN ready : ready[i].cid = ready[j].cid => i = j
  /\ CidsOf(ready) \cap doomed = {}
  /\ \A f \in Fetches : rp[f] # NoFetch =>
       /\ rp[f] \notin CidsOf(ready) \cup doomed
       /\ \A g \in Fetches \ {f} : rp[g] # rp[f]
       /\ \A b \in Builders : build[b] # rp[f]
  /\ build[Loop] \notin CidsOf(ready) \cup doomed

(***************************************************************************)
(* A circuit has one owner: the pool, the loop that is about to destroy    *)
(* it, its builder, or one fetch.  Until the node takes a new identity,    *)
(* two fetches never share a rendezvous circuit, and none is destroyed     *)
(* under a fetch that took it.                                             *)
(***************************************************************************)
OneOwner == ~ renewed => HeldOnce

(***************************************************************************)
(* The pool never holds more than POOL_TARGET circuits, the one being      *)
(* built for it included, although wants_more is asked before the build    *)
(* is awaited and fetches take circuits meanwhile.                         *)
(***************************************************************************)
PoolWithinTarget ==
  Len(ready) + (IF loop = "building" THEN 1 ELSE 0) <= PoolTarget

(***************************************************************************)
(* Once the loop is gone no circuit that waited in the pool is open,       *)
(* except those a fetch took, whenever shutdown came (and no new identity  *)
(* did, which starts the ids over).                                        *)
(***************************************************************************)
WarmCircuitsClosed ==
  loop = "gone" /\ ~ renewed => warmed \cap standing = {}

\* Every circuit of the pool is accounted for: one owner, no more than the target, and
\* closed in the end.
CircuitsAccounted == OneOwner /\ PoolWithinTarget /\ WarmCircuitsClosed


(***************************************************************************)
(* A pooled circuit is "built, handshaked, and has never carried a stream" *)
(* (PooledCircuit): it is not one a fetch is using.                        *)
(***************************************************************************)
PooledIsUnused ==
  \A f \in Fetches : rp[f] # NoFetch => rp[f] \notin CidsOf(ready)
=============================================================================

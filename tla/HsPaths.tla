------------------------------ MODULE HsPaths ------------------------------
(***************************************************************************)
(* Which relays a circuit goes through: the selector of path_select.rs,    *)
(* and for the circuits of hidden services the layer-2 vanguard that       *)
(* build_hs_circuit puts in the place of the middle hop (vanguards.rs).    *)
(* Whether there is a link to the vanguard and whether the circuit comes up *)
(* are choices here; CircuitBuild models the building itself.              *)
(***************************************************************************)
EXTENDS Sifting, FiniteSets

CONSTANTS Hop,          \* the relays of the consensus
          Position,     \* the positions each is flagged for: a function to sets of positions
          Kbs,          \* the measured bandwidth of each
          Subnet,       \* subnet_key of the host of each
          Family,       \* the declared family of each, or Unaffiliated
          Unaffiliated,
          Self,         \* this node's own entry: the excluded id
          MaxLayer2, Layer2Life, Layer2MinLife, UnreachableFor,  \* vanguards.rs
          PathEnd       \* bound on the clock

ASSUME HsPathsAssumption ==
    /\ Position \in [Hop -> SUBSET {"guard", "middle", "exit"}] /\ Kbs \in [Hop -> Nat]
    /\ MaxLayer2 \in Nat \ {0} /\ Layer2Life \in Nat /\ Layer2MinLife \in 0..Layer2Life
    /\ UnreachableFor \in Nat /\ PathEnd \in Nat

VARIABLES vanguards,  \* Vanguards.entries: records id, added, used, failed (its file is written at every change)
          circuitPath, \* the last circuit: its hops, and who chose them: select_path
                       \* ("selected"), build_hs_circuit ("hs") or the operator ("given")
          pathNow,
          layer2      \* history: when each relay was last made a vanguard
pathVars == <<vanguards, circuitPath, pathNow, layer2>>

Never == PathEnd + 1      \* 0 for a time

-----------------------------------------------------------------------------
(* path_select. *)

\* eligible_for_position, less the excluded ids; every relay of the consensus is
\* running, valid, stable and fast here.
Eligible(position) == {h \in Hop \ {Self} : position \in Position[h] /\ Kbs[h] > 0}
SameFamily(g, h) == Family[g] # Unaffiliated /\ Family[g] = Family[h]
Compatible(g, h) == g # h /\ Subnet[g] # Subnet[h] /\ ~SameFamily(g, h)

MiddleFits(m, guard, exit) == Compatible(m, guard) /\ Compatible(m, exit)

\* select_path: the guard, or a pinned one, then the exit, then the middle.  The weights
\* of weighted_random_pick leave any candidate possible.
SelectPath(pinned) ==
    {<<guard, middle, exit>> : guard \in IF pinned = {} THEN Eligible("guard") ELSE pinned,
                               middle \in Eligible("middle"), exit \in Eligible("exit")}
Selected(path) == Compatible(path[1], path[3]) /\ MiddleFits(path[2], path[1], path[3])
Paths(pinned) == {path \in SelectPath(pinned) : Selected(path)}

-----------------------------------------------------------------------------
(* Vanguards. *)

ShouldRotate(v) == pathNow - v.added >= Layer2Life
\* Mutant: an unreachable vanguard leaves whatever its age.
ShouldRemove_young(v) == v.failed # Never /\ pathNow - v.failed >= UnreachableFor
ShouldRemoveUnreachable(v) ==
    v.failed # Never /\ pathNow - v.added >= Layer2MinLife /\ pathNow - v.failed >= UnreachableFor
Active(v) == ~ShouldRotate(v) /\ v.failed = Never

\* pick_layer2: the most recently used of the active ones (of equals, the last).
Picked(vs) ==
    LET active == SeqAt(vs, {i \in DOMAIN vs : Active(vs[i])})
        rank(v) == IF v.used = Never THEN 0 ELSE v.used + 1
    IN IF active = <<>> THEN {}
       ELSE {active[CHOOSE i \in 1..Len(active) : \A j \in 1..Len(active) :
                 rank(active[i]) > rank(active[j]) \/ (rank(active[i]) = rank(active[j]) /\ i >= j)].id}

\* add_candidate, and populate_vanguard around it.
Populated(vs, h) ==
    LET stays(v) == ~ShouldRotate(v) /\ ~ShouldRemoveUnreachable(v)
        kept == SeqAt(vs, {i \in DOMAIN vs : stays(vs[i])})
    IN IF \E i \in 1..Len(vs) : vs[i].id = h THEN vs
       ELSE IF Len(kept) >= MaxLayer2 THEN kept
       ELSE Append(kept, [id |-> h, added |-> pathNow, used |-> Never, failed |-> Never])
MarkUsed(vs, h) ==
    [i \in 1..Len(vs) |-> IF vs[i].id = h THEN [vs[i] EXCEPT !.used = pathNow, !.failed = Never] ELSE vs[i]]
MarkUnreachable(vs, hs) ==
    [i \in 1..Len(vs) |-> IF vs[i].id \in hs /\ vs[i].failed = Never THEN [vs[i] EXCEPT !.failed = pathNow] ELSE vs[i]]

\* The vanguards become vs.
Become(vs) ==
    /\ vanguards' = vs
    /\ layer2' = [h \in Hop |-> IF \E i \in 1..Len(vs) : vs[i].id = h /\ vs[i].added = pathNow
                                THEN layer2[h] \cup {pathNow} ELSE layer2[h]]

-----------------------------------------------------------------------------
\* auto_circuit, and the other callers of select_path.
BuildPlain(pinned) ==
    /\ \E path \in Paths(pinned) : circuitPath' = [kind |-> "selected", hops |-> path]
    /\ UNCHANGED <<vanguards, pathNow, layer2>>

\* The "build_circuit" command: the operator's own hops, checked for nothing but being
\* peers of this node.  Bound: two hops.
BuildGiven(peers) ==
    /\ \E n \in 1..2 : \E path \in [1..n -> peers] : circuitPath' = [kind |-> "given", hops |-> path]
    /\ UNCHANGED <<vanguards, pathNow, layer2>>

\* build_hs_circuit on a path of the selector, with a link to the vanguard or not, whose
\* circuit comes up or not.
BuildHs(path, linked, up) ==
    LET picked == Picked(vanguards) IN
    /\ path \in Paths({})
    /\ \/ /\ picked = {} \/ ~linked
          /\ Become(Populated(MarkUnreachable(vanguards, picked), path[2]))
          /\ circuitPath' = [kind |-> "hs", hops |-> path]
       \/ \E v \in picked :
          /\ linked
          /\ Become(IF up THEN MarkUsed(vanguards, v) ELSE MarkUnreachable(vanguards, {v}))
          /\ circuitPath' = [kind |-> "hs", hops |-> [path EXCEPT ![2] = v]]
    /\ UNCHANGED pathNow

\* vanguards_forget and vanguards_clear.
Forget(hs) ==
    /\ hs # {} /\ vanguards # <<>>
    /\ Become(MarkUnreachable(vanguards, hs))
    /\ UNCHANGED <<circuitPath, pathNow>>

PathTick ==
    /\ pathNow < PathEnd
    /\ pathNow' = pathNow + 1
    /\ UNCHANGED <<vanguards, circuitPath, layer2>>

PathInit ==
    /\ vanguards = <<>> /\ circuitPath = [kind |-> "selected", hops |-> <<>>]
    /\ pathNow = 0 /\ layer2 = [h \in Hop |-> {}]
PathNext ==
    \/ \E pinned \in {{}} \cup {{h} : h \in Eligible("guard")} : BuildPlain(pinned)
    \/ \E path \in Paths({}), linked, up \in BOOLEAN : BuildHs(path, linked, up)
    \/ BuildGiven(Hop \ {Self})
    \/ \E h \in Hop : Forget({h})
    \/ Forget(Hop)
    \/ PathTick
PathSpec == PathInit /\ [][PathNext]_pathVars

PathTypeOK ==
    LET Time == 0..Never IN
    /\ vanguards \in Seq([id : Hop, added : Time, used : Time, failed : Time])
    /\ Len(vanguards) <= MaxLayer2 /\ pathNow \in 0..PathEnd
    /\ circuitPath \in [kind : {"selected", "hs", "given"}, hops : Seq(Hop)] /\ layer2 \in [Hop -> SUBSET (0..PathEnd)]

\* However often links fail, circuits fail and the operator forgets vanguards, no more
\* than MaxLayer2 relays are made vanguards within the minimum lifetime of one
\* (LAYER2_MIN_LIFETIME, "prevents adversarial churn").
VanguardChurnBounded ==
    \A t \in 0..PathEnd :
        Cardinality({h \in Hop : \E a \in layer2[h] : t <= a /\ a < t + Layer2MinLife}) <= MaxLayer2

Diverse(path) ==
    \A i, j \in DOMAIN path : i # j => /\ path[i] # path[j] /\ Subnet[path[i]] # Subnet[path[j]]
                                       /\ ~SameFamily(path[i], path[j])

\* Whatever guard is pinned, the hops of a selected path are different relays of
\* different networks and operators.
PathIsDiverse == circuitPath.kind # "selected" \/ Diverse(circuitPath.hops)

\* What a path may use: vanguards that churn slowly, and hops that are apart.
PathsHold == VanguardChurnBounded /\ PathIsDiverse
=============================================================================

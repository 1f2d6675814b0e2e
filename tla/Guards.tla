------------------------------- MODULE Guards -------------------------------
(***************************************************************************)
(* The guards of a node: the sample of relays it is ever willing to enter  *)
(* the network through (guard_sample.rs), the short list it keeps links to *)
(* (guards.rs), their files, and the loop of node.rs that maintains both   *)
(* from the consensus once a minute and redials every relay it has lost.   *)
(*                                                                         *)
(* The clock counts in days; retry intervals, far shorter, are not told    *)
(* apart.  A relay is its node id; hosts and ports follow from it.         *)
(***************************************************************************)
EXTENDS Naturals, Sequences, FiniteSets, SequencesExt

CONSTANTS Relay,         \* the relays
          SampleSize,    \* guard_sample::SAMPLE_SIZE
          MinFiltered,   \* guard_sample::MIN_FILTERED
          PrimaryCount,  \* guard_sample::PRIMARY_COUNT
          MaxGuards,     \* guards::MAX_GUARDS
          SampleLife,    \* SAMPLE_LIFETIME_SECS
          GuardLife,     \* GUARD_LIFETIME
          DropAfter,     \* GUARD_UNREACHABLE_BEFORE_DROP
          TornWrites,    \* whether a crash may catch the sample's file half written
          MaxChanges,    \* bound: changes of the network, and restarts
          GuardEnd       \* bound on the clock

ASSUME GuardsAssumption ==
    /\ SampleSize \in Nat \ {0} /\ MinFiltered \in Nat /\ PrimaryCount \in Nat \ {0} /\ MaxGuards \in Nat \ {0}
    /\ SampleLife \in Nat /\ GuardLife \in Nat /\ DropAfter \in Nat /\ TornWrites \in BOOLEAN
    /\ MaxChanges \in Nat /\ GuardEnd \in Nat

VARIABLES listed,     \* the relays of the cached consensus
          answering,  \* the relays that can be reached
          links,      \* PhiNode.peers
          sample,     \* SampledSet.guards: records id, added, confirmed
          sampleFile, \* what guard_sample's file holds
          entries,    \* GuardManager.entries: records id, seen, unreachable, confirmed
          guardFile,  \* guards.json
          guardNow, changes
guardVars == <<listed, answering, links, sample, sampleFile, entries, guardFile, guardNow, changes>>

Unset == GuardEnd + 1       \* None for a time
IdsOf(list) == {list[i].id : i \in 1..Len(list)}

-----------------------------------------------------------------------------
(* SampledSet. *)

\* expire.
Expired(s) == LET kept(g) == guardNow - g.added <= SampleLife IN SelectSeq(s, kept)
\* filtered.
Filtered(s) == LET live(g) == g.id \in listed IN SelectSeq(s, live)

\* maybe_extend: nothing is drawn while enough of the sample is usable; otherwise
\* fresh ids, in any order, until the sample is full or the pool is empty.
Draws(s) ==
    LET kept == Expired(s)
        pool == listed \ IdsOf(kept)
        room == IF SampleSize > Len(kept) THEN SampleSize - Len(kept) ELSE 0
        count == IF Cardinality(pool) < room THEN Cardinality(pool) ELSE room
    IN IF Len(Filtered(kept)) >= MinFiltered /\ kept # <<>> THEN {<<>>}
       ELSE {d \in UNION {[1..n -> pool] : n \in 0..count} : Len(d) = count /\ Cardinality(Range(d)) = count}
Extended(s, drawn) ==
    Expired(s) \o [i \in 1..Len(drawn) |-> [id |-> drawn[i], added |-> guardNow, confirmed |-> Unset]]

\* confirm: the first success only.
Confirmed(s, r) ==
    [i \in 1..Len(s) |-> IF s[i].id = r /\ s[i].confirmed = Unset THEN [s[i] EXCEPT !.confirmed = guardNow] ELSE s[i]]

\* primary: the confirmed of the usable, oldest confirmation first, then the others.
Primary(s) ==
    LET isConfirmed(g) == g.confirmed # Unset
        isNot(g) == g.confirmed = Unset
        earlier(g, h) == g.confirmed <= h.confirmed
        ranked == SortSeq(SelectSeq(Filtered(s), isConfirmed), earlier) \o SelectSeq(Filtered(s), isNot)
    IN {ranked[i].id : i \in 1..(IF Len(ranked) < PrimaryCount THEN Len(ranked) ELSE PrimaryCount)}

-----------------------------------------------------------------------------
(* GuardManager. *)

ShouldRetire(g) ==
    \/ guardNow - g.seen >= GuardLife
    \/ g.unreachable # Unset /\ guardNow - g.unreachable >= DropAfter

\* add_candidate: retired entries make room, but only for a relay not yet in the list.
AddCandidate(es, r) ==
    LET stays(g) == ~ShouldRetire(g)
        kept == SelectSeq(es, stays)
    IN IF r \in IdsOf(es) THEN es
       ELSE IF Len(kept) >= MaxGuards THEN kept
       ELSE Append(kept, [id |-> r, seen |-> guardNow, unreachable |-> Unset, confirmed |-> FALSE])

MarkSuccess(es, r) ==
    [i \in 1..Len(es) |-> IF es[i].id = r THEN [es[i] EXCEPT !.unreachable = Unset, !.confirmed = TRUE] ELSE es[i]]
MarkFailure(es, r) ==
    [i \in 1..Len(es) |-> IF es[i].id = r /\ es[i].unreachable = Unset
                          THEN [es[i] EXCEPT !.unreachable = guardNow] ELSE es[i]]
RetainIds(es, keep) == LET kept(g) == g.id \in keep IN SelectSeq(es, kept)

-----------------------------------------------------------------------------
(* node.rs. *)

\* register_peer: every peer is offered as a guard, the list is saved.
Registered(es, r) == MarkSuccess(AddCandidate(es, r), r)

\* maintain_guards_from_consensus: guards the consensus no longer lists go, the
\* sample is extended and saved, its primary guards are offered, and each guard
\* without a link is dialled.
Offered(es) ==
    LET inOrder == SetToSeq(Primary(sample') \cap listed) IN FoldLeft(AddCandidate, es, inOrder)
Dialled(es) ==
    [i \in 1..Len(es) |->
        IF es[i].id \in links THEN MarkSuccess(es, es[i].id)[i]
        ELSE IF ShouldRetire(es[i]) THEN es[i]
        ELSE IF es[i].id \in answering THEN MarkSuccess(es, es[i].id)[i]
        ELSE MarkFailure(es, es[i].id)[i]]
\* GuardManager::save, which renames the new file into place.
SaveGuards == guardFile' = entries'
\* save_guard_sample.
SaveSample == sampleFile' = sample'
MaintainFrom(es) ==
    /\ \E drawn \in Draws(sample) :
        /\ sample' = Extended(sample, drawn)
        /\ IF drawn # <<>> THEN SaveSample ELSE UNCHANGED sampleFile
    /\ LET offered == Offered(RetainIds(es, listed))
           tried == {g \in Range(offered) : ~ShouldRetire(g)}
       IN /\ entries' = Dialled(offered)
          /\ links' = links \cup ({g.id : g \in tried} \cap answering)
    /\ SaveGuards
MaintainGuards ==
    /\ listed # {}
    /\ MaintainFrom(entries)
    /\ UNCHANGED <<listed, answering, guardNow, changes>>

\* maintain_links_from_consensus, for one relay: any relay of the consensus that
\* answers is linked again, guard or not.  Mutant: guards still in use only.
Redials_guards(r) == r \in listed /\ \E g \in Range(entries) : g.id = r /\ ~ShouldRetire(g)
Redials(r) == r \in listed
Relink(r) ==
    /\ Redials(r) /\ r \notin links /\ r \in answering
    /\ links' = links \cup {r}
    /\ entries' = Registered(entries, r) /\ SaveGuards
    /\ UNCHANGED <<listed, answering, sample, sampleFile, guardNow, changes>>

\* handle_inbound: a node that dials us.
PeerDials(r) ==
    /\ r \notin links /\ r \in answering /\ changes < MaxChanges
    /\ changes' = changes + 1
    /\ links' = links \cup {r}
    /\ entries' = Registered(entries, r) /\ SaveGuards
    /\ UNCHANGED <<listed, answering, sample, sampleFile, guardNow>>

\* reap_dead_peers: a silent peer counts as a failed guard.
GuardReaped(r) ==
    /\ r \in links \ answering
    /\ links' = links \ {r} /\ entries' = MarkFailure(entries, r)
    /\ UNCHANGED <<listed, answering, sample, sampleFile, guardFile, guardNow, changes>>

\* The reader task's end: no failure is noted.
GuardLinkEnds(r) ==
    /\ r \in links /\ changes < MaxChanges
    /\ changes' = changes + 1
    /\ links' = links \ {r}
    /\ UNCHANGED <<listed, answering, sample, sampleFile, entries, guardFile, guardNow>>

\* build_circuit's end: confirm_guard for the first hop.
CircuitCompletes(r) ==
    /\ r \in links \cap answering
    /\ sample' = Confirmed(sample, r) /\ sampleFile' = sample'
    /\ UNCHANGED <<listed, answering, links, entries, guardFile, guardNow, changes>>

\* new_identity: every guard is retired, then the maintenance runs.
GuardNewIdentity ==
    /\ changes < MaxChanges /\ listed # {}
    /\ changes' = changes + 1
    /\ MaintainFrom(RetainIds(entries, {}))
    /\ UNCHANGED <<listed, answering, guardNow>>

\* load_guard_sample.  The sample is written in place, so a crash may leave a file
\* that does not parse, which counts as none.
LoadGuardSample ==
    /\ sampleFile' \in {sampleFile} \cup (IF TornWrites THEN {<<>>} ELSE {})
    /\ sample' = sampleFile'
\* GuardManager::open.
NodeRestart ==
    /\ changes < MaxChanges
    /\ changes' = changes + 1
    /\ links' = {} /\ entries' = guardFile
    /\ LoadGuardSample
    /\ UNCHANGED <<listed, answering, guardFile, guardNow>>

ConsensusChanges(r) ==
    /\ changes < MaxChanges
    /\ changes' = changes + 1
    /\ listed' = (listed \cup {r}) \ (listed \cap {r})
    /\ UNCHANGED <<answering, links, sample, sampleFile, entries, guardFile, guardNow>>
RelayChanges(r) ==
    /\ changes < MaxChanges
    /\ changes' = changes + 1
    /\ answering' = (answering \cup {r}) \ (answering \cap {r})
    /\ UNCHANGED <<listed, links, sample, sampleFile, entries, guardFile, guardNow>>
GuardTick ==
    /\ guardNow < GuardEnd
    /\ guardNow' = guardNow + 1
    /\ UNCHANGED <<listed, answering, links, sample, sampleFile, entries, guardFile, changes>>

GuardInit ==
    /\ listed = Relay /\ answering = Relay /\ links = {}
    /\ sample = <<>> /\ sampleFile = <<>> /\ entries = <<>> /\ guardFile = <<>>
    /\ guardNow = 0 /\ changes = 0

GuardNext ==
    \/ MaintainGuards \/ GuardNewIdentity \/ NodeRestart \/ GuardTick
    \/ \E r \in Relay : Relink(r)
    \/ \E r \in Relay : PeerDials(r)
    \/ \E r \in Relay : GuardReaped(r)
    \/ \E r \in Relay : GuardLinkEnds(r)
    \/ \E r \in Relay : CircuitCompletes(r)
    \/ \E r \in Relay : ConsensusChanges(r)
    \/ \E r \in Relay : RelayChanges(r)

GuardFairness == /\ WF_guardVars(MaintainGuards) /\ \A r \in Relay : WF_guardVars(Relink(r))
GuardSpec == GuardInit /\ [][GuardNext]_guardVars /\ GuardFairness

GuardTypeOK ==
    LET Time == 0..Unset
        Sampled == [id : Relay, added : Time, confirmed : Time]
        Entry == [id : Relay, seen : Time, unreachable : Time, confirmed : BOOLEAN]
    IN /\ sample \in Seq(Sampled) /\ sampleFile \in Seq(Sampled) /\ entries \in Seq(Entry) /\ guardFile \in Seq(Entry)
       /\ listed \subseteq Relay /\ answering \subseteq Relay /\ links \subseteq Relay
       /\ Len(entries) <= MaxGuards /\ Len(sample) <= SampleSize

\* A guard that is in the consensus and answers gets its link back, even one
\* the list has given up: an entry past its lifetime or unreachable for a day
\* is never dialled as a guard again, and stays in the list while every primary
\* guard is in it.
GuardIsRelinked ==
    \A r \in Relay :
        []<>(r \in IdsOf(entries) \cap listed \cap answering => r \in links)
=============================================================================

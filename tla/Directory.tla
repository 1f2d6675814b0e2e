------------------------------ MODULE Directory ------------------------------
(* How the network's relay list is agreed: once a period each authority      *)
(* scans the relays, votes, merges the votes it was sent, and signs; enough  *)
(* signatures over one document make a consensus, which nodes load from a    *)
(* file or from each other. Votes also carry the commit-and-reveal protocol  *)
(* that makes the shared random value. Every tool is a process of its own:   *)
(* it may be run again, late, over old files, or die before it writes.       *)
EXTENDS Naturals, Sequences, FiniteSets, FiniteSetsExt, SequencesExt, Sifting

CONSTANTS Authority, DirRelay, Node,
          Host,      \* addresses a relay may have, as numbers: their order decides ties
          Genesis,   \* authority -> the relays it is first given, with their addresses
          Speeds,    \* authority -> bandwidths its probes may measure, 0 a failure
          Passes,    \* ScanConfig.passes
          Epoch,     \* EPOCH_SECS, in ticks
          Window,    \* vote_window_secs, in ticks
          End,       \* bound: the last tick
          MaxDraws   \* bound: random contributions an authority draws

ASSUME DirectoryAssumption ==
    /\ Host \subseteq Nat /\ Passes \in Nat \ {0}
    /\ Epoch \in Nat \ {0} /\ Window \in Nat /\ End \in Nat /\ MaxDraws \in Nat
    /\ IsFiniteSet(Authority) /\ Speeds \in [Authority -> SUBSET Nat]
    /\ Genesis \in [Authority -> UNION {[R -> Host] : R \in SUBSET DirRelay}]

VARIABLES
    now,
    pending,  \* authority -> its srv_pending.json, and how often it drew
    votes,    \* authority -> set of at most one: its vote file
    drafts,   \* authority -> set of at most one: what it merged, and from what
    file,     \* set of at most one [doc, sigs]: the consensus file handed out
    cached    \* node -> set of at most one [doc, sigs]: cached_consensus

dirVars == <<now, pending, votes, drafts, file, cached>>

Flag == {"STABLE",   \* and VALID, FAST: what a scan never takes away
         "RUNNING"}  \* and GUARD, EXIT: what an unreachable relay loses

Period == now \div Epoch

DirInit ==
    /\ now = 0
    /\ pending = [a \in Authority |-> [period |-> 0, value |-> 0, next |-> 0, drawn |-> 0]]
    /\ votes = [a \in Authority |-> {}] /\ drafts = [a \in Authority |-> {}]
    /\ file = {} /\ cached = [n \in Node |-> {}]

(************************** An authority's vote ****************************)

\* The element in the middle of a sorted list: the smallest that more than half of the
\* list does not exceed.
Median(items) ==
    Min({x \in Range(items) : Cardinality({i \in DOMAIN items : items[i] <= x}) > Len(items) \div 2})

\* median_measurement: one failed pass is a failure.
MedianMeasurement(samples) ==
    IF 0 \in Range(samples) THEN 0 ELSE Median(samples)

\* Scanner::run, of one entry of the list it scans.
Scanned(entry, bw) ==
    [entry EXCEPT !.bw = bw,
                  !.flags = IF bw > 0 THEN @ \union Flag ELSE @ \ {"RUNNING"}]

\* Mutant: state that rolls forward on every run, as an earlier version did.
Advanced_always(st, p) ==
    [st EXCEPT !.value = st.next, !.next = 0, !.period = p]
\* srv_contribution: only the clock rolls the state forward.
Advanced(st, p) ==
    IF p <= st.period THEN st
    ELSE [st EXCEPT !.value = IF p = st.period + 1 THEN st.next ELSE 0,
                    !.next = 0, !.period = p]

\* ... and a value is drawn for the next period unless there is one.
Drawn(st) ==
    IF st.next # 0 THEN st ELSE [st EXCEPT !.next = st.drawn + 1, !.drawn = @ + 1]

Contribution(a) == Drawn(Advanced(pending[a], Period))

\* shared_random: a commitment binds its period and its value.
Commit(value, period) == <<period, value>>
CheckReveal(value, period, commitment) == Commit(value, period) = commitment

\* The list a scan reads: the one the authority began with, or the consensus.
Lists(a) ==
    {[r \in DOMAIN Genesis[a] |-> [host |-> Genesis[a][r], flags |-> {}, bw |-> 1]]}
      \union {f.doc.peers : f \in file}

\* vote_with_srv.
Vote(a, list, bw) ==
    LET st == Contribution(a) IN
    [after  |-> Period * Epoch,
     until  |-> Period * Epoch + Epoch + Window,
     peers  |-> [r \in DOMAIN list |-> Scanned(list[r], bw[r])],
     commit |-> Commit(st.next, Period + 1),
     reveal |-> IF st.period = Period THEN st.value ELSE 0]

\* measure_all, with the three passes of each relay.
Measured(a, list) ==
    [DOMAIN list -> {MedianMeasurement(s) : s \in [1 .. Passes -> Speeds[a]]}]

\* `scan`: the state is written first, and the run may die before the vote is.
Scan(a) ==
    /\ Contribution(a).drawn <= MaxDraws
    /\ pending' = [pending EXCEPT ![a] = Contribution(a)]
    /\ \/ UNCHANGED votes
       \/ \E list \in Lists(a) : \E bw \in Measured(a, list) :
            votes' = [votes EXCEPT ![a] = {Vote(a, list, bw)}]
    /\ UNCHANGED <<now, drafts, file, cached>>

(************************** Merging and signing ****************************)

Counted(items, x) == Cardinality({i \in DOMAIN items : items[i] = x})

\* Mutant: the first of the most reported.
MajorityOrMin_first(items) ==
    items[Min({i \in DOMAIN items : \A j \in DOMAIN items :
                 Counted(items, items[i]) >= Counted(items, items[j])})]
\* majority_or_min: the smallest of the most reported.
MajorityOrMin(items) ==
    Min({x \in Range(items) : \A y \in Range(items) : Counted(items, x) >= Counted(items, y)})

\* build_consensus_inner, of the observations of one relay, in the votes' order.
Merged(obs) ==
    LET n == Len(obs) IN
    [host  |-> MajorityOrMin([i \in 1 .. n |-> obs[i].host]),
     bw    |-> Median([i \in 1 .. n |-> obs[i].bw]),
     flags |-> {f \in Flag : Cardinality({i \in 1 .. n : f \in obs[i].flags}) >= (n + 1) \div 2}]

Observations(vs, r) ==
    LET seen == SeqAt(vs, {i \in DOMAIN vs : r \in DOMAIN vs[i].peers})
    IN  [i \in DOMAIN seen |-> seen[i].peers[r]]

\* build_consensus_with_srv: reveals that match what the previous consensus
\* committed to; none when fewer than two do. Sets, since compute_srv sorts.
Reveals(from, order, prev) ==
    {<<a, from[a].reveal>> : a \in {x \in Range(order) :
        from[x].reveal # 0 /\ \E p \in prev : \E c \in p.commits :
            c[1] = x /\ CheckReveal(from[x].reveal, Period, c[2])}}

BuildConsensus(from, order, prev) ==
    LET vs == [i \in DOMAIN order |-> from[order[i]]]
        rs == Reveals(from, order, prev)
    IN  [after   |-> Max({v.after : v \in Range(vs)}),
         until   |-> Min({v.until : v \in Range(vs)}),
         peers   |-> [r \in UNION {DOMAIN v.peers : v \in Range(vs)} |-> Merged(Observations(vs, r))],
         srv     |-> IF Cardinality(rs) >= 2 THEN <<Period, rs>> ELSE <<>>,
         commits |-> {<<a, from[a].commit>> : a \in Range(order)}]

\* run_merge: usable as the previous consensus is only the last period's.
PrevOk(doc) == doc.after \div Epoch + 1 = Period

\* What an operator may hand over as the previous consensus.
Previous == {{}} \union {{f.doc} : f \in {x \in file : PrevOk(x.doc)}}

Voters == {x \in Authority : votes[x] # {}}
VotesAtHand == [x \in Voters |-> CHOOSE v \in votes[x] : TRUE]

\* `merge-votes`, over the votes at hand, in any order; it signs what it built.
Merge(a) ==
    \E order \in SetToSeqs(Voters) : \E prev \in Previous :
        /\ Voters # {}
        /\ drafts' = [drafts EXCEPT ![a] = {BuildConsensus(VotesAtHand, order, prev)}]
        /\ UNCHANGED <<now, pending, votes, file, cached>>

\* `combine-consensus`: the documents must be the same but for signatures.
\* Bound: the inputs are not combined a second time, nor in a later period.
Combine ==
    \E G \in SUBSET Authority : \E d \in UNION {drafts[a] : a \in G} :
        /\ \A a \in G : drafts[a] = {d}
        /\ file' = {[doc |-> d, sigs |-> G]}
        /\ drafts' = [a \in Authority |-> {}]
        /\ UNCHANGED <<now, pending, votes, cached>>

\* `sign-consensus`: whatever the file says.
SignConsensus(a) ==
    /\ \E f \in file : a \notin f.sigs /\ file' = {[f EXCEPT !.sigs = @ \union {a}]}
    /\ UNCHANGED <<now, pending, votes, drafts, cached>>

(****************************** A node's copy ******************************)

\* Two thirds of the authorities, rounded up.
ThresholdFor(n) == (2 * n + 2) \div 3

\* Signatures cover all of a document but themselves, and so does its hash.
Canonical(c) == c.doc

\* verify_consensus, with every authority trusted.
VerifyConsensus(c) ==
    /\ c.doc.after <= now /\ now <= c.doc.until
    /\ Cardinality(c.sigs \intersect Authority) >= ThresholdFor(Cardinality(Authority))

\* refresh_loop_path, refresh_loop_urls and consensus_load: from the file, or from
\* another node, which serves whatever it holds (handle_consensus_http).
Sources(n) == file \union UNION {cached[m] : m \in Node \ {n}}

\* install_consensus: swapped for any other that verifies.
InstallConsensus(n) ==
    /\ \E c \in Sources(n) :
          /\ VerifyConsensus(c) /\ {Canonical(x) : x \in cached[n]} # {Canonical(c)}
          /\ cached' = [cached EXCEPT ![n] = {c}]
    /\ UNCHANGED <<now, pending, votes, drafts, file>>

NodeRestarts(n) ==
    /\ cached[n] # {} /\ cached' = [cached EXCEPT ![n] = {}]
    /\ UNCHANGED <<now, pending, votes, drafts, file>>

DirTick ==
    /\ now < End /\ now' = now + 1
    /\ drafts' = IF now' % Epoch = 0 THEN [a \in Authority |-> {}] ELSE drafts
    /\ UNCHANGED <<pending, votes, file, cached>>

DirNext ==
    \/ \E a \in Authority : Scan(a) \/ Merge(a) \/ SignConsensus(a)
    \/ Combine \/ DirTick
    \/ \E n \in Node : InstallConsensus(n) \/ NodeRestarts(n)

DirSpec == DirInit /\ [][DirNext]_dirVars

---------------------------------------------------------------------------
Entry == [host : Host, flags : SUBSET Flag, bw : UNION Range(Speeds)]

DirTypeOK ==
    /\ now \in 0 .. End
    /\ \A a \in Authority :
          /\ pending[a].drawn \in 0 .. MaxDraws /\ pending[a].next \in 0 .. pending[a].drawn
          /\ \A v \in votes[a] : Range(v.peers) \subseteq Entry
          /\ \A d \in drafts[a] : Range(d.peers) \subseteq Entry
    /\ \A n \in Node : Cardinality(cached[n]) <= 1

\* Authorities that merge the same votes, with the same previous consensus, hold
\* the same document however the files are ordered (directory.rs:688-706).
AuthoritiesAgree ==
    Voters # {} => \A prev \in Previous :
        Cardinality({BuildConsensus(VotesAtHand, order, prev) : order \in SetToSeqs(Voters)}) = 1

\* What an authority reveals is what the last consensus has it committed to,
\* however often it was run in either period and wherever it died.
CommitmentHonoured ==
    \A a \in Authority : \A v \in votes[a] : \A f \in file : \A c \in f.doc.commits :
        c[1] = a /\ c[2][1] * Epoch = v.after
            => c[2][2] = v.reveal

\* Any two lists of one period, a node's own or one it would take, were signed by
\* one authority at least that signed both.
ListsShareASigner ==
    \A n \in Node : \A c \in cached[n], d \in Sources(n) :
        VerifyConsensus(d) /\ c.doc.after = d.doc.after => c.sigs \intersect d.sigs # {}

\* Authorities agree on a document, and nodes hold documents of authorities that agree.
DirectoriesAgree == AuthoritiesAgree /\ ListsShareASigner
===========================================================================

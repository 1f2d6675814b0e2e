--------------------------- MODULE ConsensusFetch ---------------------------
(* A node's refresh loop: where it looks for a consensus and when. Sources   *)
(* go down, serve what does not verify, or redirect; the loop tries them in  *)
(* order, quickly while the node has none and slowly once it has one.        *)
EXTENDS Naturals, Sequences, Functions

CONSTANTS
    Urls,         \* the configured sources, in order
    Site,         \* every URL a source may be or redirect to
    MaxRedirects, \* MAX_REDIRECTS
    Cold, ColdMax, Refresh, Retry, \* the waits, in ticks
    Life          \* ticks for which a consensus is valid

ASSUME ConsensusFetchAssumption ==
    /\ Urls \in Seq(Site) /\ Urls # <<>> /\ MaxRedirects \in Nat
    /\ {Cold, ColdMax, Refresh, Retry, Life} \subseteq Nat \ {0}

VARIABLES
    site,     \* URL -> what it answers: "down", "junk", "good" or another URL
    at,       \* "start", "cold", "warm", "failed" or "ended"
    wait,     \* ticks the loop still sleeps
    backoff,  \* the cold wait
    age,      \* ticks since a consensus was last installed, up to Life: none
    stopping  \* is_shutting_down

fetchLoopVars == <<site, at, wait, backoff, age, stopping>>

Answer == {"down", "junk", "good"}

FetchInit ==
    /\ site \in [Site -> Answer] /\ at = "start" /\ wait = 0 /\ backoff = Cold
    /\ age = Life /\ stopping = FALSE

\* http_get: up to MAX_REDIRECTS redirects; one more is an error, and so is a bad
\* status, a body that is too long or ends early, or a minute without an end.
HttpGet(u) ==
    LET hop[k \in 0 .. MaxRedirects] ==
          IF k = 0 THEN u
          ELSE IF site[hop[k - 1]] \in Answer THEN hop[k - 1] ELSE site[hop[k - 1]]
    IN  site[hop[MaxRedirects]]

\* try_fetch_url and try_load_path: fetched, parsed and verified.
TryFetchUrl(u) == HttpGet(u) = "good"

\* Mutant: an error ends the round.
TryFetchAny_first == TryFetchUrl(Urls[1])
\* try_fetch_any: the first that works.
TryFetchAny == \E i \in DOMAIN Urls : TryFetchUrl(Urls[i])

Installed == age' = 0

\* The first attempt is at all the sources' names joined by commas.
FirstFetch ==
    /\ at = "start"
    /\ IF Len(Urls) = 1 /\ TryFetchUrl(Urls[1])
       THEN at' = "warm" /\ wait' = Refresh /\ Installed
       ELSE at' = "cold" /\ wait' = Cold /\ UNCHANGED age
    /\ UNCHANGED <<site, backoff, stopping>>

\* Both loops look at the shutdown flag when they wake.
ColdFetch ==
    /\ at = "cold" /\ wait = 0
    /\ IF stopping THEN at' = "ended" /\ UNCHANGED <<wait, backoff, age>>
       ELSE IF TryFetchAny THEN at' = "warm" /\ wait' = Refresh /\ Installed /\ UNCHANGED backoff
       ELSE /\ backoff' = (IF 2 * backoff < ColdMax THEN 2 * backoff ELSE ColdMax)
            /\ wait' = backoff' /\ UNCHANGED <<at, age>>
    /\ UNCHANGED <<site, stopping>>

WarmFetch ==
    /\ at = "warm" /\ wait = 0
    /\ IF stopping THEN at' = "ended" /\ UNCHANGED <<wait, age>>
       ELSE IF TryFetchAny THEN wait' = Refresh /\ Installed /\ UNCHANGED at
       ELSE at' = "failed" /\ wait' = Retry /\ UNCHANGED age
    /\ UNCHANGED <<site, backoff, stopping>>

\* After the wait that follows a failure comes the one that follows a success.
RetryWaited ==
    /\ at = "failed" /\ wait = 0
    /\ at' = (IF stopping THEN "ended" ELSE "warm") /\ wait' = (IF stopping THEN 0 ELSE Refresh)
    /\ UNCHANGED <<site, backoff, age, stopping>>

FetchTick ==
    /\ wait > 0 /\ wait' = wait - 1
    /\ age' = IF age < Life THEN age + 1 ELSE age
    /\ UNCHANGED <<site, at, backoff, stopping>>

\* The consensus_load command: the operator's own file, if it verifies.
ConsensusLoad ==
    /\ ~stopping /\ Installed
    /\ UNCHANGED <<site, at, wait, backoff, stopping>>

SiteChanges ==
    /\ \E u \in Site : \E a \in Answer \union (Site \ {u}) : site' = [site EXCEPT ![u] = a]
    /\ UNCHANGED <<at, wait, backoff, age, stopping>>

FetchStops ==
    /\ ~stopping /\ stopping' = TRUE
    /\ UNCHANGED <<site, at, wait, backoff, age>>

FetchLoopStep == FirstFetch \/ ColdFetch \/ WarmFetch \/ RetryWaited \/ FetchTick

FetchNext == FetchLoopStep \/ ConsensusLoad \/ SiteChanges \/ FetchStops

\* The task is scheduled, and time passes.
FetchFairness == WF_fetchLoopVars(FetchLoopStep)
FetchSpec == FetchInit /\ [][FetchNext]_fetchLoopVars /\ FetchFairness

---------------------------------------------------------------------------
FetchTypeOK ==
    /\ site \in [Site -> Answer \union Site] /\ at \in {"start", "cold", "warm", "failed", "ended"}
    /\ wait \in 0 .. Refresh + Retry + ColdMax /\ backoff \in Cold .. ColdMax
    /\ age \in 0 .. Life /\ stopping \in BOOLEAN

\* While one source answers, whichever it is and whatever the others do, a node
\* that runs comes to have a valid consensus, and to keep one.
NodeStaysCurrent ==
    \A i \in DOMAIN Urls :
        <>[](~stopping /\ site[Urls[i]] = "good") => <>[](age < Life)
===========================================================================

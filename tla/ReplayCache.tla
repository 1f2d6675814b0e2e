---------------------------- MODULE ReplayCache ----------------------------
(* replay.rs: the ids a node has processed, kept in memory and in an         *)
(* append-only log that is read again, and if long rewritten, at start. The  *)
(* reader tasks of the node's links mark ids concurrently; each mark inserts *)
(* under one lock and appends under another. The process may die anywhere.   *)
EXTENDS Naturals, Sequences, FiniteSets

CONSTANTS ReplayId,     \* ids: gossip keys and hidden services
          ReplayTTL,    \* default_ttl, in ticks
          ReplayMax,    \* REPLAY_MAX_ENTRIES
          CompactLines, \* REPLAY_COMPACT_LINES
          LogBound,     \* bound: lines of the log
          ReplayEnd,    \* bound: the last tick
          ReplayCrashes \* bound: deaths of the process

ASSUME ReplayAssumption ==
    /\ IsFiniteSet(ReplayId) /\ ReplayTTL \in Nat \ {0} /\ ReplayMax \in Nat \ {0}
    /\ CompactLines \in Nat /\ LogBound \in Nat /\ ReplayEnd \in Nat \ {0} /\ ReplayCrashes \in Nat

VARIABLES
    seenUntil,  \* entries: id -> expiry, 0 when absent
    replayLog,  \* the lines of the file: [id, exp, good]
    unended,    \* the last line has no newline yet
    appends,    \* lines whose insertion is done and whose append is not
    logState,   \* "up", "down", or "compact" (open() about to rewrite the log)
    replayNow, replayDeaths,
    owedUntil,       \* expiry of the last acceptance of each id
    excused,    \* ids the cache may forget: dropped when full, or unwritten at a death
    glued,      \* ids lost because a line was appended to an unended one
    accepted2   \* ids accepted again while still owed, and whether glued

replayVars == <<seenUntil, replayLog, unended, appends, logState, replayNow,
                replayDeaths, owedUntil, excused, glued, accepted2>>

Expiries == 0 .. ReplayEnd + ReplayTTL
Line == [id : ReplayId, exp : Expiries, good : BOOLEAN]
Present(entries) == {i \in ReplayId : entries[i] # 0}
Live(entries) == {i \in ReplayId : entries[i] > replayNow}
WithoutIds(entries, ids) == [i \in ReplayId |-> IF i \in ids THEN 0 ELSE entries[i]]
SetSeen(ids) == [i \in ReplayId |-> IF i \in ids THEN seenUntil[i] ELSE 0]

ReplayInit ==
    /\ seenUntil = [i \in ReplayId |-> 0] /\ owedUntil = [i \in ReplayId |-> 0]
    /\ replayLog = <<>> /\ unended = FALSE /\ appends = {} /\ logState = "up"
    /\ replayNow = 1 /\ replayDeaths = 0
    /\ excused = {} /\ glued = {} /\ accepted2 = {}

\* What mark drops to make room: the expired, and if that is not enough one
\* tenth (here one) of the rest, soonest to expire first.
Dropped ==
    IF Cardinality(Present(seenUntil)) < ReplayMax THEN {{}}
    ELSE LET old == Present(seenUntil) \ Live(seenUntil)
         IN  IF Cardinality(Live(seenUntil)) < ReplayMax THEN {old}
             ELSE {old \union {i} : i \in {j \in Live(seenUntil) :
                      \A k \in Live(seenUntil) : seenUntil[j] <= seenUntil[k]}}

\* mark: a live entry means a replay; otherwise the id is new and is inserted.
Mark(id) ==
    /\ logState = "up" /\ Len(replayLog) + Cardinality(appends) < LogBound
    /\ \E drop \in Dropped :
         LET kept == WithoutIds(seenUntil, drop)
             lost == (drop \intersect Live(seenUntil)) \ {id}
             exp  == replayNow + ReplayTTL
         IN IF kept[id] > replayNow
            THEN /\ seenUntil' = kept /\ excused' = excused \union lost
                 /\ UNCHANGED <<appends, owedUntil, glued, accepted2>>
            ELSE /\ seenUntil' = [kept EXCEPT ![id] = exp]
                 /\ appends' = appends \union {[id |-> id, exp |-> exp, good |-> TRUE]}
                 /\ owedUntil' = [owedUntil EXCEPT ![id] = exp]
                 /\ accepted2' = IF /\ owedUntil[id] > replayNow
                                    /\ id \notin excused \union drop
                                 THEN accepted2 \union {<<id, id \in glued>>}
                                 ELSE accepted2
                 /\ excused' = (excused \union lost) \ {id}
                 /\ glued' = glued \ {id}
    /\ UNCHANGED <<replayLog, unended, logState, replayNow, replayDeaths>>

\* append_to_log. A line put after one that was never ended makes one line of
\* the two, and that line no longer parses.
AppendToLog ==
    /\ logState = "up"
    /\ \E line \in appends :
         /\ appends' = appends \ {line}
         /\ IF unended
            THEN LET last == replayLog[Len(replayLog)]
                 IN  /\ replayLog' = [replayLog EXCEPT ![Len(replayLog)].good = FALSE]
                     /\ glued' = glued \union {line.id} \union
                                 (IF last.good THEN {last.id} ELSE {})
            ELSE replayLog' = Append(replayLog, line) /\ UNCHANGED glued
    /\ unended' = FALSE
    /\ UNCHANGED <<seenUntil, logState, replayNow, replayDeaths, owedUntil, excused, accepted2>>

EvictExpired ==
    /\ logState = "up"
    /\ Present(seenUntil) # Live(seenUntil)
    /\ seenUntil' = SetSeen(Live(seenUntil))
    /\ UNCHANGED <<replayLog, unended, appends, logState, replayNow, replayDeaths,
                   owedUntil, excused, glued, accepted2>>

\* The process dies: between an insertion and its append, or inside a write,
\* which leaves part of a line, or all of it but the newline.
ProcessDies ==
    /\ logState # "down" /\ replayDeaths < ReplayCrashes
    /\ \/ UNCHANGED <<replayLog, unended>>
       \/ /\ ~unended
          /\ \E line \in appends, whole \in BOOLEAN :
               replayLog' = Append(replayLog, [line EXCEPT !.good = whole])
          /\ unended' = TRUE
    /\ excused' = excused \union {l.id : l \in appends}
    /\ appends' = {} /\ logState' = "down" /\ replayDeaths' = replayDeaths + 1
    /\ seenUntil' = [i \in ReplayId |-> 0]
    /\ UNCHANGED <<replayNow, owedUntil, glued, accepted2>>

\* Mutant: what was loaded last is what counts, parsed or not.
Loaded_upToBad ==
    LET bad == {n \in 1 .. Len(replayLog) : ~replayLog[n].good}
        readable == {n \in 1 .. Len(replayLog) : \A b \in bad : n < b}
    IN  [i \in ReplayId |->
           LET own == {n \in readable : replayLog[n].id = i /\ replayLog[n].exp > replayNow}
           IN  IF own = {} THEN 0
               ELSE replayLog[CHOOSE n \in own : \A k \in own : k <= n].exp]

\* load_from_disk: lines that parse and have not expired; the last one counts.
Loaded ==
    [i \in ReplayId |->
       LET own == {n \in 1 .. Len(replayLog) :
                     replayLog[n].id = i /\ replayLog[n].good /\ replayLog[n].exp > replayNow}
       IN  IF own = {} THEN 0 ELSE replayLog[CHOOSE n \in own : \A k \in own : k <= n].exp]

\* open: load, open for appending, and go on to compact a long log.
OpenCache ==
    /\ logState = "down"
    /\ seenUntil' = Loaded
    /\ logState' = IF Len(replayLog) > CompactLines THEN "compact" ELSE "up"
    /\ UNCHANGED <<replayLog, unended, appends, replayNow, replayDeaths,
                   owedUntil, excused, glued, accepted2>>

\* compact: a new file takes the old one's place in one rename. (An error
\* before it leaves the old file.)
Compact ==
    /\ logState = "compact"
    /\ \E lines \in [1 .. Cardinality(Present(seenUntil)) -> Present(seenUntil)] :
         /\ Cardinality({lines[n] : n \in DOMAIN lines}) = Cardinality(DOMAIN lines)
         /\ replayLog' = [n \in DOMAIN lines |->
                [id |-> lines[n], exp |-> seenUntil[lines[n]], good |-> TRUE]]
    /\ unended' = FALSE
    /\ logState' = "up"
    /\ UNCHANGED <<seenUntil, appends, replayNow, replayDeaths, owedUntil, excused, glued, accepted2>>

\* A tick is hours long: no append is still under way when it ends.
ReplayTick ==
    /\ replayNow < ReplayEnd /\ appends = {}
    /\ replayNow' = replayNow + 1
    /\ UNCHANGED <<seenUntil, replayLog, unended, appends, logState, replayDeaths,
                   owedUntil, excused, glued, accepted2>>

ReplayNext ==
    \/ \E id \in ReplayId : Mark(id)
    \/ AppendToLog \/ EvictExpired \/ ProcessDies \/ OpenCache \/ Compact \/ ReplayTick

ReplaySpec == ReplayInit /\ [][ReplayNext]_replayVars

---------------------------------------------------------------------------
ReplayTypeOK ==
    /\ seenUntil \in [ReplayId -> Expiries] /\ owedUntil \in [ReplayId -> Expiries]
    /\ replayLog \in Seq(Line) /\ appends \subseteq Line
    /\ unended \in BOOLEAN /\ (unended => replayLog # <<>>)
    /\ logState \in {"up", "down", "compact"}
    /\ replayNow \in 1 .. ReplayEnd /\ replayDeaths \in 0 .. ReplayCrashes
    /\ excused \subseteq ReplayId /\ glued \subseteq ReplayId
    /\ accepted2 \subseteq ReplayId \X BOOLEAN

\* No id is accepted twice within its time to live, whichever tasks mark it
\* and however the process dies and starts again, except one that was dropped
\* to make room, whose line was not in the file at a death, or whose line was
\* appended to an unended one (replay.rs:4-6, 186-205).
AcceptedOnce == \A again \in accepted2 : again[2]
===========================================================================

------------------------------- MODULE Board -------------------------------
(***************************************************************************)
(* board.rs: the message board of one node, kept in memory and in an        *)
(* append-only log that is read again at start.  Posts arrive from the      *)
(* node's links, each in a reader task of its own; merge asks the seen set, *)
(* asks it again and only then inserts, each under a lock of its own, and   *)
(* appends to the log last.  The process may die anywhere.  One channel.    *)
(***************************************************************************)
EXTENDS Naturals, Sequences, FiniteSets

CONSTANTS Post,         \* posts
          Forged,       \* those whose MAC does not verify
          BoardTask,    \* the tasks that merge or post
          MaxPosts,     \* BOARD_MAX_POSTS
          SeenCap,      \* BOARD_MAX_POSTS * 10
          MaxLines,     \* bound: lines of the log
          BoardCrashes  \* bound: deaths of the process

ASSUME BoardAssumption ==
    /\ IsFiniteSet(Post) /\ Forged \subseteq Post /\ MaxPosts \in Nat \ {0} /\ SeenCap \in Nat \ {0}
    /\ MaxLines \in Nat /\ BoardCrashes \in Nat

VARIABLES seenPosts,   \* seen
          shown,       \* channels: the posts of the channel
          boardLog,    \* the lines of board.log: [post, whole]
          openLine,    \* the last line has no newline
          boardTasks,  \* where each task is, and with which post
          boardLoad,   \* the next line to read
          boardUp,     \* open() has returned
          boardDeaths
boardVars == <<seenPosts, shown, boardLog, openLine, boardTasks, boardLoad, boardUp, boardDeaths>>

NoPost == "none"
Idle == [at |-> "idle", post |-> NoPost]
Lines == [post : Post, whole : BOOLEAN]

BoardInit ==
    /\ seenPosts = {} /\ shown = <<>> /\ boardLog = <<>> /\ openLine = FALSE
    /\ boardTasks = [t \in BoardTask |-> Idle] /\ boardLoad = 1 /\ boardUp = TRUE /\ boardDeaths = 0

\* insert_mem's half under the seen lock: past the cap an arbitrary half of the set stays,
\* for a HashSet iterates in no order.
Seen(p) ==
    LET seen == seenPosts \cup {p} IN
    IF Cardinality(seen) <= SeenCap THEN {seen}
    ELSE {kept \in SUBSET seen : Cardinality(kept) = Cardinality(seen) - Cardinality(seen) \div 2}
\* Mutant: insert_mem trusts the check its caller made.
AlreadyPresent_trusted(p) == FALSE
AlreadyPresent(p) == p \in seenPosts
\* Its half under the channel lock.
Pushed(p) == IF Len(shown) < MaxPosts THEN Append(shown, p) ELSE Append(Tail(shown), p)

Goes(t, at) == boardTasks' = [boardTasks EXCEPT ![t].at = at]

\* handle_board_post and post_to_board: merge asks whether the post is new; a post made
\* here goes straight to insert.
MergeOrPost(t, p) ==
    /\ boardUp /\ boardTasks[t] = Idle
    /\ p \notin seenPosts
    /\ boardTasks' = [boardTasks EXCEPT ![t] = [at |-> "insert", post |-> p]]
    /\ UNCHANGED <<seenPosts, shown, boardLog, openLine, boardLoad, boardUp, boardDeaths>>

\* insert asks again.  merge says the post was new even so, and it is passed on.
InsertBoard(t) ==
    /\ boardTasks[t].at = "insert"
    /\ Goes(t, IF boardTasks[t].post \in seenPosts THEN "gossip" ELSE "memory")
    /\ UNCHANGED <<seenPosts, shown, boardLog, openLine, boardLoad, boardUp, boardDeaths>>

InsertMem(t) ==
    LET mine == boardTasks[t].post IN
    /\ boardTasks[t].at = "memory"
    /\ IF AlreadyPresent(mine) THEN Goes(t, "log") /\ UNCHANGED seenPosts
       ELSE Goes(t, "push") /\ seenPosts' \in Seen(mine)
    /\ UNCHANGED <<shown, boardLog, openLine, boardLoad, boardUp, boardDeaths>>

PushPost(t) ==
    /\ boardTasks[t].at = "push"
    /\ shown' = Pushed(boardTasks[t].post)
    /\ Goes(t, "log")
    /\ UNCHANGED <<seenPosts, boardLog, openLine, boardLoad, boardUp, boardDeaths>>

\* append_to_log.  A line put after one that was never ended makes one line of the two,
\* which no longer parses.
AppendPost(t) ==
    LET mine == boardTasks[t].post IN
    /\ boardTasks[t].at = "log" /\ Len(boardLog) < MaxLines
    /\ IF openLine
       THEN boardLog' = [boardLog EXCEPT ![Len(boardLog)].whole = FALSE]
       ELSE boardLog' = Append(boardLog, [post |-> mine, whole |-> TRUE])
    /\ openLine' = FALSE
    /\ Goes(t, "gossip")
    /\ UNCHANGED <<seenPosts, shown, boardLoad, boardUp, boardDeaths>>

\* The post goes to every other peer, whether this task inserted it or another.
Gossip(t) ==
    /\ boardTasks[t].at = "gossip"
    /\ boardTasks' = [boardTasks EXCEPT ![t] = Idle]
    /\ UNCHANGED <<seenPosts, shown, boardLog, openLine, boardLoad, boardUp, boardDeaths>>

\* The process dies, perhaps inside a write, and is started again.
BoardDies ==
    /\ boardDeaths < BoardCrashes
    /\ \/ UNCHANGED <<boardLog, openLine>>
       \/ /\ ~openLine /\ Len(boardLog) < MaxLines
          /\ \E t \in BoardTask, whole \in BOOLEAN :
                /\ boardTasks[t].at = "log"
                /\ boardLog' = Append(boardLog, [post |-> boardTasks[t].post, whole |-> whole])
          /\ openLine' = TRUE
    /\ boardTasks' = [t \in BoardTask |-> Idle]
    /\ seenPosts' = {} /\ shown' = <<>> /\ boardLoad' = 1 /\ boardUp' = FALSE /\ boardDeaths' = boardDeaths + 1

\* load_from_disk, one line: lines that do not parse and posts that do not verify are
\* passed over.
LoadLine ==
    /\ ~boardUp /\ boardLoad <= Len(boardLog)
    /\ LET line == boardLog[boardLoad] IN
       IF line.whole /\ line.post \notin Forged /\ ~AlreadyPresent(line.post)
       THEN seenPosts' \in Seen(line.post) /\ shown' = Pushed(line.post)
       ELSE UNCHANGED <<seenPosts, shown>>
    /\ boardLoad' = boardLoad + 1
    /\ UNCHANGED <<boardLog, openLine, boardTasks, boardUp, boardDeaths>>

\* maybe_compact: of a long log only what the channel shows stays, written to another
\* file that takes its place.
Compacted == [i \in 1..Len(shown) |-> [post |-> shown[i], whole |-> TRUE]]

\* open, once the log is read.  How long a line is, is not modelled: the log is compacted
\* or not.
OpenBoard ==
    /\ ~boardUp /\ boardLoad > Len(boardLog)
    /\ \/ UNCHANGED <<boardLog, openLine>>
       \/ boardLog' = Compacted /\ openLine' = FALSE
    /\ boardUp' = TRUE /\ boardLoad' = 1
    /\ UNCHANGED <<seenPosts, shown, boardTasks, boardDeaths>>

BoardNext ==
    \/ \E t \in BoardTask : \/ \E p \in Post : MergeOrPost(t, p)
                            \/ InsertBoard(t) \/ InsertMem(t) \/ PushPost(t) \/ AppendPost(t) \/ Gossip(t)
    \/ BoardDies \/ LoadLine \/ OpenBoard
BoardSpec == BoardInit /\ [][BoardNext]_boardVars

BoardTypeOK ==
    /\ seenPosts \subseteq Post /\ shown \in Seq(Post) /\ Len(shown) <= MaxPosts
    /\ boardLog \in Seq(Lines) /\ Len(boardLog) <= MaxLines /\ openLine \in BOOLEAN
    /\ boardTasks \in [BoardTask -> [at : {"idle", "insert", "memory", "push", "log", "gossip"}, post : Post \cup {NoPost}]]
    /\ boardLoad \in 1..MaxLines + 1 /\ boardUp \in BOOLEAN /\ boardDeaths \in 0..BoardCrashes

\* While the seen set has room, no reader of the channel is shown a post twice, though
\* two tasks may both find it new and both write it to the log, which is read again
\* (insert_mem, "what makes reload-after-duplicate-file-write safe").
ShownOnce ==
    Cardinality(Post) <= SeenCap => \A i, j \in DOMAIN shown : i # j => shown[i] # shown[j]
=============================================================================

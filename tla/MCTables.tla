------------------------------ MODULE MCTables ------------------------------
(***************************************************************************)
(* The tables and files a node decides by, checked part by part: its       *)
(* circuits (CircuitManager) and the pool of them (CircuitPool), the paths *)
(* they take (HsPaths), the consensus (Directory), the replay cache        *)
(* (ReplayCache), the admission limits (DosGuard) and the board (Board).   *)
(* A behaviour is one of the part chosen at its start.                     *)
(***************************************************************************)
EXTENDS CircuitManager, CircuitPool, HsPaths, Directory, ReplayCache, DosGuard, Board, TLC

VARIABLE part
tablesVars == <<part, vars, poolRunVars, pathVars, dirVars, replayVars, dosVars, boardVars>>

CONSTANTS p, q, k1, f1, f2, a1, a2, r1, h1, h2, h3, h4, me

-----------------------------------------------------------------------------
\* Peers are interchangeable.
PeerSymmetry == Permutations(Peers)

\* Directory: the authorities start from two addresses for the relay, and one of
\* them may fail to reach it.
MCGenesis == (a1 :> (r1 :> 1)) @@ (a2 :> (r1 :> 2))
MCSpeeds == (a1 :> {1}) @@ (a2 :> {0, 1})

\* HsPaths: two guards, three middles besides this node, and two of one family.
MCPosition == (h1 :> {"guard"}) @@ (h2 :> {"guard", "middle"}) @@ (h3 :> {"middle", "exit"})
              @@ (h4 :> {"middle", "exit"}) @@ (me :> {"guard", "middle", "exit"})
MCKbs == [h \in Hop |-> 1]
MCSubnet == (h1 :> 1) @@ (h2 :> 2) @@ (h3 :> 3) @@ (h4 :> 4) @@ (me :> 5)
MCFamily == [h \in Hop |-> IF h \in {h2, h4} THEN "f" ELSE Unaffiliated]

-----------------------------------------------------------------------------
TablesInit ==
    /\ part \in {"circuits", "relay", "pool", "paths", "directory", "replay", "limits", "board"}
    /\ Init /\ PoolInit /\ PathInit /\ DirInit /\ ReplayInit /\ DosInit /\ BoardInit

\* The node's own circuits and those it relays, none of them to a rendezvous; and,
\* at a node that builds none itself, those it relays and joins at a rendezvous.
CircuitsNext ==
    /\ part = "circuits" /\ Next /\ \A k \in DOMAIN relays' : relays'[k].leg = "none"
    /\ UNCHANGED <<part, poolRunVars, pathVars, dirVars, replayVars, dosVars, boardVars>>
RelaysNext ==
    /\ part = "relay" /\ Next /\ origins' = Empty
    /\ UNCHANGED <<part, poolRunVars, pathVars, dirVars, replayVars, dosVars, boardVars>>
PoolLoopNext ==
    /\ part = "pool" /\ PoolNext
    /\ UNCHANGED <<part, vars, pathVars, dirVars, replayVars, dosVars, boardVars>>
PathsNext ==
    /\ part = "paths" /\ PathNext
    /\ UNCHANGED <<part, vars, poolRunVars, dirVars, replayVars, dosVars, boardVars>>
DirectoryNext ==
    /\ part = "directory" /\ DirNext
    /\ UNCHANGED <<part, vars, poolRunVars, pathVars, replayVars, dosVars, boardVars>>
ReplaysNext ==
    /\ part = "replay" /\ ReplayNext
    /\ UNCHANGED <<part, vars, poolRunVars, pathVars, dirVars, dosVars, boardVars>>
LimitsNext ==
    /\ part = "limits" /\ DosNext
    /\ UNCHANGED <<part, vars, poolRunVars, pathVars, dirVars, replayVars, boardVars>>
PostsNext ==
    /\ part = "board" /\ BoardNext
    /\ UNCHANGED <<part, vars, poolRunVars, pathVars, dirVars, replayVars, dosVars>>
TablesNext ==
    CircuitsNext \/ RelaysNext \/ PoolLoopNext \/ PathsNext \/ DirectoryNext \/ ReplaysNext
    \/ LimitsNext \/ PostsNext

TablesSpec == TablesInit /\ [][TablesNext]_tablesVars

\* The type invariant of the part that runs.
TablesTypeOK ==
    /\ part \in {"circuits", "relay"} => TypeOK
    /\ part = "pool" => PoolTypeOK
    /\ part = "paths" => PathTypeOK
    /\ part = "directory" => DirTypeOK
    /\ part = "replay" => ReplayTypeOK
    /\ part = "limits" => DosTypeOK
    /\ part = "board" => BoardTypeOK
=============================================================================

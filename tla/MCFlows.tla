------------------------------- MODULE MCFlows -------------------------------
(***************************************************************************)
(* What keeps traffic moving at one node, checked part by part: congestion *)
(* control (Vegas), streams at both ends of a circuit (StreamFlow), exit   *)
(* streams (ExitStreams), building and judging circuits (CircuitBuild),    *)
(* padding them (Padding), the guards they start at (Guards), the node's   *)
(* tasks (NodeTasks) and the control socket (Control).  A behaviour is one *)
(* of the part chosen at its start; the other parts rest where they begin. *)
(***************************************************************************)
EXTENDS Vegas, StreamFlow, ExitStreams, CircuitBuild, Padding, Guards, NodeTasks, Control, TLC

VARIABLE part
flowsVars == <<part, vars, flowVars, exitVars, buildVars, padVars, guardVars, taskVars, ctlVars>>

CONSTANTS p1, p2

-----------------------------------------------------------------------------
\* StreamFlow: a download and an upload side by side.
MCUp   == [s \in Streams |-> IF s = 1 THEN 0 ELSE 4]
MCDown == [s \in Streams |-> IF s = 1 THEN 3 ELSE 0]
\* ExitStreams: two clients whose circuit and stream ids are the same.
MCOpens == {<<p1, 7, 1>>, <<p2, 7, 1>>}

FlowsInit ==
    /\ part \in {"vegas", "stream", "exit", "build", "pad", "guards", "tasks", "control"}
    /\ Init /\ FlowInit /\ ExitInit /\ BuildInit /\ PadInit /\ GuardInit /\ TasksInit /\ CtlInit
    /\ part = "control" \/ cookieFile = "whole"

VegasNext ==
    /\ part = "vegas" /\ Next
    /\ UNCHANGED <<part, flowVars, exitVars, buildVars, padVars, guardVars, taskVars, ctlVars>>
StreamNext ==
    /\ part = "stream" /\ FlowNext
    /\ UNCHANGED <<part, vars, exitVars, buildVars, padVars, guardVars, taskVars, ctlVars>>
ExitsNext ==
    /\ part = "exit" /\ ExitNext
    /\ UNCHANGED <<part, vars, flowVars, buildVars, padVars, guardVars, taskVars, ctlVars>>
BuildsNext ==
    /\ part = "build" /\ BuildNext
    /\ UNCHANGED <<part, vars, flowVars, exitVars, padVars, guardVars, taskVars, ctlVars>>
PumpsNext ==
    /\ part = "pad" /\ PadNext
    /\ UNCHANGED <<part, vars, flowVars, exitVars, buildVars, guardVars, taskVars, ctlVars>>
GuardsNext ==
    /\ part = "guards" /\ GuardNext
    /\ UNCHANGED <<part, vars, flowVars, exitVars, buildVars, padVars, taskVars, ctlVars>>
NodeNext ==
    /\ part = "tasks" /\ TasksNext
    /\ UNCHANGED <<part, vars, flowVars, exitVars, buildVars, padVars, guardVars, ctlVars>>
CommandsNext ==
    /\ part = "control" /\ CtlNext
    /\ UNCHANGED <<part, vars, flowVars, exitVars, buildVars, padVars, guardVars, taskVars>>
FlowsNext == VegasNext \/ StreamNext \/ ExitsNext \/ BuildsNext \/ PumpsNext \/ GuardsNext \/ NodeNext \/ CommandsNext

\* The fairness of each module, for the part that runs.
FlowsFairness ==
    /\ WF_flowVars(part = "stream" /\ ClientRecv) /\ WF_flowVars(part = "stream" /\ ExitRecv)
    /\ \A s \in Streams : /\ WF_flowVars(part = "stream" /\ Pump(s))
                          /\ WF_flowVars(part = "stream" /\ TakeCircSlot(s))
                          /\ WF_flowVars(part = "stream" /\ SendStreamRelay(s))
    /\ \A t \in Task : WF_exitVars(part = "exit" /\ Queue(t))
    /\ \A s \in Opens : /\ WF_exitVars(part = "exit" /\ ConnectFails(s))
                        /\ WF_exitVars(part = "exit" /\ SpawnReader(s))
                        /\ WF_exitVars(part = "exit" /\ SendsBack(s))
                        /\ WF_exitVars(part = "exit" /\ ReaderCleansUp(s))
    /\ WF_buildVars(part = "build" /\ BuildTick)
    /\ \A b \in Builder : WF_buildVars(part = "build" /\ BuildTimesOut(b))
    /\ WF_padVars(part = "pad" /\ PadTick)
    /\ \A c \in PadCircuit : /\ WF_padVars(part = "pad" /\ PumpTurn(c))
                             /\ WF_padVars(part = "pad" /\ PumpEndsTurn(c))
    /\ WF_guardVars(part = "guards" /\ MaintainGuards)
    /\ \A r \in Relay : WF_guardVars(part = "guards" /\ Relink(r))
    /\ WF_taskVars(part = "tasks" /\ RunStarts) /\ WF_taskVars(part = "tasks" /\ Selects)
    /\ WF_taskVars(part = "tasks" /\ RunEnds) /\ WF_taskVars(part = "tasks" /\ Exits)
    /\ WF_taskVars(part = "tasks" /\ NotifyWaiters)
    /\ \A t \in Background : WF_taskVars(part = "tasks" /\ TaskStep(t))
FlowsSpec == FlowsInit /\ [][FlowsNext]_flowsVars /\ FlowsFairness

\* The type invariant of the part that runs.
FlowsTypeOK ==
    /\ part = "vegas" => TypeOK
    /\ part = "stream" => FlowTypeOK
    /\ part = "exit" => ExitTypeOK
    /\ part = "build" => BuildTypeOK
    /\ part = "pad" => PadTypeOK
    /\ part = "guards" => GuardTypeOK
    /\ part = "tasks" => TasksTypeOK
    /\ part = "control" => CtlTypeOK

\* An asked-for circuit is built, fails or is given up by build_circuit's polls, or its
\* guard, not linked before, keeps the call in connect, where alone it may stay; and the
\* task padding_pump_loop of a destroyed circuit ends at the next turn it takes.
WaitsEnd == BuildEnds /\ PumpEnds
=============================================================================

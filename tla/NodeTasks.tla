------------------------------ MODULE NodeTasks ------------------------------
(***************************************************************************)
(* The tasks of a node from run() to shutdown() (node.rs) and the signal   *)
(* task of the daemon (main.rs).  What a pass of a task does is the matter *)
(* of other modules; here a pass begins, lasts and ends.                   *)
(*                                                                         *)
(* Notify.notify_waiters wakes the Notified futures that exist; select!    *)
(* makes one each time it is entered and drops it when another branch wins.*)
(***************************************************************************)
EXTENDS Naturals

CONSTANTS ClientOnly,   \* client_only: the listener is not bound
          Watchers,     \* the tasks that race their sleep against shutdown: gc, reaper, guards, republish, pool
          Unwatched     \* those that only sleep and work: com, rendezvous drain, rotation

ASSUME TasksAssumption == ClientOnly \in BOOLEAN /\ Watchers \cap Unwatched = {}

Background == Watchers \cup Unwatched

VARIABLES task,    \* of each background task: "no", "spawned", "waiting", "notified", "woken", "working" or "ended"
          accept,  \* run() itself: "no", "between" two selects, "waiting", "notified", "returned" or "failed"
          signal,  \* the signal task: "armed", "flagged" (inside shutdown()) or "done"
          flag,    \* shutdown_flag
          process  \* "up" or "exited"
taskVars == <<task, accept, signal, flag, process>>

Up == process = "up"
Set(t, s) == task' = [task EXCEPT ![t] = s]

-----------------------------------------------------------------------------
(* run. *)

\* The listener is bound, then every task spawned.
RunStarts ==
    /\ Up /\ accept = "no" /\ accept' = "between"
    /\ task' = [t \in Background |-> "spawned"]
    /\ UNCHANGED <<signal, flag, process>>

\* The port is taken: run returns before any task is spawned.
BindFails == Up /\ ~ClientOnly /\ accept = "no" /\ accept' = "failed" /\ UNCHANGED <<task, signal, flag, process>>

\* Each turn of run's loop makes a new Notified; nothing here reads the flag.
Selects == Up /\ accept = "between" /\ accept' = "waiting" /\ UNCHANGED <<task, signal, flag, process>>

\* A connection is taken and its handshake spawned; ready together with the
\* notification, either branch may win.
Accepts ==
    /\ Up /\ ~ClientOnly /\ accept \in {"waiting", "notified"}
    /\ accept' = "between" /\ UNCHANGED <<task, signal, flag, process>>

\* accept_result?: an error of accept() ends run().
AcceptFails ==
    /\ Up /\ ~ClientOnly /\ accept \in {"waiting", "notified"}
    /\ accept' = "failed" /\ UNCHANGED <<task, signal, flag, process>>

RunEnds == Up /\ accept = "notified" /\ accept' = "returned" /\ UNCHANGED <<task, signal, flag, process>>

\* main returns with run(): the runtime drops every task where it stands.
Exits == Up /\ accept \in {"returned", "failed"} /\ process' = "exited" /\ UNCHANGED <<task, accept, signal, flag>>

-----------------------------------------------------------------------------
(* The loops of the background tasks. *)

TaskSleeps(t) ==
    /\ Up /\ task[t] \in {"spawned", "woken", "working"} /\ (t \in Watchers => task[t] = "spawned")
    /\ Set(t, "waiting") /\ UNCHANGED <<accept, signal, flag, process>>

\* The sleep is over, notified or not.
WakesUp(t) ==
    /\ Up /\ task[t] \in {"waiting", "notified"} /\ Set(t, IF t \in Watchers THEN "woken" ELSE "working")
    /\ UNCHANGED <<accept, signal, flag, process>>

SeesNotification(t) == Up /\ task[t] = "notified" /\ Set(t, "ended") /\ UNCHANGED <<accept, signal, flag, process>>

ChecksFlag(t) ==
    /\ t \in Watchers /\ Up /\ task[t] = "woken"
    /\ Set(t, IF flag THEN "ended" ELSE "working") /\ UNCHANGED <<accept, signal, flag, process>>

\* The pass ends and the loop enters its select again.
PassEnds(t) ==
    /\ t \in Watchers /\ Up /\ task[t] = "working" /\ Set(t, "waiting")
    /\ UNCHANGED <<accept, signal, flag, process>>

-----------------------------------------------------------------------------
(* The signal task and shutdown(). *)

\* SIGINT or SIGTERM: one signal is handled, then the task is over.
\* shutdown() stores the flag, then wakes those that wait at that moment.
SetFlag == Up /\ signal = "armed" /\ signal' = "flagged" /\ flag' = TRUE /\ UNCHANGED <<task, accept, process>>
NotifyWaiters ==
    /\ Up /\ signal = "flagged" /\ signal' = "done"
    /\ task' = [t \in Background |-> IF t \in Watchers /\ task[t] = "waiting" THEN "notified" ELSE task[t]]
    /\ accept' = IF accept = "waiting" THEN "notified" ELSE accept
    /\ UNCHANGED <<flag, process>>

TasksInit ==
    /\ task = [t \in Background |-> "no"] /\ accept = "no"
    /\ signal = "armed" /\ flag = FALSE /\ process = "up"

TaskStep(t) == TaskSleeps(t) \/ WakesUp(t) \/ SeesNotification(t) \/ ChecksFlag(t) \/ PassEnds(t)
TasksNext ==
    \/ RunStarts \/ BindFails \/ Selects \/ Accepts \/ AcceptFails \/ RunEnds \/ Exits
    \/ SetFlag \/ NotifyWaiters
    \/ \E t \in Background : TaskStep(t)

\* Every task is polled, every sleep ends and every pass ends; connections,
\* errors and signals need not come.
TasksFairness ==
    /\ WF_taskVars(RunStarts) /\ WF_taskVars(Selects) /\ WF_taskVars(RunEnds) /\ WF_taskVars(Exits)
    /\ WF_taskVars(NotifyWaiters)
    /\ \A t \in Background : WF_taskVars(TaskStep(t))
TasksSpec == TasksInit /\ [][TasksNext]_taskVars /\ TasksFairness

-----------------------------------------------------------------------------
TasksTypeOK ==
    /\ task \in [Background -> {"no", "spawned", "waiting", "notified", "woken", "working", "ended"}]
    /\ accept \in {"no", "between", "waiting", "notified", "returned", "failed"}
    /\ signal \in {"armed", "flagged", "done"} /\ flag \in BOOLEAN /\ process \in {"up", "exited"}

==============================================================================

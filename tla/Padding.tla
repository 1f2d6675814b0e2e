------------------------------- MODULE Padding -------------------------------
(***************************************************************************)
(* Padding of circuits: each circuit's pump task asks the circuit's        *)
(* scheduler (padding.rs) whether to send a DROP cell, until the circuit   *)
(* is gone.                                                                *)
(*                                                                         *)
(* A tick is the pump's shortest sleep (MIN_SLEEP); a task that is due     *)
(* runs before time goes on.  Ages of the last cells are capped at AgeCap, *)
(* past which no decision tells them apart.                                *)
(***************************************************************************)
EXTENDS Naturals, FiniteSets

CONSTANTS PadCircuit,    \* circuits this node built
          MaxSleep,      \* MAX_SLEEP
          Interval,      \* ConstantRate.interval, AdaptiveBurst.padding_interval
          IdleThreshold, \* AdaptiveBurst.idle_threshold
          AgeCap

ASSUME PaddingAssumption ==
    /\ MaxSleep \in Nat \ {0} /\ Interval \in Nat /\ IdleThreshold \in Nat
    /\ AgeCap \in Nat /\ AgeCap >= Interval /\ AgeCap >= IdleThreshold

VARIABLES padOrigin,   \* the circuits with an entry in CircuitManager.origins
          policy,   \* OriginCircuit.padding_scheduler of each: "none", "constant" or "adaptive"
          pump,     \* the pump task of each: "no", "due", "asleep" or "ended"
          nap,      \* what is left of its sleep
          lastReal, lastPad,   \* the scheduler's last_real and last_padding, as ages
          padAges   \* history: the ages of the last two DROP cells of this scheduler
padVars == <<padOrigin, policy, pump, nap, lastReal, lastPad, padAges>>

Older(age) == IF age < AgeCap THEN age + 1 ELSE age

-----------------------------------------------------------------------------
(* padding. *)

Now == [pad |-> TRUE, sleep |-> 0]
SleepFor(d) == [pad |-> FALSE, sleep |-> d]

\* should_pad_now of ConstantRate and of AdaptiveBurst.
Rate(c) == IF lastPad[c] >= Interval THEN Now ELSE SleepFor(Interval - lastPad[c])
ShouldPadNow(c) ==
    IF policy[c] = "adaptive" /\ lastReal[c] < IdleThreshold THEN SleepFor(IdleThreshold - lastReal[c]) ELSE Rate(c)

\* on_padding_cell.  Mutant: a cell sent is not noted.
OnPaddingCell_not(c) == lastPad' = lastPad
OnPaddingCell(c) == lastPad' = [lastPad EXCEPT ![c] = 0]

-----------------------------------------------------------------------------
(* node.rs and circuit_mgr.rs. *)

\* build_circuit returns: the pump is spawned, with NoPadding until set_padding_scheduler.
Spawned(c) ==
    /\ c \notin padOrigin /\ pump[c] = "no"
    /\ padOrigin' = padOrigin \cup {c} /\ pump' = [pump EXCEPT ![c] = "due"]
    /\ UNCHANGED <<policy, nap, lastReal, lastPad, padAges>>

\* set_padding_scheduler: a new scheduler counts from now.
SetPaddingScheduler(c, p) ==
    /\ c \in padOrigin /\ policy[c] = "none" /\ p # "none"
    /\ policy' = [policy EXCEPT ![c] = p]
    /\ lastReal' = [lastReal EXCEPT ![c] = 0] /\ lastPad' = [lastPad EXCEPT ![c] = 0]
    /\ padAges' = [padAges EXCEPT ![c] = <<AgeCap, AgeCap>>]
    /\ UNCHANGED <<padOrigin, pump, nap>>

Sleeps(c, d) ==
    /\ nap' = [nap EXCEPT ![c] = IF d < 1 THEN 1 ELSE IF d > MaxSleep THEN MaxSleep ELSE d]
    /\ pump' = [pump EXCEPT ![c] = "asleep"]

\* padding_pump_loop: one turn on a circuit that is still there.
PumpTurn(c) ==
    /\ pump[c] = "due" /\ c \in padOrigin
    /\ IF policy[c] = "none" THEN Sleeps(c, MaxSleep) /\ UNCHANGED <<lastPad, padAges>>
       ELSE IF ShouldPadNow(c).pad
       THEN Sleeps(c, 1) /\ OnPaddingCell(c) /\ padAges' = [padAges EXCEPT ![c] = <<0, @[1]>>]
       ELSE Sleeps(c, ShouldPadNow(c).sleep) /\ UNCHANGED <<lastPad, padAges>>
    /\ UNCHANGED <<padOrigin, policy, lastReal>>

\* The circuit is gone: the task ends.
PumpSeesGone(c) == c \notin padOrigin
PumpEndsTurn(c) ==
    /\ pump[c] = "due" /\ PumpSeesGone(c)
    /\ pump' = [pump EXCEPT ![c] = "ended"]
    /\ UNCHANGED <<padOrigin, policy, nap, lastReal, lastPad, padAges>>

\* The DROP cell could not be queued, the link to the guard being gone: the task ends.
PumpSendFails(c) ==
    /\ pump[c] = "due" /\ c \in padOrigin /\ policy[c] # "none" /\ ShouldPadNow(c).pad
    /\ pump' = [pump EXCEPT ![c] = "ended"]
    /\ UNCHANGED <<padOrigin, policy, nap, lastReal, lastPad, padAges>>

PadCircuitGone(c) ==
    /\ c \in padOrigin
    /\ padOrigin' = padOrigin \ {c}
    /\ UNCHANGED <<policy, pump, nap, lastReal, lastPad, padAges>>

PadTick ==
    /\ \A c \in PadCircuit : pump[c] # "due"
    /\ \E c \in PadCircuit : pump[c] = "asleep"
    /\ nap' = [c \in PadCircuit |-> IF nap[c] > 0 THEN nap[c] - 1 ELSE 0]
    /\ pump' = [c \in PadCircuit |-> IF pump[c] = "asleep" /\ nap[c] = 1 THEN "due" ELSE pump[c]]
    /\ lastReal' = [c \in PadCircuit |-> Older(lastReal[c])]
    /\ lastPad' = [c \in PadCircuit |-> Older(lastPad[c])]
    /\ padAges' = [c \in PadCircuit |-> <<Older(padAges[c][1]), Older(padAges[c][2])>>]
    /\ UNCHANGED <<padOrigin, policy>>

PadInit ==
    /\ padOrigin = {} /\ policy = [c \in PadCircuit |-> "none"] /\ pump = [c \in PadCircuit |-> "no"]
    /\ nap = [c \in PadCircuit |-> 0] /\ lastReal = [c \in PadCircuit |-> 0] /\ lastPad = [c \in PadCircuit |-> 0]
    /\ padAges = [c \in PadCircuit |-> <<AgeCap, AgeCap>>]

PadNext ==
    \/ \E c \in PadCircuit : Spawned(c)
    \/ \E c \in PadCircuit, p \in {"constant", "adaptive"} : SetPaddingScheduler(c, p)
    \/ \E c \in PadCircuit : PumpTurn(c)
    \/ \E c \in PadCircuit : PumpEndsTurn(c)
    \/ \E c \in PadCircuit : PumpSendFails(c)
    \/ \E c \in PadCircuit : PadCircuitGone(c)
    \/ PadTick

PadFairness ==
    /\ WF_padVars(PadTick)
    /\ \A c \in PadCircuit : WF_padVars(PumpTurn(c)) /\ WF_padVars(PumpEndsTurn(c))
PadSpec == PadInit /\ [][PadNext]_padVars /\ PadFairness

PadTypeOK ==
    /\ padOrigin \subseteq PadCircuit /\ policy \in [PadCircuit -> {"none", "constant", "adaptive"}]
    /\ pump \in [PadCircuit -> {"no", "due", "asleep", "ended"}] /\ nap \in [PadCircuit -> 0..MaxSleep]
    /\ \A c \in PadCircuit : lastReal[c] <= AgeCap /\ lastPad[c] <= AgeCap
    /\ \A c \in PadCircuit : pump[c] = "asleep" <=> nap[c] > 0

\* Two DROP cells of a scheduler are an interval apart, however the pump's sleeps
\* are cut and rounded: the padding does not become a burst of its own.
PaddingIsSpaced == \A c \in PadCircuit : padAges[c][2] = AgeCap \/ padAges[c][2] - padAges[c][1] >= Interval

\* A pump does not outlive its circuit, whatever its scheduler or sleep.
PumpEnds == \A c \in PadCircuit : []<>(pump[c] # "no" /\ c \notin padOrigin => pump[c] = "ended")
=============================================================================

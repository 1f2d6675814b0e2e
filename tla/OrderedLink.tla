---------------------------- MODULE OrderedLink -----------------------------
(***************************************************************************)
(* What a peer link promises to those who use it: every source (a circuit, *)
(* or a task that sends control messages) has its messages handed to the   *)
(* far end in the order it submitted them, each at most once and none      *)
(* skipped, until the link breaks; after that nothing more arrives.        *)
(***************************************************************************)
EXTENDS Naturals, Sequences

CONSTANT Sources

VARIABLES
  submitted,  \* messages each source has submitted
  arrived,    \* the numbers of each source's messages that arrived, in order
  up          \* the far end still reads the link

absVars == <<submitted, arrived, up>>

Init ==
  /\ submitted = [s \in Sources |-> 0]
  /\ arrived = [s \in Sources |-> <<>>]
  /\ up = TRUE

Submit(s) ==
  /\ submitted' = [submitted EXCEPT ![s] = @ + 1]
  /\ UNCHANGED <<arrived, up>>

Deliver(s) ==
  /\ up
  /\ Len(arrived[s]) < submitted[s]
  /\ arrived' = [arrived EXCEPT ![s] = Append(@, Len(@) + 1)]
  /\ UNCHANGED <<submitted, up>>

Break ==
  /\ up
  /\ up' = FALSE
  /\ UNCHANGED <<submitted, arrived>>

Next == Break \/ \E s \in Sources : Submit(s) \/ Deliver(s)

Spec == Init /\ [][Next]_absVars
=============================================================================

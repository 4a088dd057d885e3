------------------------------- MODULE EventFlow -------------------------------
(***************************************************************************)
(* What the load-balanced workflow promises of each event: it is loaded,   *)
(* then passes every processing step once and in order, whichever ranks    *)
(* happen to work on it, until it is out of the last one.  An event can    *)
(* leave the flow on the way, and does not come back.                      *)
(***************************************************************************)
EXTENDS Integers

CONSTANTS
  Events,
  NStages    \* processing steps after the loading step 0

VARIABLE level    \* the last step each event has left, -1 before it is loaded

Gone == NStages + 1    \* the level of an event that has left the flow

Init == level = [e \in Events |-> -1]

Advance(e) ==
  /\ level[e] < NStages
  /\ level' = [level EXCEPT ![e] = @ + 1]

\* Events without products and those a dying job had in hand leave the flow.
Leave(S) ==
  /\ \A e \in S : level[e] < NStages
  /\ level' = [e \in Events |-> IF e \in S THEN Gone ELSE level[e]]

Next == (\E e \in Events : Advance(e)) \/ (\E S \in SUBSET Events : Leave(S))

SafeSpec == Init /\ [][Next]_level

Fairness == \A e \in Events : WF_level(Advance(e))
===============================================================================

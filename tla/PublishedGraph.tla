--------------------------- MODULE PublishedGraph ---------------------------
(* What publishing a graph file promises: readers always find one complete  *)
(* version, and no power loss takes back a version whose writer was told    *)
(* that it is published. Versions count the publications of a file.         *)
EXTENDS Naturals

CONSTANT Graphs

VARIABLES
  value,     \* what a reader finds; 0 is no file
  newest,    \* the last version published
  floor      \* the newest version some writer was told of

vars == <<value, newest, floor>>

Init ==
  /\ value \in [Graphs -> {0, 1}]
  /\ newest = value
  /\ floor = value

Publish(g) ==
  /\ newest' = [newest EXCEPT ![g] = @ + 1]
  /\ value' = [value EXCEPT ![g] = newest[g] + 1]
  /\ UNCHANGED floor

Confirm(g) ==
  /\ \E v \in floor[g] .. value[g] : floor' = [floor EXCEPT ![g] = v]
  /\ UNCHANGED <<value, newest>>

PowerLoss ==
  /\ value' \in [Graphs -> Nat]
  /\ \A g \in Graphs : value'[g] \in floor[g] .. newest[g]
  /\ UNCHANGED <<newest, floor>>

Next == PowerLoss \/ \E g \in Graphs : Publish(g) \/ Confirm(g)

Spec == Init /\ [][Next]_vars
=============================================================================

---------------------------- MODULE CrashSafeMap ----------------------------
(* What an artifact store promises its callers: a map whose acknowledged    *)
(* writes survive every crash, and whose interrupted writes either happened *)
(* or did not. It is a cache, and fails open: a read that goes wrong is     *)
(* rejected, and a life of the store that cannot read its index finds       *)
(* nothing. Such a life takes no writes either, so that it does no harm:    *)
(* what was acknowledged before it is what the next one with an index finds.*)
CONSTANTS Keys, Payloads, NoPayload, Rejected

VARIABLES
  up,        \* the store is open
  blind,     \* in a life without its index
  possible,  \* per key: what a reader may find after a crash
  visible    \* per key: the answers a probe may get now

vars == <<up, blind, possible, visible>>

(* A read of a payload may fail, a miss is known without reading.           *)
Answers(v) == IF v = NoPayload THEN {v} ELSE {v, Rejected}

Init ==
  /\ up = FALSE /\ blind = FALSE
  /\ possible = [k \in Keys |-> {NoPayload}]
  /\ visible = [k \in Keys |-> {}]

Attempt(k, p) ==
  /\ up /\ ~blind
  /\ possible' = [possible EXCEPT ![k] = @ \union {p}]
  /\ UNCHANGED <<up, blind, visible>>

Acknowledge(k, p) ==
  /\ up /\ ~blind /\ p \in possible[k]
  /\ possible' = [possible EXCEPT ![k] = {p}]
  /\ visible' = [visible EXCEPT ![k] = Answers(p)]
  /\ UNCHANGED <<up, blind>>

Crash ==
  /\ up' = FALSE /\ blind' = FALSE
  /\ visible' = [k \in Keys |-> {}]
  /\ UNCHANGED possible

Open ==
  /\ ~up /\ up' /\ ~blind'
  /\ \E found \in [Keys -> Payloads \union {NoPayload}] :
       /\ \A k \in Keys : found[k] \in possible[k]
       /\ visible' = [k \in Keys |-> Answers(found[k])]
  /\ UNCHANGED possible

OpenBlind ==
  /\ ~up /\ up' /\ blind'
  /\ visible' = [k \in Keys |-> {NoPayload}]
  /\ UNCHANGED possible

Next ==
  \/ \E k \in Keys, p \in Payloads : Attempt(k, p) \/ Acknowledge(k, p)
  \/ Crash
  \/ Open \/ OpenBlind

Spec == Init /\ [][Next]_vars
=============================================================================

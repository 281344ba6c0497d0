---------------------------- MODULE BoundedFifo ----------------------------
(***************************************************************************)
(* What a bounded single-producer/single-consumer queue promises, without  *)
(* saying how: values are accepted in some order while fewer than Capacity *)
(* are inside, handed out once each in that order, and whatever is still   *)
(* inside when the queue is torn down is destroyed, once each.             *)
(***************************************************************************)
EXTENDS Naturals, Sequences

CONSTANTS Capacity, Values

VARIABLES
  sent,       \* every value the queue accepted, in order
  received,   \* every value handed to the consumer, in order
  destroyed,  \* the values destroyed with the queue, in order
  closed      \* the queue has been torn down

fifoVars == <<sent, received, destroyed, closed>>

Init ==
  /\ sent = <<>>
  /\ received = <<>>
  /\ destroyed = <<>>
  /\ closed = FALSE

Send(v) ==
  /\ ~closed
  /\ Len(sent) - Len(received) < Capacity
  /\ sent' = Append(sent, v)
  /\ UNCHANGED <<received, destroyed, closed>>

Receive ==
  /\ ~closed
  /\ Len(received) < Len(sent)
  /\ received' = Append(received, sent[Len(received) + 1])
  /\ UNCHANGED <<sent, destroyed, closed>>

Destroy ==
  /\ ~closed
  /\ closed' = TRUE
  /\ destroyed' = SubSeq(sent, Len(received) + 1, Len(sent))
  /\ UNCHANGED <<sent, received>>

Next == (\E v \in Values : Send(v)) \/ Receive \/ Destroy

Spec == Init /\ [][Next]_fifoVars
=============================================================================

-------------------------- MODULE MCIndexPipeline --------------------------
(* The instance of IndexPipeline TLC checks. *)
EXTENDS IndexPipeline

(* No request; one request twice; one whose file changes, unbound (3) or     *)
(* bound to an identity (4); and three, of which 0 and 2 share an I/O owner. *)
BatchesMC == {<<>>, <<1, 1>>, <<3>>, <<4>>, <<0, 1, 2>>}

ChangingMC == {3, 4}

(* A file that changes is read in two batches, so that a change falls between. *)
ReadBatchesMC == [r \in Requests |-> IF r \in ChangingMC THEN 2 ELSE 1]

(* Changing files fit the ticket, then grow, at last beyond the limit; request 1 needs more credits than *)
(* the ledger will ever have; 0 and 2 do not fit it together.                  *)
ClassMC ==
  [r \in Requests |-> [g \in Generations |->
    IF r \in ChangingMC THEN 2 * g + 1 ELSE IF r = 1 THEN 4 ELSE 2]]
=============================================================================

--------------------------- MODULE MCGraphServing ---------------------------
(* The instance of GraphServing TLC checks. *)
EXTENDS GraphServing
=============================================================================

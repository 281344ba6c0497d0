-------------------------- MODULE MCSourceRegistry --------------------------
(* Instances of SourceRegistry for TLC. *)
EXTENDS SourceRegistry

CONSTANTS p1, a

(* The file the source is tracked at, and a path it may be renamed to. *)
FilesMC == [path \in Paths |-> IF path = p1 THEN a ELSE None]
=============================================================================

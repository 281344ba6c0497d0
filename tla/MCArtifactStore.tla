-------------------------- MODULE MCArtifactStore --------------------------
(* Instances of ArtifactStore for TLC: a payload of one cell and one of two. *)
EXTENDS ArtifactStore

CONSTANTS a, b, one, two

Sizes == (one :> 1) @@ (two :> 2)
=============================================================================

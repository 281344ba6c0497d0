--------------------------- MODULE MCCacheService ---------------------------
(* Instances of CacheService for TLC. *)
EXTENDS CacheService, TLC

CONSTANTS c1, c2, c3, c4

(* One client probes, replaces and asks for a snapshot; another persists.  *)
ChainKind == (c1 :> "probe") @@ (c2 :> "replace") @@ (c3 :> "persist") @@ (c4 :> "snapshot")
ChainAfter == (c1 :> {}) @@ (c2 :> {c1}) @@ (c3 :> {}) @@ (c4 :> {c2})

(* A probe asks for the whole capacity, a persist for its payload. *)
Costs == [c \in Calls |-> CASE Kind[c] = "probe" -> 2 [] Kind[c] = "snapshot" -> 0 [] OTHER -> 1]
=============================================================================

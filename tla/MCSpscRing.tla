----------------------------- MODULE MCSpscRing -----------------------------
(* SpscRing with cursors modulo 4: they wrap within MaxSends sends. *)
EXTENDS SpscRing
=============================================================================

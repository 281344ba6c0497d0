---------------------------- MODULE MCWriterGate ----------------------------
(* Instances of WriterGate for TLC. *)
EXTENDS WriterGate, TLC

CONSTANTS s, m, l, r, d, t1, t2

Kinds1 == (s :> "start") @@ (r :> "resume") @@ (m :> "rebuild") @@ (d :> "disable") @@ (l :> "label")
Targets1 == (s :> t2) @@ (r :> t1) @@ (m :> t1) @@ (d :> t1) @@ (l :> t1)
=============================================================================

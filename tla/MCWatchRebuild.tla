--------------------------- MODULE MCWatchRebuild ---------------------------
(***************************************************************************)
(* Instances of WatchRebuild for TLC.                                      *)
(***************************************************************************)
EXTENDS WatchRebuild

CONSTANTS a, b, n, w, c1, k1, u1

NoNotes == {}
NoProcs == {}
OneFile == {a}
TwoFiles == {a, b}
OneNote == {n}
OneCommit == {c1}
OneCheckout == {k1}
OneUpdater == {u1}
=============================================================================

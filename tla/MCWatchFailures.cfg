CONSTANTS
  a = a
  b = b
  n = n
  w = w
  c1 = c1
  k1 = k1
  u1 = u1
  Watcher = w
  Nobody = Nobody
  Files <- OneFile
  Notes <- OneNote
  CommitHooks <- OneCommit
  CheckoutHooks <- NoProcs
  Updaters <- OneUpdater
  PathsOnly = FALSE
  MaxPasses = 1
  MayFail = TRUE
SPECIFICATION FairSpec
INVARIANTS WatchInv ChangesAccounted ManifestNeverAhead
PROPERTIES CallsEnd NoticeRaised

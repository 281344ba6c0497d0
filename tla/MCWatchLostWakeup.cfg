CONSTANTS
  a = a
  b = b
  n = n
  w = w
  c1 = c1
  k1 = k1
  u1 = u1
  Watcher = w
  Nobody = Nobody
  Files <- OneFile
  Notes <- NoNotes
  CommitHooks <- NoProcs
  CheckoutHooks <- OneCheckout
  Updaters <- NoProcs
  PathsOnly = FALSE
  MaxPasses = 1
  MayFail = FALSE
SPECIFICATION FairSpec
PROPERTY CodeChangesReachGraph

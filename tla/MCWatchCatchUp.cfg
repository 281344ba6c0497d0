CONSTANTS
  a = a
  b = b
  n = n
  w = w
  c1 = c1
  k1 = k1
  u1 = u1
  Watcher = w
  Nobody = Nobody
  Files <- TwoFiles
  Notes <- NoNotes
  CommitHooks <- OneCommit
  CheckoutHooks <- OneCheckout
  Updaters <- NoProcs
  PathsOnly = TRUE
  MaxPasses = 1
  MayFail = FALSE
SPECIFICATION FairSpec
PROPERTIES GraphNeverRegresses TriggersCatchUp

\* One source, a scan, a maintenance command and a worker, killed at every step.
CONSTANTS
  Sources = {s1}
  Paths = {p1, p2}
  Contents = {a, b}
  Scanners = {scan}
  Maintainers = {maintain}
  Workers = {w1}
  MaxEdits = 1
  MaxChanges = 2
  Files <- FilesMC
  None = None
  p1 = p1
  a = a
SPECIFICATION FairSpec
INVARIANT RegistryInv
INVARIANT FingerprintTruthful
PROPERTY NoWorkLost
PROPERTY ScansCatchUp
PROPERTY PublishCatchesUp

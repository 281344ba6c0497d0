CONSTANTS
  s = s
  m = m
  l = l
  r = r
  d = d
  t1 = t1
  t2 = t2
  Calls = {s, m, r, d, l}
  MaxCalls = 3
  Kind <- Kinds1
  Target <- Targets1
SPECIFICATION FairSpec
INVARIANT GateInv
INVARIANT SingleWriter
INVARIANT ReleasedAtClose
INVARIANT WatchAfterRefresh
PROPERTY NoSpawnAfterDispose
PROPERTY PausedStaysPaused
PROPERTY CallsReturn

CONSTANTS
  c1 = c1
  c2 = c2
  c3 = c3
  c4 = c4
  Calls = {c1, c2, c3, c4}
  After <- ChainAfter
  Kind <- ChainKind
  Cost <- Costs
  Capacity = 2
  QueueCapacity = 1
SPECIFICATION FairSpec
INVARIANT CreditsOwned
INVARIANT ReleasedBeforeAnswer
INVARIANT UnavailableOnceEnded
PROPERTY CallsReturn
PROPERTY ShutdownEnds

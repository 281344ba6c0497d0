CONSTANTS
  a = a
  b = b
  one = one
  two = two
  Keys = {a, b}
  Payloads = {one, two}
  NoPayload = NoPayload
  Rejected = Rejected
  Size <- Sizes
  MaxSegment = 3
  MaxArtifacts = 7
  MaxCatalog = 3
  MaxShardEntries = 4
  MaxGeneration = 1
  SealCheckFails = FALSE
SPECIFICATION Spec
INVARIANT RecordsBacked
INVARIANT Reopenable
PROPERTY IsCrashSafeMap

CONSTANTS
  a = a
  b = b
  one = one
  two = two
  Keys = {a, b}
  Payloads = {one, two}
  NoPayload = NoPayload
  Rejected = Rejected
  Size <- Sizes
  MaxSegment = 3
  MaxArtifacts = 7
  MaxCatalog = 3
  MaxShardEntries = 4
  MaxGeneration = 1
  SealCheckFails = TRUE
SPECIFICATION Spec
INVARIANT RecordsBacked

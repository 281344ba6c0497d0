\* Two I/O and two compute workers that compete for fewer credits than they need,
\* and files that change while one of them is read.
CONSTANTS
  Batches <- BatchesMC
  IoWorkers = 2
  ComputeWorkers = 2
  QueueCapacity = 1
  Attempts = 2
  ReadBatches <- ReadBatchesMC
  Budget = 3
  Class <- ClassMC
  MaxClass = 4
  Bound = {4}
  Changing <- ChangingMC
  MaxChanges = 2
SPECIFICATION FairSpec
INVARIANT MemoryBounded
INVARIANT CreditsReturned
INVARIANT ExactlyOneOutcome
INVARIANT PanicReported
INVARIANT NoTornInput
PROPERTY Termination

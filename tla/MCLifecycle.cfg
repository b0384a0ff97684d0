SPECIFICATION Spec
CONSTANTS
  None = None
  w1 = w1
  w2 = w2
  j1 = j1
  j2 = j2
  Jobs = {j1}
  Workers = {w1, w2}
  Identities <- IdentityNames
  Identity <- SharedIdentity
  MaxInt = 3
  StaleLimit = 1
  Concurrency = 1
  Lease = 1
  TaskLeases = {3}
  Delays = {0, 1}
  Backstop = 2
  PanicPolicy = "Retry"
  MaxTime = 4
  MaxMerges = 1
  MaxFaults = 1
SYMMETRY WorkerSymmetry
INVARIANTS
  TypeOK
  FailureCountMatchesJournal
  JournalHoleFree
  OneHandlerPerEpoch
  SupersededOnlyByRecovery
  SnapshotsCurrent
PROPERTIES
  ClaimEndsByHolderOrExpiry
  CarryOnlyFromHolder
  TerminalIsFinal

SPECIFICATION FairSpec
CONSTANTS
  None = None
  w1 = w1
  w2 = w2
  j1 = j1
  j2 = j2
  Jobs = {j1, j2}
  Workers = {w1}
  Identities <- IdentityNames
  Identity <- SharedIdentity
  MaxInt = 2
  StaleLimit = 1
  Concurrency = 2
  Lease = 1
  TaskLeases = {}
  Delays = {0}
  Backstop = 2
  PanicPolicy = "Retry"
  MaxTime = 2
  MaxMerges = 0
  MaxFaults = 1
PROPERTIES
  ExpiredClaimIsRecovered
  ImplementsQueue

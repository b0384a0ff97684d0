SPECIFICATION Spec
CONSTANTS
  j1 = j1
  j2 = j2
  j3 = j3
  Jobs = {j1}
  Concurrency = 1
  StaleLimit = 1
  PollMax = 3
  MaxDelay = 3
  Lease = 2
  Skew = 0
  MaxDisturbances = 0
INVARIANT WakesWhenEligible

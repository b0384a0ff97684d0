SPECIFICATION Spec
CONSTANTS
  j1 = j1
  j2 = j2
  j3 = j3
  Jobs = {j1, j2, j3}
  Concurrency = 2
  StaleLimit = 1
  PollMax = 2
  MaxDelay = 3
  Lease = 2
  Skew = 1
  MaxDisturbances = 2
SYMMETRY JobSymmetry
INVARIANT TypeOK
INVARIANT DelayBounded
INVARIANT SleepCovered

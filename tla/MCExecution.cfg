SPECIFICATION FairSpec
CONSTANTS
  None = None
  Identities <- IdentityNames
  Worker = "host:1"
  MaxInt = 11
  StaleLimit = 1
  MinBase = 1
  MaxU64 = 6
  MaxU128 = 20
  Grain = 2
  Far = 6
  Backstop = 6
  PanicPolicy = "Retry"
  WorkerBackoff <- WorkerSchedule
  TaskBackoff <- TaskSchedule
  Fraction = 1
  Limits = {3, None}
  Resumes = {1, 9}
  MaxYields = 1
  MaxUnruly = 3
INVARIANTS
  TypeOK
  RunsWhenDue
  GivesUpInTime
  BackstopPassedOnlyByExpiry
  CarryIsLastReturned
PROPERTY JobEnds
CHECK_DEADLOCK FALSE

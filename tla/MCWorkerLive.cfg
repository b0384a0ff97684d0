SPECIFICATION LoopSpec
CONSTANTS
  None = None
  Jobs <- TwoTiers
  Kinds <- KindNames
  KindOf <- MCKindOf
  TiersOf <- MergedTiersOf
  Cap <- NoCaps
  Concurrency = 1
  Ratio = 2
  t1 = t1
  t2 = t2
  Tasks = {t1}
  Watched <- WatchedJob
  MaxFaults = 1
INVARIANTS
  BoundedBypass
PROPERTIES
  EveryTierServed
  ShutdownCompletes
CHECK_DEADLOCK FALSE

SPECIFICATION LoopSpec
CONSTANTS
  None = None
  Jobs <- ThreeTiers
  Kinds <- KindNames
  KindOf <- MCKindOf
  TiersOf <- MCTiersOf
  Cap <- FetchCapped
  Concurrency = 2
  Ratio = 2
  t1 = t1
  t2 = t2
  Tasks = {t1, t2}
  Watched <- WatchedJob
  MaxFaults = 0
PROPERTY EveryTierServed
CHECK_DEADLOCK FALSE

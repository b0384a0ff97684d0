SPECIFICATION Spec
CONSTANTS
  None = None
  Jobs <- ThreeTiers
  Kinds <- KindNames
  KindOf <- MCKindOf
  TiersOf <- MCTiersOf
  Cap <- MailCapped
  Concurrency = 2
  Ratio = None
  t1 = t1
  t2 = t2
  Tasks = {t1, t2}
  Watched <- WatchedJob
  MaxFaults = 1
SYMMETRY TaskSymmetry
INVARIANTS
  TypeOK
  BookkeepingExact
  CapsRespected
  ClaimsAccountedFor
CHECK_DEADLOCK FALSE

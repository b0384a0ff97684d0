SPECIFICATION FairSpec
CHECK_DEADLOCK FALSE
CONSTANTS
  None = None
  p1 = p1
  p2 = p2
  c1 = c1
  c2 = c2
  c3 = c3
  Stores = {p1, p2}
  Sessions = {c1, c2, c3}
  PoolOf <- Pools
  Versions = 3
  MaxFaults = 2
INVARIANTS
  TypeOK
  HistoryStaysCurrent
  NoHalfMigration
  LockHasOwner
PROPERTY MigrateReturns

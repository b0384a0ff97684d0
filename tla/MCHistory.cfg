SPECIFICATION Spec
CONSTANTS
  None = None
  Identities = {}
  MaxInt = 1
  StaleLimit = 1
  Jobs = {1, 2, 3}
  Kinds = {"fetch", "mail"}
  KindOf <- MCKindOf
  Stamps = {1, 2}
  Filters <- MCFilters
  MaxTime = 1
INVARIANTS
  TypeOK
  WalkNeverRepeats
  WalkMissesNothing
  SnapshotOffByMoved

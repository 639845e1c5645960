SPECIFICATION Spec
CONSTANTS
  NumRuns = 2
  Limit = 8
  MetaReserve = 1
  WorkflowMax = 6
  Sizes = {1, 2}
  LastDay = 2
INVARIANTS
  TypeOK
  LedgerCovers
  NothingWasted
PROPERTY
  MeetsQuota
CHECK_DEADLOCK FALSE

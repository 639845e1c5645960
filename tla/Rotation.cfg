SPECIFICATION FairSpec
CONSTANTS
  Providers = {1, 2, 3}
  BudgetProvider = 1
  Ids = {1, 2, 3, 4, 5, 6}
  First <- FirstDatabases
  MaxDatabases = 4
  Batches = 2
  MaxFaults = 2
  None = None
INVARIANTS
  TypeOK
  WithinAccount
  NamedUsable
  NothingUnrecorded
PROPERTIES
  HistoryKept
  RunEnds

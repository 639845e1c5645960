SPECIFICATION FairSpec
CONSTANTS
  Providers = {1, 2, 3}
  BudgetProvider = 1
  Ids = {1, 2, 3, 4}
  First <- FirstDatabases
  MaxDatabases = 5
  Batches = 1
  MaxFaults = 1
  None = None
PROPERTY
  Redeployed

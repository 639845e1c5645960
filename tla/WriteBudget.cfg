SPECIFICATION FairSpec
CONSTANTS
  NumTasks = 3
  MaxWrites = 4
  Requests = {2, 3}
  ExtraWrites = 1
  MaxCalls = 2
INVARIANTS
  BudgetTypeOK
  Accounting
  RefusalIsFinal
  NoLostWakeup
PROPERTY
  ReserveReturns

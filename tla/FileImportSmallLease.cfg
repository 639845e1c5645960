SPECIFICATION FairSpec
CONSTANTS
  NumRows = 4
  TrailingBytes = 1
  BatchSize = 2
  StatementsPerRequest = 2
  DatabaseConcurrency = 1
  MaxRows = 4
  Lease = 8
  MaxDisturbances = 0
PROPERTIES
  EveryFileCompletes

SPECIFICATION FairSpec
CONSTANTS
  NumRows = 6
  TrailingBytes = 1
  BatchSize = 2
  StatementsPerRequest = 2
  DatabaseConcurrency = 1
  MaxRows = 5
  Lease = 12
  MaxDisturbances = 2
INVARIANTS
  TypeOK
  CheckpointSound
PROPERTIES
  Resumable
  EveryFileCompletes

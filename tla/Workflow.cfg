SPECIFICATION FairSpec
CONSTANTS
  stops = stops
  trips = trips
  routes = routes
  shapes = shapes
  NumProviders = 3
  Files = {stops, trips, routes, shapes}
  ProviderOf <- FileProvider
  Rows <- FileRows
  MaxChunks = 2
  StorageLimit = 3
  RowBudgets = {1, 5}
  CsvPermits = 1
  MetadataBudgets = {1, 4}
  DataBudgets = {1, 5}
  MaxFailures = 1
INVARIANTS
  TypeOK
  RowsWithinLimit
  WorkConserving
  NothingLeftRunning
  FeedsKept
PROPERTY
  RunEnds
CHECK_DEADLOCK FALSE

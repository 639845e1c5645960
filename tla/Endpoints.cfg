SPECIFICATION Spec
CONSTANTS
  Columns <- TheColumns
  MaxRows = 3
  None = None
  Slots = {1, 2}
  Names <- TheNames
  Canonical <- LowerCase
  BoundTo <- Bindings
  Databases = {"DB_BUS", "DB_RAIL"}
  ShapeDatabases = {"DB_BUS"}
  RoutesAt <- RoutesByVersion
  SchemaOf <- TablesOf
  Rows <- TheRows
  StatusMaxAge = 1
  MapMaxAge = 2
  MaxDelay = 1
  MaxVersion = 2
  Workloads <- TheWorkloads
INVARIANTS
  TypeOK
  OwnAnswer
  Fresh
  DataAnswer

SPECIFICATION FairSpec
CONSTANTS
  stops = stops
  trips = trips
  x = x
  y = y
  tagA = tagA
  tagB = tagB
  Files = {stops, trips}
  NumParts = 2
  Crcs = {x, y}
  Tags = {tagA, tagB}
  NoTag = NoTag
  None = None
  Histories <- Supported
  MaxFailures <- SupportedFailures
INVARIANTS
  TypeOK
  ProgressHonest
  SkipIsSafe
PROPERTIES
  VersionAfterFiles
  Converges

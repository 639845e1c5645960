SPECIFICATION Spec
CONSTANTS
  stops = stops
  trips = trips
  x = x
  y = y
  tagA = tagA
  tagB = tagB
  Files = {stops, trips}
  NumParts = 1
  Crcs = {x, y}
  Tags = {tagA, tagB}
  NoTag = NoTag
  None = None
  Histories <- Withdrawn
  MaxFailures <- WithdrawnFailures
INVARIANT
  SkipIsSafe

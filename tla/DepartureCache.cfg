SPECIFICATION Spec
CONSTANTS
  NumTables = 2
  Requests = {r1, r2}
  Crcs = {x, y}
  NoCrc = NoCrc
  MaxTime = 3
  MaxImports = 3
SYMMETRY
  Symmetry
INVARIANTS
  TypeOK
  CachedIsCurrent
  HitIsCurrent
PROPERTY
  NeverSetBack

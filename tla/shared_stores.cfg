SPECIFICATION StoresSpec
CONSTANTS
  Procs = {p, q}
  Ids = {i}
  Publishers = {a, b}
  Editions = {e, f}
  MaxRevision = 3
  MaxDamages = 1
  Worker = {x, y}
  Request = {r1, r2}
  Placements <- Spread
  RateLimit = 2
  WindowTicks = 2
  LastTick = 4
  MaxOutages = 1
SYMMETRY Symmetry
INVARIANTS TypeOK WatermarksCoverDisplay MemoryNeverAhead DisplayedIsFetchable RateBounded
PROPERTIES ImplementsRegister

SPECIFICATION Spec
CONSTANTS
  a = a
  b = b
  d = d
  e = e
  f1 = f1
  f2 = f2
  f3 = f3
  NoId = NoId
  Order <- MCOrder
  Dest <- MCDest
  Refs = {}
  TempPlaces <- MCTemp
  Scopes <- MCScopes
  Ids <- MCIds
  FirstIds <- MCFirstIds
  MaxBatches = 2
  MaxScans = 1
  MaxMeddles = 0
  MaxEvents = 4
  MaxUnsettled = 1
INVARIANTS
  LeftBehindProtected
CHECK_DEADLOCK FALSE

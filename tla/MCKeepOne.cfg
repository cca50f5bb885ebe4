SPECIFICATION Spec
CONSTANTS
  Paths <- MCPaths
  MaxCopies = 3
INVARIANTS
  OriginalStays
  CopyStays
  HeldOnlyWhenNeeded

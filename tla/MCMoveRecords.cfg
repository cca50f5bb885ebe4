SPECIFICATION Spec
CONSTANTS
  f1 = f1
  f2 = f2
  NoFile = NoFile
  Files <- MCFiles
  MaxRequests = 2
  MaxCrashes = 2
  MaxSettings = 1
  MaxFailures = 1
  MaxMishaps = 2
INVARIANTS
  TypeOK
  LandedRecovered
  LandedKnown
  NoRowReturns
  StillMeansStill
SYMMETRY MCSymmetry
CHECK_DEADLOCK FALSE

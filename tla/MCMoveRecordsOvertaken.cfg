SPECIFICATION Spec
CONSTANTS
  f1 = f1
  f2 = f2
  NoFile = NoFile
  Files <- MCFiles
  MaxRequests = 2
  MaxCrashes = 0
  MaxSettings = 1
  MaxFailures = 0
  MaxMishaps = 2
INVARIANTS
  RecordsSurvive
SYMMETRY MCSymmetry
CHECK_DEADLOCK FALSE

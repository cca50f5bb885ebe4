CONSTANTS
  MaxTries = 2
  MaxLost = 2
  MaxRefused = 1
  MaxMisled = 1
  MaxOthers = 2
  MaxEdits = 1
SPECIFICATION Spec
INVARIANTS TypeOK ContentSurvives EditSurvives FailedUnstagedMeansStill LandedRecorded
PROPERTIES DeletedForCopy KeepsPromise Ends
CHECK_DEADLOCK FALSE

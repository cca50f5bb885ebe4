SPECIFICATION Spec
CONSTANTS
  Contents <- MCContents
  Trees <- MCTrees
  Mix <- MCMix
  ExactMax = 1
  TableSize = 3
  WindowFiles = 2
  KeyCap = 2
  WindowMax = 2
  FileCap = 2
  MaxTouched = 1
INVARIANTS TypeOK OneGroupEach NothingLost CountedOnce BestListed
PROPERTY Ends
CHECK_DEADLOCK FALSE

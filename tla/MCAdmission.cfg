SPECIFICATION FairSpec
CONSTANTS
  r1 = r1
  r2 = r2
  NoReq = NoReq
  Requests <- MCRequests
  MaxScans = 2
  MaxCrashes = 1
INVARIANTS
  TypeOK
  VettedResultsStand
  MarkerStaysForItsScan
PROPERTIES
  OneUserOfTheTree
  TreeIsReleased
CHECK_DEADLOCK FALSE

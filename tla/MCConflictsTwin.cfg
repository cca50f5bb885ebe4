SPECIFICATION Spec
CONSTANTS
  Paths <- MCPaths
  Trees <- MCTrees
  ChangedMax = 1
  MaxEvents = 2
  MaxMishaps = 2
  MaxRuns = 2
  MaxCrashes = 1
  MaxFailures = 1
INVARIANT HistoryStaysOwn
CHECK_DEADLOCK FALSE

SPECIFICATION Spec
CONSTANTS
  Paths <- MCPaths
  Trees <- MCTrees
  ChangedMax = 1
  MaxEvents = 2
  MaxMishaps = 2
  MaxRuns = 2
  MaxCrashes = 1
  MaxFailures = 1
INVARIANTS TypeOK LiveEntriesAreOwn NoConflictHidden HistoryTrue RotConvicted SoundNotConvicted TwinsConvicted
CHECK_DEADLOCK FALSE

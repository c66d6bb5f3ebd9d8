SPECIFICATION FairSpec
CONSTANTS
  MaxMessage = 2
  MaxKernel = 3
  MaxEpoch = 7
INVARIANTS RecordedOnce RestartReported RevisionIsolated
PROPERTIES CellsEnd
CHECK_DEADLOCK FALSE

SPECIFICATION Spec
CONSTANTS
  n1 = n1
  n2 = n2
  gemini = gemini
  flash = flash
  Node <- TwoNodes
  PoolName = {gemini, flash}
  Pool <- Pools
  Cap <- OneSlot
  FanOutPool = gemini
  FirstFanOut = 1
  GraphChoice <- FlatOrChain
  DispatchFaults = TRUE
  StorageFaults = TRUE
  MaxTask = 1
  MaxRev = 2
  MaxGen = 3
  MaxVer = 2
  MaxTry = 2
  MaxCrash = 1
INVARIANTS
  CompleteIsQuiet
  PoolCapacity
  DurableTracked
  VoidedIsStale
  RunTracked
  ResultCurrent
PROPERTIES
  Implements
  NoVoidedResult
CONSTRAINT Scenarios
CHECK_DEADLOCK FALSE

SPECIFICATION FairSpec
CONSTANTS
  n1 = n1
  n2 = n2
  gemini = gemini
  flash = flash
  Node <- OneNode
  PoolName = {flash}
  Pool <- Pools
  Cap <- OneSlot
  FanOutPool = flash
  FirstFanOut = 1
  GraphChoice <- FlatOnly
  DispatchFaults = FALSE
  StorageFaults = FALSE
  MaxTask = 2
  MaxRev = 1
  MaxGen = 2
  MaxVer = 2
  MaxTry = 2
  MaxCrash = 0
PROPERTIES
  EveryRunSettles
  DispatchReturns
CHECK_DEADLOCK FALSE

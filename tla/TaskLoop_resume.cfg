SPECIFICATION Spec
CONSTANTS
  n1 = n1
  n2 = n2
  gemini = gemini
  flash = flash
  Node <- OneNode
  PoolName = {flash}
  Pool <- Pools
  Cap <- OneSlot
  FanOutPool = flash
  FirstFanOut = 1
  GraphChoice <- FlatOnly
  DispatchFaults = FALSE
  StorageFaults = FALSE
  MaxTask = 1
  MaxRev = 1
  MaxGen = 4
  MaxVer = 2
  MaxTry = 1
  MaxCrash = 0
PROPERTIES
  ResumeHonoursStop
CHECK_DEADLOCK FALSE

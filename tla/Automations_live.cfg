SPECIFICATION FairSpec
CONSTANTS
  a1 = a1
  None = None
  Automation = {a1}
  Once <- AllOnce
  Runner = {"scheduler", "daemon"}
  Edit = {"off", "delete"}
  MaxDay = 1
  MaxRuns = 2
  MaxEdits = 1
  MaxCrash = 1
PROPERTIES
  CaughtUp
  DaemonRunsEnd
CONSTRAINT OneFault
CHECK_DEADLOCK FALSE

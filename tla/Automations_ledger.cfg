SPECIFICATION Spec
CONSTANTS
  a1 = a1
  None = None
  Automation = {a1}
  Once <- NoneOnce
  Runner = {"scheduler", "daemon", "button"}
  Edit = {}
  MaxDay = 1
  MaxRuns = 2
  MaxEdits = 0
  MaxCrash = 1
INVARIANTS
  CompletedIsTrue

  
CONSTRAINT Scenarios
CHECK_DEADLOCK FALSE

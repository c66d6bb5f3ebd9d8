SPECIFICATION CPSpec
CONSTANTS
  Path = {p1, p2}
  Turn = {t1, t2}
  Revert = {r1, r2}
  Nothing = Nothing
  MaxEdits = 2
  MaxFaults = 2
  MaxStarts = 1
INVARIANTS
  RefsKept
  
  SafetyHolds
SYMMETRY Symmetry
CONSTRAINT Scenarios
CHECK_DEADLOCK FALSE

SPECIFICATION Spec
CONSTANTS
  Path = {p1, p2, p3}
  Touched = {p1, p2}
  MaxEdits = 3
  MaxCrash = 1
INVARIANTS ImportIsSnapshot AppliedOntoImported EditsKept
PROPERTIES RecordedIsApplied
CHECK_DEADLOCK FALSE
SYMMETRY Symmetry

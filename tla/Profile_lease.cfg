SPECIFICATION Spec
CONSTANTS
  Proc = {p1, p2, p3}
  None = None
  a1 = a1
  a2 = a2
  PatchOf <- MCPatchOf
  MaxTask = 3
  MaxEntry = 5
  MaxApply = 1
  MaxCrash = 2
INVARIANTS OneOwner AppliedIsCurrent RefsWhole AcceptedOnce
SYMMETRY Symmetry
CHECK_DEADLOCK FALSE

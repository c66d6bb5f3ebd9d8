SPECIFICATION Spec
CONSTANTS
  s1 = s1
  s2 = s2
  s3 = s3
  p1 = p1
  p2 = p2
  p3 = p3
  p4 = p4
  Session = {s1, s2, s3}
  Process = {p1, p2, p3, p4}
  None = None
  MaxConcurrent = 2
  Relock = {"blocks", "granted"}
INVARIANTS OneSlot HeldCap DeadLeave
SYMMETRY Same
CHECK_DEADLOCK FALSE

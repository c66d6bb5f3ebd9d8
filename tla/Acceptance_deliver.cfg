SPECIFICATION Spec
CONSTANTS
  p = p
  q = q
  s = s
  r = r
  c = c
  Node = {p, q, s, r}
  Kind <- Kinds
  Counterexample = {c}
  Choices = 1
  None = None
  MaxRev = 2
  MaxGen = 2
  MaxVer = 2
  MaxObs = 2
  MaxStage = 1
  MaxEnv = 1
INVARIANTS
  StageCoherent
  DeliveredChecked
  DeliveredReviewed
PROPERTIES
  OneAttemptPerVersion
CONSTRAINT Scenarios
CHECK_DEADLOCK FALSE

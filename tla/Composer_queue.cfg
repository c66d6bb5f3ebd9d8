SPECIFICATION Spec
CONSTANTS
  Session = {s1, s2}
  s1 = s1
  s2 = s2
  Draft = Draft
  MaxItem = 3
  QueueMax = 2
  MaxMoves = 2
  MaxEvents = 1
INVARIANTS OnePlace QueuedKept OwnSession FollowUpsInOrder
SYMMETRY Ids
CONSTRAINT Scenarios
CHECK_DEADLOCK FALSE

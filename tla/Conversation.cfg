SPECIFICATION Spec
CONSTANTS
  s1 = s1
  s2 = s2
  None = None
  Sessions = {s1, s2}
  CallNos = {1, 2}
  Limit = 4
  Keep = 1
  MaxId = 10
  MaxTurns = 2
  MaxStarts = 1
  MaxOps = 2
INVARIANTS
  NothingLost
  PairsKept
PROPERTIES
  SummaryInPlace
  RecoveryStored
SYMMETRY Symmetry
CHECK_DEADLOCK FALSE

SPECIFICATION Spec
CONSTANTS
  r1 = r1
  r2 = r2
  s1 = s1
  Runs = {r1, r2}
  Sessions = {s1}
  PlanModes = {TRUE}
  Verdicts = {"allow"}
  MaxCalls = 1
  MaxToolRounds = 1
  MaxTurns = 1
  MaxHistory = 4
  MaxSteers = 0
  EventCap = 1
  MayCancel = TRUE
  StoreMayFail = TRUE
  None = None
INVARIANTS
  PlanGate
  RequestsAreClosed
PROPERTIES
  ImplementsService
SYMMETRY RunSymmetry
CHECK_DEADLOCK FALSE

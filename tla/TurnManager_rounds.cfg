SPECIFICATION Spec
CONSTANTS
  r1 = r1
  s1 = s1
  Runs = {r1}
  Sessions = {s1}
  PlanModes = {TRUE}
  Verdicts = {"deny", "ask"}
  MaxCalls = 2
  MaxToolRounds = 1
  MaxTurns = 0
  MaxHistory = 9
  MaxSteers = 1
  EventCap = 1
  MayCancel = TRUE
  StoreMayFail = FALSE
  None = None
INVARIANTS
  OnlyApprovedToolsRun
  CallsAnsweredOnce
  OutcomeReported
CHECK_DEADLOCK FALSE

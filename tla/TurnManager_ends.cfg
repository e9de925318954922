SPECIFICATION FairSpec
CONSTANTS
  r1 = r1
  s1 = s1
  Runs = {r1}
  Sessions = {s1}
  PlanModes = {TRUE, FALSE}
  Verdicts = {"ask"}
  MaxCalls = 1
  MaxToolRounds = 2
  MaxTurns = 0
  MaxHistory = 9
  MaxSteers = 0
  EventCap = 1
  MayCancel = TRUE
  StoreMayFail = FALSE
  None = None
PROPERTIES
  CancelEndsRun
  TurnEnds
CHECK_DEADLOCK FALSE

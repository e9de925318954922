SPECIFICATION AcpFairSpec
CONSTANTS
  p1 = p1
  p2 = p2
  k1 = k1
  a = a
  Prompts = {p1, p2}
  Cancels = {k1}
  Sessions = {a}
  EventCap = 1
  Polite = FALSE
  None = None
INVARIANTS
  OnePromptInFlight
  CompletedMeansOver
PROPERTIES
  PromptsAnswered
CHECK_DEADLOCK FALSE

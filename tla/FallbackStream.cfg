SPECIFICATION FairSpec
CONSTANTS
  primary = primary
  fallback = fallback
  Clients = {primary, fallback}
  Primary = primary
  Fallback = fallback
  MaxAttempts = 2
  ChunkCap = 1
  Payloads <- MCPayloads
  MaxEvents <- MCEvents
  None = None
INVARIANTS
  DoneIsComplete
  OneSource
CHECK_DEADLOCK FALSE
PROPERTIES
  ImplementsService
  NothingLeaks
  StreamEnds

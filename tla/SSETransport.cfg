SPECIFICATION Spec
CONSTANTS
  init = init
  s1 = s1
  s2 = s2
  c1 = c1
  c2 = c2
  Senders = {init, s1, s2}
  Handshake = init
  Closers = {c1}
  Connector = connector
  Reader = reader
  OutCap = 1
  ServerRequests = TRUE
  ContextEnds = TRUE
  ClientTimeout = TRUE
  None = None
INVARIANTS
  NoneStranded
PROPERTIES
  ImplementsRpc
CHECK_DEADLOCK FALSE

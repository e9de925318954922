SPECIFICATION FairSpec
CONSTANTS
  s1 = s1
  s2 = s2
  n1 = n1
  c1 = c1
  c2 = c2
  Senders = {s1}
  Notifiers = {n1}
  Closers = {c1}
  Connector = connect
  OutCap = 2
  ServerRequests = TRUE
  None = None
PROPERTIES
  ImplementsRpc
  CallsReturn
CHECK_DEADLOCK FALSE

SPECIFICATION Spec
CONSTANTS
  Client = {c1, c2}
  NumMessages = 1
PROPERTIES
  BroadcastToAll
CHECK_DEADLOCK FALSE

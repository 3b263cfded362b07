SPECIFICATION FairSpec
CONSTANTS
  c1 = c1
  c2 = c2
  c3 = c3
  Conn = {c1, c2, c3}
  NoConn = none
  Worker = {w1, w2}
  Silences <- SilentUpToAll
  SocketLimits = {4}
PROPERTIES
  ReadsDoNotBlock
CHECK_DEADLOCK FALSE

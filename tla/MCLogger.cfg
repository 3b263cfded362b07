SPECIFICATION Spec
CONSTANTS
  p1 = p1
  p2 = p2
  t1 = t1
  t2 = t2
  t3 = t3
  Proc = {p1, p2}
  Thread = {t1, t2, t3}
  ProcOf <- TwoProcesses
  NoThread = none
  CurrentLevel = 1
  Levels = {2}
  LogsToFile = TRUE
  Lengths = {1, 2}
  MaxFileSize = 2
  MaxCalls = 3
  MaxClock = 2
SYMMETRY Symmetry
INVARIANTS
  TypeOK
  Serialised
  NothingLost
  ReadsInOrder
  OneLineOver

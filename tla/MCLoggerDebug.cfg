SPECIFICATION Spec
CONSTANTS
  p1 = p1
  p2 = p2
  t1 = t1
  t2 = t2
  t3 = t3
  Proc = {p1, p2}
  Thread = {t1, t2, t3}
  ProcOf <- TwoProcesses
  NoThread = none
  CurrentLevel = 0
  Levels = {0, 3}
  LogsToFile = FALSE
  Lengths = {1}
  MaxFileSize = 1
  MaxCalls = 2
  MaxClock = 0

INVARIANTS
  DebugSuppressed

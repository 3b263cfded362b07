SPECIFICATION FairSpec
CONSTANTS
  Free = free
  Zero = zero
  None = None
  NotADict = NotADict
  Torn = Torn
  Missing = Missing
  NoCaller = nobody
  Client = {c1}
  NumMessages = 3
  NumChunks = 3
  NUMBER_OF_MESSAGES = 3
  MaxSignals = 2
  MaxFailures = 2
  k1 = k1
  k2 = k2
  MaxSaves = 3
  MaxClock = 2
  MaxCalls = 2
  MaxIter = 9
  Thread <- Threads
  Process = {"A", "B"}
  ProcessOf <- TwoAndOne
  Message = {"long", "short"}
  StrLen <- Lengths
  Size = 2
  watched_paths <- Paths
  Config <- Configurations
  Inputs <- Numbers
  Caller = {k1, k2}
  Argument = "argument"
  Garbage = "garbage"
INVARIANTS
  TypeOK
  MailboxSafe
  WatcherSafe
  NoConflict
  SuccessMeansDone
  SignalsCloseTheSocket
  KaprekarRoutine
PROPERTIES
  ReaderShutsOut
  CatchesUp
  OnePathIsEnough
  Terminates
CHECK_DEADLOCK FALSE

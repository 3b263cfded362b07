SPECIFICATION FairSenderSpec
CONSTANTS
  Worker = {w1, w2, w3}
  Main = main
  NoThread = none
  NumTasks = 4
  Silences <- AllSilences
INVARIANTS
  TypeOK
  MutexOwned
  FifoQueue
  ExactlyOnce
  NoLostWakeup
  DestructorDrains
PROPERTIES
  ImplementsTaskPool
  OthersEnd
  ReturnsIfAnswered
CHECK_DEADLOCK FALSE

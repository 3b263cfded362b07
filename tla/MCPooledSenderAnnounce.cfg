SPECIFICATION FairSenderSpec
CONSTANTS
  Worker = {w1, w2, w3}
  Main = main
  NoThread = none
  NumTasks = 4
  Silences <- AllSilences
INVARIANTS
  AnnouncedMeansSent
CHECK_DEADLOCK FALSE

SPECIFICATION SendersSpec
CONSTANTS
  w1 = w1
  w2 = w2
  Worker = {w1, w2}
  NoWorker = none
  NumRequests = 4
  BatchSize = 2
  MaxThreads = 3
  TOTAL_REQUESTS = 9
  REQUESTS_PER_SECOND = 2
  Timeout = 2
  ThreadLimits = {3, 8, 9}
INVARIANTS
  SendersTypeOK
  Conserved
  LastMeansAll
  RetryWaitsItsTurn
  InFlightBounded
PROPERTIES
  AllEnd

SPECIFICATION Spec
CONSTANTS
  NumChunks = 3
INVARIANTS
  SuccessMeansStored
CHECK_DEADLOCK FALSE

\* An epoch may start before the previous one is aligned.
CONSTANTS
  NumInputs = 2
  MaxData = 1
  MaxEpoch = 3
  StopEpochs = {}
  MaxWM = 0
  Overlap = TRUE
SPECIFICATION Spec
INVARIANT SnapshotCovers
CHECK_DEADLOCK FALSE

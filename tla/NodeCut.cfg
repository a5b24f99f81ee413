\* Is the snapshot of a merge node a consistent cut of its inputs?
CONSTANTS
  NumInputs = 2
  MaxData = 2
  MaxEpoch = 1
  StopEpochs = {}
  MaxWM = 0
  Overlap = FALSE
SPECIFICATION Spec
INVARIANT SnapshotConsistent
CHECK_DEADLOCK FALSE

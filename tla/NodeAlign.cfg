\* One merge node, two inputs, two epochs one after the other, the second with ThenStop.
CONSTANTS
  NumInputs = 2
  MaxData = 2
  MaxEpoch = 2
  StopEpochs = {2}
  MaxWM = 0
  Overlap = FALSE
SPECIFICATION Spec
INVARIANTS TypeOK InputOrder NoneLost SnapshotCovers SnapshotAligned BarrierNotLost StopIsLast
CHECK_DEADLOCK FALSE

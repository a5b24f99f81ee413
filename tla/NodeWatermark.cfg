\* Watermarks, idleness and stops.
CONSTANTS
  NumInputs = 2
  MaxData = 1
  MaxEpoch = 0
  StopEpochs = {}
  MaxWM = 2
  Overlap = FALSE
SPECIFICATION Spec
INVARIANT WatermarkIsPromised
PROPERTY WatermarkMonotone
CHECK_DEADLOCK FALSE

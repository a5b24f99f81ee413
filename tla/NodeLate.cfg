\* Watermarks and one alignment.
CONSTANTS
  NumInputs = 2
  MaxData = 2
  MaxEpoch = 1
  StopEpochs = {}
  MaxWM = 2
  Overlap = FALSE
SPECIFICATION Spec
INVARIANT WatermarkBehindData
CHECK_DEADLOCK FALSE

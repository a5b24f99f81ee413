\* A pool under fail-pipeline whose last message fails.
CONSTANTS
  Setups <- EngineFail
  Size = 1
  DLCap = 1
  Signals = {"barrier", "stop"}
  MaxData = 3
SPECIFICATION Spec
INVARIANT FailureIsSeen
CHECK_DEADLOCK FALSE

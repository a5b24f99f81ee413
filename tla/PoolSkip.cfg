\* A pool under skip-and-log: which messages are skipped?
CONSTANTS
  Setups <- EngineSkip
  Size = 1
  DLCap = 1
  Signals = {"barrier", "stop"}
  MaxData = 3
SPECIFICATION Spec
INVARIANT OriginalCaused
CHECK_DEADLOCK FALSE

\* A dead-letter sink that fails.
CONSTANTS
  Setups <- PlainDeadLetter
  Size = 1
  DLCap = 1
  Signals = {"barrier", "stop"}
  MaxData = 3
SPECIFICATION FairSpec
PROPERTY EndsAnyway
CHECK_DEADLOCK FALSE

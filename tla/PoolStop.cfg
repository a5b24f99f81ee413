\* The stop of a node with nodes.Concurrent.
CONSTANTS
  Setups <- NodesSkip
  Size = 1
  DLCap = 1
  Signals = {"barrier", "stop"}
  MaxData = 3
SPECIFICATION Spec
INVARIANT StopBehindData
CHECK_DEADLOCK FALSE

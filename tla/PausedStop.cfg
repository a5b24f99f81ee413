\* Stop of a paused pipeline.
CONSTANTS
  s = s
  s2 = s2
  a = a
  k = k
  Nodes <- PairNodes
  Sources <- OneSource
  Outputs <- PairOutputs
  BufCap = 1
  MergedCap = 1
  MaxData = 1
  Calls = {"pause", "stop"}
  Serial = {}
  Expires = {}
  Fails = {}
  Strategies = {"skip"}
SPECIFICATION FiniteSpec
PROPERTY StopCompletes
CHECK_DEADLOCK FALSE

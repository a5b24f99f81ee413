\* The source's goroutine after Stop.
CONSTANTS
  s = s
  s2 = s2
  a = a
  k = k
  Nodes <- PairNodes
  Sources <- OneSource
  Outputs <- PairOutputs
  BufCap = 1
  MergedCap = 1
  MaxData = 3
  Calls = {"stop"}
  Serial = {}
  Expires = {}
  Fails = {}
  Strategies = {"skip"}
SPECIFICATION FiniteSpec
PROPERTY SourcesExit
CHECK_DEADLOCK FALSE

\* The source ends by itself; Pause, then a Resume that may expire.
CONSTANTS
  s = s
  s2 = s2
  a = a
  k = k
  Nodes <- ChainNodes
  Sources <- OneSource
  Outputs <- DiamondOutputs
  BufCap = 1
  MergedCap = 1
  MaxData = 1
  Calls = {"pause", "resume"}
  Serial = {"pause", "resume"}
  Expires = {"resume"}
  Fails = {}
  Strategies = {"skip"}
SPECIFICATION FiniteSpec
INVARIANT Drained
PROPERTIES SourcesEndThenDone PauseTakesHold LifecycleMoves
CHECK_DEADLOCK FALSE

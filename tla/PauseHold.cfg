\* Pause and then Resume, both with contexts that may expire.
CONSTANTS
  s = s
  s2 = s2
  a = a
  k = k
  Nodes <- ChainNodes
  Sources <- OneSource
  Outputs <- ChainOutputs
  BufCap = 1
  MergedCap = 1
  MaxData = 2
  Calls = {"pause", "resume"}
  Serial = {"pause", "resume"}
  Expires = {"pause", "resume"}
  Fails = {}
  Strategies = {"skip"}
SPECIFICATION FiniteSpec
PROPERTY PauseTakesHold
CHECK_DEADLOCK FALSE

\* Pause and Resume at once.
CONSTANTS
  s = s
  s2 = s2
  a = a
  k = k
  Nodes <- PairNodes
  Sources <- OneSource
  Outputs <- PairOutputs
  BufCap = 1
  MergedCap = 1
  MaxData = 1
  Calls = {"pause", "resume"}
  Serial = {}
  Expires = {}
  Fails = {}
  Strategies = {"skip"}
SPECIFICATION FairSpec
PROPERTY PauseTakesHold
CHECK_DEADLOCK FALSE

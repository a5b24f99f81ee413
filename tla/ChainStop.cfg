\* One Stop, whose context may expire, while the source produces, ends or is blocked.
CONSTANTS
  s = s
  s2 = s2
  a = a
  k = k
  Nodes <- ChainNodes
  Sources <- OneSource
  Outputs <- ChainOutputs
  BufCap = 1
  MergedCap = 1
  MaxData = 2
  Calls = {"stop"}
  Serial = {}
  Expires = {"stop"}
  Fails = {k}
  Strategies = {"skip"}
SPECIFICATION FairSpec
INVARIANTS OneCut FinalCheckpointTaken
PROPERTIES StopCompletes LifecycleMoves
CHECK_DEADLOCK FALSE

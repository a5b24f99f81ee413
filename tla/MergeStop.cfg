\* Stop of a merge while one of the sources may have ended.
CONSTANTS
  s = s
  s2 = s2
  a = a
  k = k
  Nodes <- MergeNodes
  Sources <- TwoSources
  Outputs <- MergeOutputs
  BufCap = 1
  MergedCap = 1
  MaxData = 1
  Calls = {"stop"}
  Serial = {}
  Expires = {}
  Fails = {}
  Strategies = {"skip"}
SPECIFICATION FiniteSpec
PROPERTY StopCompletes
CHECK_DEADLOCK FALSE

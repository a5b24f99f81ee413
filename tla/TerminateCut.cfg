\* Stop overtaken by Terminate.
CONSTANTS
  s = s
  s2 = s2
  a = a
  k = k
  Nodes <- ChainNodes
  Sources <- OneSource
  Outputs <- ChainOutputs
  BufCap = 1
  MergedCap = 1
  MaxData = 2
  Calls = {"stop", "terminate"}
  Serial = {}
  Expires = {}
  Fails = {k}
  Strategies = {"skip"}
SPECIFICATION Spec
INVARIANT OneCut
CHECK_DEADLOCK FALSE

\* Stop of a source with two outputs.
CONSTANTS
  s = s
  s2 = s2
  a = a
  k = k
  Nodes <- ChainNodes
  Sources <- OneSource
  Outputs <- BranchOutputs
  BufCap = 1
  MergedCap = 1
  MaxData = 1
  Calls = {"stop"}
  Serial = {}
  Expires = {}
  Fails = {}
  Strategies = {"skip"}
SPECIFICATION Spec
INVARIANT OneCut
CHECK_DEADLOCK FALSE

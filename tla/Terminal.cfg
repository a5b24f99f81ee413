\* A sink that fails, and the monitor.
CONSTANTS
  s = s
  s2 = s2
  a = a
  k = k
  Nodes <- PairNodes
  Sources <- OneSource
  Outputs <- PairOutputs
  BufCap = 1
  MergedCap = 1
  MaxData = 1
  Calls = {}
  Serial = {}
  Expires = {}
  Fails = {k}
  Strategies = {"fail"}
SPECIFICATION Spec
PROPERTY TerminalIsFinal
CHECK_DEADLOCK FALSE

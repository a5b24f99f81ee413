\* Pause and then Terminate, whose context may expire, at any moment; a sink that may fail.
CONSTANTS
  s = s
  s2 = s2
  a = a
  k = k
  Nodes <- ChainNodes
  Sources <- OneSource
  Outputs <- ChainOutputs
  BufCap = 1
  MergedCap = 1
  MaxData = 1
  Calls = {"pause", "terminate"}
  Serial = {"terminate"}
  Expires = {"terminate"}
  Fails = {k}
  Strategies = {"fail"}
SPECIFICATION FairSpec
PROPERTIES TerminateCompletes FailureCompletes
CHECK_DEADLOCK FALSE

\* More nodes than the stop channel holds.
CONSTANTS
  Nodes = {n1, n2}
  Epochs = {1}
  External = {}
  Cap = 1
  Duplicates = FALSE
  Cancels = TRUE
SPECIFICATION FairSpec
PROPERTY NodesExit
CHECK_DEADLOCK FALSE

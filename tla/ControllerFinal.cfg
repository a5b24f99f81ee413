\* A graceful stop: no cancellation, one epoch.
CONSTANTS
  Nodes = {n1, n2}
  Epochs = {1}
  External = {}
  Cap = 2
  Duplicates = FALSE
  Cancels = FALSE
SPECIFICATION FairSpec
PROPERTY FinalCheckpointCompletes
CHECK_DEADLOCK FALSE

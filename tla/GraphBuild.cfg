\* All calls on up to three nodes, and on four nodes with four edges, loops and parallel edges included.
CONSTANTS
  Ids = {1, 2, 3, 4}
  Limits <- AllLimits
SPECIFICATION FairSpec
INVARIANTS CyclesAreFound AllReached WiredAsConnected
PROPERTY BuildReturns
CHECK_DEADLOCK FALSE

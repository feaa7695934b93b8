SPECIFICATION FairSpec
CONSTANTS
  Nodes <- DiamondNodes
  Order <- DiamondOrder
  Kind <- DiamondKind
  Ins <- DiamondIns
  Outs <- DiamondOuts
  Cap = 1
  MaxBatches <- DiamondBatches
  DryRun = FALSE
  Limit = 0
  Fallible = {}
  Panicky = {}
PROPERTIES Termination
\* This pipeline really stops: every task waits for another one.
CHECK_DEADLOCK FALSE

SPECIFICATION FairSpec
CONSTANTS
  Nodes <- TapNodes
  Order <- TapOrder
  Kind <- TapKind
  Ins <- TapIns
  Outs <- TapOuts
  Cap = 1
  MaxBatches <- TapBatches
  DryRun = FALSE
  Limit = 0
  Fallible <- TapNodes
  Panicky <- TapNodes
INVARIANTS CommitNeedsCleanUpstream SuccessDelivers ReportsRootCause
PROPERTIES Termination

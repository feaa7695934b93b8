SPECIFICATION FairSpec
CONSTANTS
  Nodes <- GroupNodes
  Order <- GroupOrder
  Kind <- GroupKind
  Ins <- GroupIns
  Outs <- GroupOuts
  Cap = 1
  MaxBatches <- GroupBatches
  DryRun = FALSE
  Limit = 0
  Fallible <- GroupNodes
  Panicky <- GroupNodes
INVARIANTS DeliveryInv BoundedBuffering
PROPERTIES Termination ContractSpec

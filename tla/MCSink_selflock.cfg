CONSTANTS
  k1 = k1
  k2 = k2
  v1 = v1
  v2 = v2
  v3 = v3
  Keys = {k1, k2}
  Values = {v1, v2, v3}
  Compared <- MCCompared
  Chunk = 1
  Threshold = 2
  Batches <- MCInput
  Plans <- LockPlans
  Bases <- MCBases
  Conns = {1, 2}
  MaxBatches = 2
SPECIFICATION Spec
PROPERTIES Ends

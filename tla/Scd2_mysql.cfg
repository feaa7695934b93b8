\* Every statement in autocommit, NULL keys.
CONSTANTS
  Driver = "mysql"
  Keys = {k1, k2, NullKey}
  Values = {v1, d1, Null}
  NullKey = NullKey
  Null = Null
  Empty = Empty
  Unread = {d1}
  CloseMissing = TRUE
  ChunkSize = 2
  Distinct = TRUE
  BatchRows = 2
  MaxWrites = 1
  MaxRuns = 3
SPECIFICATION Spec
INVARIANTS OneCurrent SnapshotConverges

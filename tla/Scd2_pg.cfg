\* One transaction per write, the sweep in autocommit.
CONSTANTS
  Driver = "postgres"
  Keys = {k1, k2}
  Values = {v1, d1, Null}
  NullKey = NullKey
  Null = Null
  Empty = Empty
  Unread = {d1}
  CloseMissing = TRUE
  ChunkSize = 1
  Distinct = TRUE
  BatchRows = 2
  MaxWrites = 2
  MaxRuns = 2
SPECIFICATION Spec
INVARIANTS HistoryInv SnapshotConverges
PROPERTIES UnchangedUntouched KeyNeverVanishes

CONSTANTS
  Rows = 4
  Keyless = {2}
  PageSize = 2
  BatchSize = 3
  MaxInserts = 2
  MaxDeletes = 1
  Batch = 2
  MaxBatches = 2
  MaxParts = 2
  MaxPages = 4
  MaxCalls = 2
  MaxFaults = 2
  SecretPaths = {p1, p2}
  Margin = 2
  Lifetimes = {1, 5}
  Year = 10
  MaxTime = 7
  TableRows = 4
  PageRows = 2
  ReadAhead = 2
  TableChanges = 1
SPECIFICATION Spec
INVARIANTS SettledRowsArrive EachRowOnce FileIsOldOrWhole PagesArrive OneInDoubt TokenLives
PROPERTIES Released SettledRowsReadOnce EveryConnectorEnds
\* A step that has ended stays as it is.
CHECK_DEADLOCK FALSE

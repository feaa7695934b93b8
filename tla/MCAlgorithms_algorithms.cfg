SPECIFICATION Spec
CHECK_DEADLOCK FALSE
CONSTANTS
  Null = Null
  Nothing = Nothing
  None = None
  JoinKeys = {"a", "b"}
  MaxLeft = 3
  MaxRight = 3
  GroupNames = {"", "g"}
  GroupValues = {2, 9, 10}
  MaxRows = 3
  MaxPattern = 4
  MaxText = 3
INVARIANTS RowsAreSql ExpressionsAreSound PathsMatch NestedValuesKept SecretsReplaceTheirReferences ColumnsHoldTheirValues PostgresStores ValuesKeptOrRefused BatchesKeepTheirShape TablesRunAgain

\* Pipelines of up to four steps, put together through the API.
CONSTANTS
  Ids = {a, b, c, d}
  Selfish = FALSE
  MaxSteps = 4
SPECIFICATION Spec
SYMMETRY IdSymmetry
INVARIANTS FitsExecutor

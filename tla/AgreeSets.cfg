SPECIFICATION MinersSpec
CONSTANTS
  NumColumns = 4
  MaxValue = 3
  MaxRows = 4
  Candidates = {2, 3, 4}
  ToView = 2
INVARIANT SupersetsKeepAll
CHECK_DEADLOCK FALSE

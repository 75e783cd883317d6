SPECIFICATION SixRowsSpec
CONSTANTS
  NumColumns = 6
  MaxValue = 9
  MaxRows = 6
  Candidates = {2, 3, 4, 5, 6}
  ToView = 2
INVARIANT OnlyFdsAreFound
CHECK_DEADLOCK FALSE

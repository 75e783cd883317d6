CONSTANTS
  LhsValues = {l1, l2}
  RhsValues = {r1, r2}
  Blank = Blank
  SizeLimit = 16
  MaxRows = 3
  MaxBatch = 2
  MaxCalls = 1
  Reloads = FALSE
SPECIFICATION DynamicSpec
CHECK_DEADLOCK FALSE
INVARIANT FDHoldsIsRight

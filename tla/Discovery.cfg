SPECIFICATION DiscoverySpec
CONSTANTS
  Shapes <- MCShapes
  ColumnCounts <- MCColumnCounts
  MaxBlocks = 4
  BlockColumns = {{0}, {1}, {0, 2}}
  MemLimits = {2, 3, 4, 6}
  WorstBlock = 2
  SizeOfT = 16
  LhsValues = {l1, l2}
  RhsValues = {r1, r2}
  Blank = Blank
  SizeLimit = 16
  MaxRows = 3
  MaxBatch = 2
  MaxCalls = 2
  Reloads = TRUE
SYMMETRY Symmetry
INVARIANTS
  IndexesAreRight
  VerdictIsRight
  DomainsAreRight
  IndsAreRight
  OrdersAreRight
  VerifiersAreRight
  ReportsAreRight
CHECK_DEADLOCK FALSE

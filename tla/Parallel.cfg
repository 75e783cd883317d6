CONSTANTS
  Workers = {w1, w2}
  Main = main
  MaxJobs = 2
  SpawnMayFail = TRUE
SPECIFICATION ParallelSpec
INVARIANTS
  TypeOK NoStrayWork RunsCurrentJob EachThreadRanEachJob ErrorsAreReported BarrierIsConsistent
  WorkIsDoneOnce ParentsAreAlive
PROPERTIES
  ImplementsForkJoin EveryCallReturns

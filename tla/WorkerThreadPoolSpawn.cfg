CONSTANTS
  Workers = {w1, w2}
  Main = main
  MaxJobs = 1
  SpawnMayFail = TRUE
SPECIFICATION FairSpec
PROPERTY ConstructorRethrows

SPECIFICATION MCSpec
CONSTANTS
  w1 = w1
  w2 = w2
  Workers = {w1, w2}
  None = None
  NoEpisode = {}
  BlockEpisodes <- ThreeParallelEpisodes
  Window = 3
  Database <- FourEvents
  EventsNum = 4
  SizeLimit = 64
  EventNumbers = {0, 1, 3}
  Length = 3
  Databases <- MCDatabases
  Ks = {2}
  Windows = {2, 3}
  MaxExecutes = 1
  Times = 4
  MaxBlocks = 3
  WindowLength = 3
  Seeds <- MCSeeds
  Episode <- MCEpisode
  Children <- MCChildren
  Extends <- MCExtends
  Support <- MCSupport
  ExtensionSupport <- MCSupport
  LeastSupport <- MCSupport
  CutsExtensions = FALSE
  K = 7
  Floor = 1
  Capacity = 2
  TasksPerThread = 2
INVARIANTS
  TypeOK
  TaskIsThere
  InFlightIsExact
  MineIsRight
  CompositesAreRight
  EpisodesAreRight
  GraphsAreRight
  AnswerIsRight
PROPERTY
  SearchEnds

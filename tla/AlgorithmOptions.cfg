CONSTANTS
  NoValue = NoValue
  Algorithms = {"pac", "metric", "aod"}
  Options <- AllNames
  LoadOptions <- AllLoad
  ExecuteOptions <- AllExecute
  Offered <- AllOffered
  Keywords <- AllKeywords
  DefaultOf <- AllDefault
  Accepts <- AllAccepts
  CondOpts <- AllCondOpts
  RequiredIf <- AllRequired
  ClearedOptions <- AodExecute
  DirectlyUsed = {"aod"}
SPECIFICATION FairSpec
INVARIANTS
  SnapshotStaysValid
  RunsOnCheckedValues
  RegistryIsRight
  RequestIsUsedUndisturbed
  AlgoCheckInCalls
PROPERTIES
  OneContextIsEnough
  ConfigurationEnds

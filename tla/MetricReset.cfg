CONSTANTS
  NoValue = NoValue
  Algorithms = {"metric"}
  Options <- AllNames
  LoadOptions <- AllLoad
  ExecuteOptions <- AllExecute
  Offered <- AllOffered
  Keywords <- AllKeywords
  DefaultOf <- AllDefault
  Accepts <- AllAccepts
  CondOpts <- AllCondOpts
  RequiredIf <- AllRequired
  ClearedOptions <- AodExecute
  DirectlyUsed = {"metric"}
SPECIFICATION Spec
INVARIANT AlgoCheckAssertion

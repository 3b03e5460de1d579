SPECIFICATION ASpec
CONSTANTS
  Methods <- SmallMethods
  Callees <- TheCallees
  BranchLimit = 4
  RoundLimit = 8
  SizeLimit = 2
  MaxTargets = 2
INVARIANTS
  KnownIsReal
  ConditionIsTheLast
  CallsAreExact
  BranchesBounded
PROPERTY
  FlowEnds
CHECK_DEADLOCK FALSE

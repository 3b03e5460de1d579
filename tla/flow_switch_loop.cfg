SPECIFICATION ASpec
CONSTANTS
  Methods <- SwitchLoops
  Queries = {"decisions"}
  Modes = {TRUE}
  MaxIterations = 10
  BranchLimit = 4
  MaxTargets = 2
  MaxResets = 1
INVARIANT DeadBranchIsDead
CHECK_DEADLOCK FALSE

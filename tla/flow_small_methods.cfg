SPECIFICATION ASpec
CONSTANTS
  Methods <- SmallMethods
  Queries = {"decisions", "calls", "reads", "steps"}
  Modes = {TRUE, FALSE}
  MaxIterations = 10
  BranchLimit = 4
  MaxTargets = 2
  MaxResets = 1
INVARIANTS TypeOK UntaintedIsExact DeadBranchIsDeadHere SearchIsComplete BranchesBounded
CHECK_DEADLOCK FALSE

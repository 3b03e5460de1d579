SPECIFICATION FairSpec
CONSTANTS
  Threads = {t1, t2}
  Workers = {w}
  Vms = {v1, v2}
  Classes = {"K"}
  Bodies <- SomeBodies
  MaxCalls = 3
INVARIANTS
  CirclesNeedCallbacks
  HeldAsLongAsNeeded
  PoisonedTogether
  CallsAnswerAnew
PROPERTY
  CallsReturn
CHECK_DEADLOCK FALSE

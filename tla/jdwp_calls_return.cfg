SPECIFICATION FairSpec
CONSTANTS
  RegisterSize = 1
  TypeCount = 2
  Calls <- ReturnCalls
  MaxSent = 7
  MaxEvents = 1
  MaxGivenUp = 0
  MaxValue = 1
  MayClose = TRUE
  MayLosePeer = TRUE
INVARIANT OrderInv
PROPERTIES StreamSpec CallsReturn TimedCallsReturn CloseReleasesCalls
CHECK_DEADLOCK FALSE

SPECIFICATION Spec
CONSTANTS
  RegisterSize = 1
  TypeCount = 2
  Calls <- EventLoopCalls
  MaxSent = 9
  MaxEvents = 1
  MaxGivenUp = 0
  MaxValue = 1
  MayClose = FALSE
  MayLosePeer = FALSE
PROPERTY StopsReachWaitForPackage
CHECK_DEADLOCK FALSE

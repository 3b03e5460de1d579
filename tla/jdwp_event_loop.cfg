SPECIFICATION Spec
CONSTANTS
  RegisterSize = 2
  TypeCount = 2
  Calls <- AllCalls
  MaxSent = 9
  MaxEvents = 2
  MaxGivenUp = 1
  MaxValue = 1
  MayClose = FALSE
  MayLosePeer = FALSE
INVARIANTS TypeOK NextReplyIsOwedOne ListedBreakpointsExist LastStepIsLive UnseenStopIsUnderway
CHECK_DEADLOCK FALSE

SPECIFICATION Spec
CONSTANTS
  Methods <- MCMethods
  Fields <- MCFields
  MethodOf <- MCMethodOf
  FieldOf <- MCFieldOf
  Programs <- BodyPrograms
  MaxSteps = 12
  MaxFrames = 2
  MaxDepth = 60
  MaxErrors = 1
  OwnFields = {"own"}
INVARIANTS TypeOK StackIsChainOfCalls CallDepthBounded NotedStringsAreOwn SecondFindsAgain
PROPERTIES OwnFieldsNoted ArgumentsReportedOnce PassedIsNoted
CHECK_DEADLOCK FALSE

SPECIFICATION FairSpec
CONSTANTS
  Methods <- MCMethods
  Fields <- MCFields
  MethodOf <- MCMethodOf
  FieldOf <- MCFieldOf
  Programs <- LoopPrograms
  MaxSteps = 12
  MaxFrames = 2
  MaxDepth = 60
  MaxErrors = 2
  OwnFields = {"own"}
PROPERTIES DiscoveryEnds
CHECK_DEADLOCK FALSE

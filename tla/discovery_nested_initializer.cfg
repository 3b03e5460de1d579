SPECIFICATION Spec
CONSTANTS
  Methods <- MCMethods
  Fields <- MCFields
  MethodOf <- MCMethodOf
  FieldOf <- MCFieldOf
  Programs <- MethodPrograms
  MaxSteps = 12
  MaxFrames = 2
  MaxDepth = 60
  MaxErrors = 1
  OwnFields = {"own"}
INVARIANTS NoArgumentStopsInInitializer
CHECK_DEADLOCK FALSE

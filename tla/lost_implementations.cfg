SPECIFICATION Spec
CONSTANTS
  Archives <- MarkedArchives
  Excluded = {"X"}
  MayCancel = TRUE
  NameLimit = 6
  Endings <- SomeEndings
INVARIANT
  FindsAllImplementations
CHECK_DEADLOCK FALSE

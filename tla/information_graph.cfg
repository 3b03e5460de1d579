SPECIFICATION Spec
CONSTANTS
  Archives <- LoadedApps
  Excluded = {"X"}
  MayCancel = TRUE
  NameLimit = 6
  Endings <- SomeEndings
INVARIANTS
  RelativesAreAll
  OnlyMappedAreLinked
  
  ArgumentsAreTheCalls
  ImplementationsAreLinked
  CallgraphIsSound
CHECK_DEADLOCK FALSE

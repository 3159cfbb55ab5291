SPECIFICATION Spec
CONSTANTS
  Dests = {0, 1}
  NameLen <- Lengths
  TempName <- Temps
  Now = 50
  Scenarios <- AllScenarios
INVARIANTS
  TypeOK
  HealthyDestMirrors
  CleanExitMirrors
  RepairableIsRepaired
  NothingTwice
PROPERTIES
  RemovesOnlyExtraneous
  RunEnds
CHECK_DEADLOCK FALSE

SPECIFICATION Spec
CONSTANTS
  Dests = {0, 1}
  NameLen <- Lengths
  TempName <- Temps
  Now = 50
  Scenarios <- DeniedOnly
PROPERTY PartialNeverClean
CHECK_DEADLOCK FALSE

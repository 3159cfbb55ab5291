SPECIFICATION Spec
CONSTANTS
  a = a
  b = b
  c = c
  NoItem = NoItem
  Transfers <- Files2
  Targets <- AllTargets
  Size <- Ones
  Dests = {0}
  Streams = 2
  PreserveMtime = FALSE
  Limit = 2
INVARIANTS
  CleanExitMeansComplete

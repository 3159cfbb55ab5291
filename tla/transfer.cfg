SPECIFICATION Spec
CONSTANTS
  a = a
  b = b
  c = c
  NoItem = NoItem
  Transfers <- Files3
  Targets <- MixedTargets
  Size <- Sizes
  Dests = {0, 1}
  Streams = 2
  PreserveMtime = TRUE
  Limit = 3
INVARIANTS
  TypeOK
  NoTruncatedFinal
  ProgressExact
  HealthyDestComplete
  ReportExact
  TempsRemoved
  WriteOffExact
  QueueDrained
  CleanExitMeansComplete
PROPERTY Termination

SPECIFICATION Spec
CONSTANTS
  Streams = {1, 2}
  Queues <- Plans
  MinSamples = 1
  SmallShare = 2
  Interval = 2
  MaxTime = 2
INVARIANTS
  TypeOK
  TimelineSound
  ReportAddsUp
  EstimateSound

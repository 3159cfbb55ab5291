SPECIFICATION MCSpec
CONSTANTS
  Dests = {0, 1, 2}
  Files = {1, 2}
  Overlapping <- ThirdInFirst
  MaxPlugs = 2
  Serials = {"s1", "s2"}
  MaxEvents = 2
INVARIANTS
  CleanExitEverywhere
  PresentGetBackup
  OnePhone
  LandsWhereDue
PROPERTY DestsKeepTheirFiles

SPECIFICATION Spec
CONSTANTS
  Dests = {0, 1}
  Files = {1, 2}
  Overlapping = {}
  MaxPlugs = 2
INVARIANT InternalOnlyByMkpath

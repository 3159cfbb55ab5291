SPECIFICATION Spec
CONSTANTS
  Targets = {1, 2, 3}
  Chunks = 2
  ChunkLen = 3
INVARIANTS
  TypeOK
  NoByteTwice
  OpenMeansWhole
PROPERTY
  Implements

CONSTANTS
  a = a  b = b  c = c
  Files <- FilesABC
  Size <- Sizes
  Attempts = 3
SPECIFICATION Spec
INVARIANTS NoCrossTalk Aligned RefusalsCostNoSession EveryFileAccounted
PROPERTY WorkerEnds

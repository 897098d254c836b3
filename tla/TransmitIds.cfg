SPECIFICATION Spec
CONSTANTS
  Worker = {w1, w2}
  None = None
  FileSize = 9
  ChunkSize = 2
  PktSize = 2
  Overhead = 1
  Faults = FALSE
  Signals = FALSE
CHECK_DEADLOCK FALSE
INVARIANT
  HeapIdsDistinct

SPECIFICATION FairSpec
CONSTANTS
  Worker = {w1, w2}
  None = None
  Input = 7
  ChunkSize = 3
  ReadFaults = FALSE
PROPERTY
  WorkersEnd

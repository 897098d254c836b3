SPECIFICATION MCSpec
CONSTANTS
  Worker = {w1, w2}
  None = None
  Input = 7
  ChunkSize = 3
  ReadFaults = TRUE
  Wire <- Packets
  MaxAdds = 4
  SenderLines <- Lines
  MaxSender = 2
  PatternHeaps = 1
  HeapPackets = 1
  SenderFaults = TRUE
CHECK_DEADLOCK FALSE
INVARIANTS
  ChunksAligned
  HeapHonest
  ReplayInTurn
PROPERTIES
  ChunksReach
  SenderEnds

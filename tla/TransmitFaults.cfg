SPECIFICATION FairSpec
CONSTANTS
  Worker = {w1, w2}
  None = None
  FileSize = 9
  ChunkSize = 2
  PktSize = 4
  Overhead = 7
  Faults = TRUE
  Signals = TRUE
CHECK_DEADLOCK FALSE
INVARIANTS
  TwiceOnlyAfterFailure
  NoOrphans
  ObjectsConserved
  BankSuffices
PROPERTIES
  TransmitEnds
  ImplementsSender

SPECIFICATION MCSpec
CONSTANTS
  a = a
  b = b
  c = c
  Worker = {w1, w2}
  None = None
  Datagram = {a, b, c}
  Length <- Lengths
  Faults = TRUE
  Signals = TRUE
  CommandLines <- Lines
  McsCommandLines <- McsLines
  MaxChild = 2
  Heaps = 2
  Alarms = 2
  ServerFaults = TRUE
  ModChild = {m1, m2}
  Pipeline <- Both
  Traffic <- Arrivals
  Block = {b1, b2}
  NoBlock = NoBlock
  NoFile = NoFile
  MaxTimers = 1
  ModFaults = TRUE
CHECK_DEADLOCK FALSE
INVARIANTS
  FileWhole
  PipelineInOrder
  RatesHonest
  NoneLeftBehind
  SharedDataRight
  CopyHonest
PROPERTIES
  RawCaptureDrains
  StopsWhenTold

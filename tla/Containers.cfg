SPECIFICATION Spec
CONSTANTS
  TreeKeys <- MCTreeKeys
  Sought <- MCSought
  Grown <- MCGrown
  Priority = {0, 1, 2, 3}
  Datum = {d1, d2, d3, d4}
  QueueFaults = TRUE
  HUser = {p1, p2}
  HTable = {t1, t2}
  HLen = 2
  HObject = {o1, o2, o3}
  NoObject = NoObject
  MemUser = {p1, p2}
  BlockSize = {2}
  HeaderSize = 1
  NodeSize = 2
  RegionSize = 7
  MaxRegion = 2
  MaxAsk = 2
CHECK_DEADLOCK FALSE
INVARIANTS
  TreeRight
  WalksWhole
  BlocksTile
PROPERTIES
  FindsRight
  PullsHighest
  ImplementsBank

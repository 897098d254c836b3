SPECIFICATION Spec
CONSTANTS
  Groups <- MCGroups
  PktSizes = {2, 3}
  TableLens = {1, 2, 3, 4, 5}
  TableLen = 3
  BankSize = 3
  HeaderLen = 1
  ItemLen = 1
  MaxPacketLen = 11
  ImmLen = 2
  StructLen = 1
  WordSize = 64
CHECK_DEADLOCK FALSE
INVARIANTS
  PayloadFits
  CutsTheGroup
  RoundTrip
  ArenaSuffices
PROPERTY
  ConversionEnds

SPECIFICATION Spec
CONSTANTS
  w1 = w1
  w2 = w2
  x1 = x1
  x2 = x2
  x3 = x3
  None = None
  Worker = {w1, w2}
  Object = {x1, x2, x3}
  Backlog = 3
  TableLen = 3
  Datagram <- TwoHeaps
  MaxCopies = 2
  Signals = FALSE
CHECK_DEADLOCK FALSE
SYMMETRY Symmetry
INVARIANT
  DeliveredWhole

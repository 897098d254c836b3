SPECIFICATION FairSpec
CONSTANTS
  Proc = {p1, p2, p3}
  SpinBound = 2
  RelaxBound = 2
INVARIANTS
  WordMatchesHolder
  NoLostWakeup
PROPERTIES
  ImplementsLock
  QuietEntry

SPECIFICATION Spec
CONSTANTS
  StallLimit = 2
  MaxSignals = 2
INVARIANT TypeOK
INVARIANT NoUnitLeft
INVARIANT CompletedMeansExited
CHECK_DEADLOCK FALSE

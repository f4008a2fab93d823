CONSTANTS
  c1 = c1
  c2 = c2
  Cmds = {c1, c2}
  Names = {n1}
  MaxPasses = 2
  MaxStarts = 4
SPECIFICATION Spec
SYMMETRY Interchangeable
INVARIANTS TypeOK SaveIsWhole FinishedReportedOrBehind
PROPERTY Implements
CHECK_DEADLOCK FALSE

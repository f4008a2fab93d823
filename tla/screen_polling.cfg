SPECIFICATION FairSpec
CONSTANTS
  NumRuns = 2
  Last = 1
  Old = {1}
  Going = {1}
  SavedRuns = {1}
  MaxStarts = 1
  MaxFlying = 1
INVARIANTS TypeOK LiveIsPolled ChainsPerStart
PROPERTIES SessionRunsKept EndIsSeen
CHECK_DEADLOCK FALSE

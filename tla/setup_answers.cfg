SPECIFICATION Spec
CONSTANTS
  Models = {"m1", "bad"}
  Readable = {"m1"}
  Here = "here"
  Before <- BeforeAutoscan
  After <- AfterAutoscan
  Ceilinged = {"here", "other"}
  None = None
  Opened <- OpenedWith
  Given <- GivenChips
  Figures = {1, 2}
  MaxKeys = 2
  MaxFlying = 1
  MaxFails = 2
INVARIANT TypeOK
INVARIANT BusyIsUnderWay
INVARIANT ProfileOfThePath
INVARIANT LimitOfTheScreen
INVARIANT EnginesOfTheChip
INVARIANT SettlesOnThisMachine
CHECK_DEADLOCK FALSE

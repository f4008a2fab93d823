SPECIFICATION FairSpec
CONSTANT NBlocks = 2
INVARIANTS TypeOK SurvivorsExplained
PROPERTY CleanupEnds
CHECK_DEADLOCK FALSE

CONSTANTS SlowStart = TRUE HeldPipe = TRUE
SPECIFICATION FairStageSpec
INVARIANTS StageTypeOK ChildEndsFirst
PROPERTIES Implements HardDeadline
CHECK_DEADLOCK FALSE

CONSTANTS SlowStart = FALSE HeldPipe = FALSE
SPECIFICATION StageSpec
INVARIANT TimeoutMeansSlow
CHECK_DEADLOCK FALSE

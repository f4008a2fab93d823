SPECIFICATION LogSpec
CONSTANTS
  MaxJobs = 2
  MaxSetup = 1
  StepSeconds <- TwoSteps
  MaxOther = 1
  MaxDetails = 2
  Window = 7
  MaxAge = 0
  MaxAnswers = 1
INVARIANTS ReaderAgrees OutcomeAgrees
CHECK_DEADLOCK FALSE

SPECIFICATION Spec
CONSTANTS
  MaxJobs = 1
  MaxSetup = 0
  StepSeconds <- ShortSteps
  MaxOther = 0
  MaxDetails = 0
  Window = 6
  MaxAge = 2
  MaxAnswers = 2
INVARIANTS TypeOK BarNotAhead
PROPERTIES BarNearlyNeverBack
CHECK_DEADLOCK FALSE

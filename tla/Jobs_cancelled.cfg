CONSTANTS
  Jobs = {"j1"}
  Workers = {"w1"}
  Operators = {"o1"}
  MaxAttempts = 1
  MaxCrashes = 0
  NoJob = NoJob
SPECIFICATION Spec
CHECK_DEADLOCK FALSE
PROPERTY CancelledIsFinal

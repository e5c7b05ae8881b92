SPECIFICATION Spec
CONSTANTS
  Budget = 9
  Spacing = 2
  Attempts = 3
  MaxAttempt = 5
  Late = 1
INVARIANTS
  TypeOK
  BeginsInBudget
  EndsInTime
CHECK_DEADLOCK FALSE

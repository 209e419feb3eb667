CONSTANTS
  DEFAULT_STEPS <- MCSteps
  TOTAL_TIMEOUT = 9
  DEFAULT_GATE_TIMEOUT = 4
  RETRO_MAX_TIMEOUT = 3
  JoinTimeout = 1
  ReportDelay = 1
  MaxTime = 15
SPECIFICATION Spec
INVARIANTS TypeOK VerdictsAreEarned BudgetKept

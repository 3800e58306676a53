SPECIFICATION Spec
CONSTANTS
  MaxSteps = 2
  SlowHeartbeats = TRUE
  Budget <- Everything
INVARIANTS TypeOK OneAnswer WorkIsKept
CHECK_DEADLOCK FALSE

SPECIFICATION RateSpec
CONSTANTS
  MINUTE = 2
  HOUR = 4
  Limit <- MCLimit
  MaxTime = 6
CHECK_DEADLOCK FALSE
INVARIANTS BlastRate ShedOnlyAtCeiling

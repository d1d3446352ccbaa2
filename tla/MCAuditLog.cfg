SPECIFICATION Spec
CONSTANTS
  Event = {"event", "other"}
  Genesis = "genesis"
  MaxBoot = 3
  MaxAppend <- MCMaxAppend
  MaxFault = 2
CHECK_DEADLOCK FALSE
INVARIANTS AckedAreKept VerifiedIsTrue HealthyLogVerifies

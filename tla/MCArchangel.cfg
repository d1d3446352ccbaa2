SPECIFICATION FairSpec
CONSTANTS
  Exec = {"act"}
  Args = {"good"}
  Allowlist <- InteractiveAllowlist
  Bundle <- MCBundle
  HostMode = {"ReadOnly", "Interactive"}
  APPROVAL_TTL = 1
  MAX_PENDING = 2
  ExecdStage <- MCStages
  NONCE_WINDOW = 2
  MINUTE = 1
  HOUR = 2
  Limit <- MCLimit
  MaxTime = 0
  MaxKey = 2
  MaxTask = 2
  MaxBoot = 2
CHECK_DEADLOCK FALSE
INVARIANTS NoActionRunsTwice AuditMatchesHost ReplayOnlyIfOvertaken
PROPERTIES ImplementsLifecycle TaskAnswered

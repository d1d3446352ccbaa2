SPECIFICATION Spec
CONSTANTS
  Exec = {"act"}
  Args = {"good", "bad"}
  Allowlist <- MCAllowlist
  Bundle <- MCBundle
  HostMode = {"Interactive"}
  APPROVAL_TTL = 1
  MAX_PENDING = 1
  ExecdStage = {"Replay"}
  MaxTime = 2
  MaxKey = 2
  MaxTask = 2
CHECK_DEADLOCK FALSE
INVARIANTS TypeOK SentOnce SentAreAudited SentAreLicensed RefusedNeverSent

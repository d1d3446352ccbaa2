SPECIFICATION Spec
CONSTANTS
  Session = {"s1", "s2"}
  Nonce = {"n1", "n2", "n3"}
  MaxSeq = 2
  NONCE_WINDOW = 2
  MINUTE = 1
  HOUR = 2
  Limit <- MCLimit
  MaxTime = 1
  Exec = {"act"}
  Allowlist <- MCAllowlist
  HostMode = {"ReadOnly", "Interactive"}
  Frame <- MCFrame
  Bundle <- MCBundle
  MaxKey = 2
  MaxBoot = 2
  MaxRuns = 2
CHECK_DEADLOCK FALSE
INVARIANTS RunsInOrder RunsWithinCeilings OwnRecoveryPoint RunsAsJudged RunsUnderCurrentKey

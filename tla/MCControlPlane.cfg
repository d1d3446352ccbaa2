SPECIFICATION FairSpec
CONSTANTS
  Frame <- MCFrame
  Peer = {0, 1000}
  operator_uid = 1000
  operator_pub = "operator"
  PROTOCOL_VERSION = 1
  MaxConn = 2
  MaxAlerts = 2
CHECK_DEADLOCK FALSE
INVARIANTS NeverInterleave ServedRightly
PROPERTY LoopsGoOn

SPECIFICATION Spec
CHECK_DEADLOCK FALSE
CONSTANTS
  Bundle = {"status"}
  Version = {1, 2, 3}
  Shipped = {1}
  name_of <- MCname_of
  ReadOnly = {1, 3}
  PayloadMatches = {1, 2}
  OtherKey = {9}
  MaxKey = 2
  MaxInterrupt = 1
  MaxEdit = 2
  MaxRun = 2
  MaxLines = 3
INVARIANTS DaemonInputsSound SetupSound
PROPERTY LeavesFilesAlone

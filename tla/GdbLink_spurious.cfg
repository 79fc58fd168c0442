SPECIFICATION Spec
CONSTANTS
  MaxReq = 2
  MaxConn = 1
  MaxBad = 0
INVARIANT
  StopsOnlyOnCtrlC
CHECK_DEADLOCK FALSE

SPECIFICATION FairSpec
CONSTANTS
  BUF_SIZE = 1
  MaxTyped = 1
  MaxConn = 2
PROPERTY
  CloseReturns
CHECK_DEADLOCK FALSE

SPECIFICATION FairSpec
CONSTANTS
  MaxReq = 4
  MaxConn = 2
  MaxBad = 1
INVARIANTS
  HandledOnceInOrder
  AnswersMatch
PROPERTY
  ClientServed
CHECK_DEADLOCK FALSE

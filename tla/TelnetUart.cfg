SPECIFICATION FairSpec
CONSTANTS
  BUF_SIZE = 2
  MaxTyped = 3
  MaxConn = 2
INVARIANTS
  RingInBounds
  FifoUnlessRaced
  DiesOfChangeOnly
PROPERTY
  CloseBreaksWait
CHECK_DEADLOCK FALSE

SPECIFICATION FairSpec
CONSTANTS
  Char = {CR, LF, IAC, DO}
  NoChar = NoChar
  CR = CR
  LF = LF
  IAC = IAC
  Verb = {DO}
  BUF_SIZE = 2
  MaxSent = 4
  Count = 2
INVARIANTS
  OffersTyped
  ReachesProgram
PROPERTIES
  ImplementsFifo
  ReadReturns

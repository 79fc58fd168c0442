SPECIFICATION FairSpec
CONSTANTS
  Top = 4
  Addr = {0, 1, 2, 3, 4}
  MAX_BREAKPOINTS = 1
  Unmapped = {4}
  SwiWords = {3}
  IrqVector = 1
  AbortVector = 2
  SwiVector = 2
  PollInterval = 2
INVARIANTS
  TypeOK
  PipelineInOrder
  StopAddress
  StepAtMostOne
PROPERTIES
  NeverRunsBreakpoint
  InterruptStops

\* One UART, whose requests go through both levels, timer 4 and an external line.
SPECIFICATION FairSpec
CONSTANTS
  Uart = {0}
  Eint = {4}
  Words = {{}, {28}}
  Reload = {1}
  IntMax = 1
  DIVISOR = 1
INVARIANTS
  TypeOK
  LinesCurrent
  ReceiverSignalled
  TimerPeriod
PROPERTY
  IrqLineFollows

CONSTANTS
  MAX_TRACEPOINTS = 1
  Number = {1}
  Pc = {a1, a2}
  Payloads <- MCPayloads
  Cells = {0, 1, 2, 4}
  Faults = TRUE
  StepCounts = {2}
  PassCounts = {0, 1}
  MaxActions = 2
  MaxFrames = 3
SPECIFICATION Spec
SYMMETRY MCSymmetry
INVARIANTS PointersLive ReadsThePast PassesCounted StepsEnd

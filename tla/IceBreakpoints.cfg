SPECIFICATION IceSpec
CONSTANTS
  Addr = {0, 1, 2, 3, 4}
  MAX_BREAKPOINTS = 3
INVARIANTS
  NoDuplicates
PROPERTY
  ImplementsSet

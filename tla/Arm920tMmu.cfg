SPECIFICATION Spec
CONSTANTS
  Page <- MCPage
  FlushPage <- MCFlushPage
  Entries <- MCEntries
  Stores <- MCStores
  Controls <- MCControls
  WORDS = 4
  I_WAY = 1
  D_WAY = 1
  TLBS = 1
  WBS = 2
INVARIANTS DataCurrent MemoryCurrent FetchCurrent

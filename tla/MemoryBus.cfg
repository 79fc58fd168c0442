CONSTANTS
  Confs <- MCConfs
  Top = 27
  SECTOR = 2
  SECTORS = 2
  BUFFER = 2
  WriteBytes = {0, 1}
SPECIFICATION BusSpec
INVARIANTS BankTypeOK CacheExact ReadsLastWritten RomKeepsFile
PROPERTIES  FlashAsAsked
CHECK_DEADLOCK FALSE

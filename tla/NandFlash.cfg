\* Two blocks of two pages of two bytes and a spare one; row 4 is off the chip.
\* A program that overran a buffer is not followed any further.
SPECIFICATION Spec
CONSTANTS
  PAGESIZE = 2
  OOBSIZE = 1
  PAGENUM = 2
  BLOCKNUM = 2
  Data = {0, 255}
  Column = {0, 1}
  Row = {1, 2, 4}
  MaxAddress = 13
  MaxOffset = 4
  MaxStores = 1
PROPERTIES
  StoresAsAsked
  ReadsAsAsked
  RequestsStayInside
CHECK_DEADLOCK FALSE

CONSTANTS
  Byte = {0, 1, 2}
  ConfigSize = 4
  RATIO = 3
  DEFWPM = 1
  DEFRATIO = 1
  None = None
  Flashed <- MCFlashed
  AsciiSize = 2
  XoffFree = 1
  EepromSize = 2
  E2END = 1023
  MAXWPM = 1
  Opening = {1, 24}
  AdminCodes <- AllCodes
  Operands = {2}
SPECIFICATION Spec
INVARIANTS OperandsEnd

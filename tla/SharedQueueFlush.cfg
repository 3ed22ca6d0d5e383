CONSTANTS
  Size = 4
  Data = {a, b}
  Zero = a
  NoByte = NoByte
  FlushDuringPut = TRUE
SPECIFICATION Spec
INVARIANTS CountsContents

CONSTANTS
  Size = 4
  Data = {a, b}
  Zero = a
  NoByte = NoByte
  FlushDuringPut = FALSE
SPECIFICATION Spec
INVARIANTS CursorsAgree StoredBeforeCounted
PROPERTIES IsBoundedQueue

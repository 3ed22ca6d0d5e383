CONSTANTS
  Size = 4
  Batch = 2
  Data = {a, b}
  Zero = a
  NoByte = NoByte
SPECIFICATION Spec
INVARIANTS CursorsAgree BatchIsCovered
PROPERTIES SentIsRemoved IsBoundedQueue

CONSTANTS
  Chars = {}
  SPACE = " "
  Morse <- MCMorse
  NoChar = NoChar
  AsciiSize = 1
  FSMSize = 4
  ManualSize = 1
  EchoSize = 1
  DitMs = 1
  Word = 16
  Samples = 2
  Paddles <- AllPaddles
  BootConfigs <- Bug
  Configs <- Iambic
  Speeds = {}
  Forced <- None
SPECIFICATION Spec
INVARIANTS BugDahIsHeld

CONSTANTS
  Chars = {"A", "N", "#", " "}
  SPACE = " "
  Morse <- MCMorse
  NoChar = NoChar
  AsciiSize = 3
  FSMSize = 4
  ManualSize = 1
  EchoSize = 1
  DitMs = 2
  Word = 32
  Samples = 2
  Paddles <- NoPaddles
  BootConfigs <- TwoSpeeds
  Configs <- None
  Speeds <- None
  Forced <- None
  MaxRun = 24
SPECIFICATION LineSpec
INVARIANTS EchoFollowsKeying
PROPERTIES TextIsKeyed PausesAreKept

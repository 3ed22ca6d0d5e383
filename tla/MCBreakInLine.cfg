CONSTANTS
  Chars = {"A"}
  SPACE = " "
  Morse <- MCMorse
  NoChar = NoChar
  AsciiSize = 1
  FSMSize = 4
  ManualSize = 1
  EchoSize = 1
  DitMs = 1
  Word = 16
  Samples = 2
  Paddles <- AllPaddles
  BootConfigs <- EachMode
  Configs <- None
  Speeds <- None
  Forced <- None
  MaxRun = 13
SPECIFICATION LineSpec
PROPERTIES WaitsItOut MarksAreWhole MarksAreApart TextIsKeyed

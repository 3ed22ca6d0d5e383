CONSTANTS
  Chars = {"E", " "}
  SPACE = " "
  Morse <- MCMorse
  NoChar = NoChar
  AsciiSize = 1
  FSMSize = 4
  ManualSize = 1
  EchoSize = 1
  DitMs = 1
  Word = 13
  Samples = 2
  Paddles <- AllPaddles
  BootConfigs <- EachMode
  Configs <- None
  Speeds = {}
  Forced <- None
SPECIFICATION FairSpec
INVARIANTS TypeOK HandedOver NoStuckKey GapsAreSilent BugDahIsHeld
PROPERTIES EveryTickCounts ReturnsToText TextGoesOut

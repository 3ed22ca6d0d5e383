CONSTANTS
  Chars = {"A"}
  SPACE = " "
  Morse <- MCMorse
  NoChar = NoChar
  AsciiSize = 1
  FSMSize = 4
  ManualSize = 1
  EchoSize = 1
  DitMs = 1
  Word = 13
  Samples = 2
  Paddles <- OnePaddle
  BootConfigs <- Straight
  Configs <- Swapping
  Speeds = {0}
  Forced <- BothMarks
SPECIFICATION Spec
INVARIANTS OneProducer RestOfLetter NoStuckKey

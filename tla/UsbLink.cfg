CONSTANTS
  BankSize = 2
  MaxEvents = 1
  Period = 2
  QueueSize = 2
  MaxEcho = 3
  MaxReply = 1
  DumpSize = 2
SPECIFICATION FairSpec
INVARIANTS LinkTypeOK InOrder LossIsBounded DumpLosesItsBeginning
PROPERTIES ReturnsToDecoder EchoGetsOut
\* The device may stop: a SET_LINE_ENCODING whose data a bus reset took away holds
\* up the main loop until the bus is suspended, and the host's events are bounded.
CHECK_DEADLOCK FALSE

SPECIFICATION FairSpec

CONSTANTS
  Modes = {"stream", "collect"}
  MaxRounds = 1
  Buffer = 1
  SnapshotLen = 2
  MaxKeepAlive = 2
  IdleTicks = 1
  MaxAnswer = 2

PROPERTIES
  ContinuedWhileUnfinished
  DeliversAnswer
  StreamsAndPumpsEnd

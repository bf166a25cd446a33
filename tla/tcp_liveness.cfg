SPECIFICATION FairSpec
CONSTANTS
  Byte = {1, 2}
  SeqSpace = 32
  RcvBuf = 1
  SndBuf = 2
  WindowCap = 1
  Mss = 1
  DefaultMss = 1
  CwndMax = 2
  Grow = 2
  RtoInitial = 1
  RtoMax = 1
  MaxRetries = 2
  TimeWaitTicks = 1
  CliBytes = 2
  SrvBytes = 0
  CliIss = 30
  SrvIss = 10
  CliReads = {2}
  SrvReads = {2}
  Elapsed = {0, 1}
  ChanCap = 3
  Faults = {"loss"}
  MaxFaults = 1
  OneWay = {}
  MaxTicks = 1
  Prompt = TRUE
CHECK_DEADLOCK FALSE
INVARIANT TypeOK
PROPERTIES NoSilentStall CloseEnds HandshakeEnds

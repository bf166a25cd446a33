SPECIFICATION Spec
CONSTANTS
  Byte = {1, 2}
  SeqSpace = 32
  RcvBuf = 2
  SndBuf = 2
  WindowCap = 2
  Mss = 1
  DefaultMss = 1
  CwndMax = 2
  Grow = 2
  RtoInitial = 1
  RtoMax = 1
  MaxRetries = 1
  TimeWaitTicks = 1
  CliBytes = 2
  SrvBytes = 1
  CliIss = 30
  SrvIss = 10
  CliReads = {2}
  SrvReads = {2}
  Elapsed = {0, 1}
  ChanCap = 3
  Faults = {"loss", "dup", "overtake", "refused", "abort"}
  MaxFaults = 1
  OneWay = {"dup", "overtake", "refused", "abort"}
  MaxTicks = 1
  Prompt = FALSE
CHECK_DEADLOCK FALSE
INVARIANTS Synchronised RetiredIsTaken CloseIsComplete WindowIsKept
PROPERTY ImplementsStreams

SPECIFICATION Spec
CONSTANTS
  Byte = {1, 2}
  SeqSpace = 16
  RcvBuf = 3
  SndBuf = 2
  WindowCap = 2
  Mss = 3
  DefaultMss = 1
  CwndMax = 2
  Grow = 1
  RtoInitial = 1
  RtoMax = 1
  MaxRetries = 1
  TimeWaitTicks = 1
  Isses = {15}
  Caps = {1}
  FlagSets = {{"SYN"}, {"SYN", "ACK"}, {"ACK"}, {"ACK", "FIN"}, {"RST"}}
  SeqNear = {15,0}
  AckNear = {0,1,2}
  Windows = {0,2}
  MssOptions = {2}
  Ticks = {0, 1}
  MaxInputs = 3
  Writes <- MCWrites
  Payloads <- MCPayloads
  Links <- MCLinks
CHECK_DEADLOCK FALSE
INVARIANTS TypeOK BooksBalance StateAgrees RingsServe
PROPERTIES ClosedForAReason EdgeNeverRetreats

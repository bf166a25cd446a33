SPECIFICATION Spec
CONSTANTS
  Byte = {1}
  SeqSpace = 8
  RcvBuf = 1
  SndBuf = 1
  WindowCap = 1
  Mss = 1
  DefaultMss = 1
  CwndMax = 1
  Grow = 1
  RtoInitial = 1
  RtoMax = 1
  MaxRetries = 1
  TimeWaitTicks = 2
  NSockets = 2
  Ends = {e1, e2}
  ListenPorts = {9}
  PortBase = 8
  PortRange = 4
  PortStride = 1
  FrameSpace = 3
  TickSpace = 8
  StartTick = 7
  Results = {"OK"}
  InFlags = {{"SYN"}, {"SYN", "ACK"}, {"ACK"}, {"ACK", "FIN"}, {"RST"}}
  RemoteIss = 0
  None = None
  MaxFrames = 10
  MaxOpens = 2
  MaxSegs = 3
CHECK_DEADLOCK FALSE
INVARIANTS TypeOK OwnersUnique ClockExact TimeWaitLasts
PROPERTY LineKept
SYMMETRY MCEndsAlike

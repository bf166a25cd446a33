SPECIFICATION FairSpec
CONSTANTS
  CacheSize = 2
  None = None
  NoFrame = NoFrame
  BcastMac = BcastMac
  RxBufs = 2
  Bits <- MCBits
  Addr <- MCAddr
  Mac <- MCMac
  Configs <- MCConfigs
  Stations <- MCStations
  Dests <- MCDests
  AppDests <- MCAppDests
  Asks = {"request", "probe", "echo"}
  MaxAsks = 1
  MaxOdd = 1
INVARIANTS TypeOK CacheIsCurrent PacketsGoToTheirHop AnsweredOnTime
PROPERTIES EventuallySent

SPECIFICATION Spec
CONSTANTS
  t1 = t1
  t2 = t2
  slow = slow
  fast = fast
  p1 = p1
  p2 = p2
  c1 = c1
  c2 = c2
  c3 = c3
  \* openCnt wraps at 4 and can be driven past its wrap
  CountMod = 4
  MaxOpens = 6
  Capacity = 3
  MaxSize = 3
  MaxBytes = 5
  \* the link of a read and most of another
  Heap = 10
  NoBus = 2
  \* five seconds of two ticks are more than the register of the RTC holds
  Ticks = 2
  WdtWord = 8
  MaxSeconds = 5
  MaxElapsed = 9
  PERIOD_NUM = 12
  \* the tick counter turns twice before MaxTime
  SHAKE_COUNT = 2
  TickWord = 5
  MaxTime = 12
  MaxLen = 1
  MaxFileSize = 2
  MaxTransfer = 2
  CLK = 12
  RES_MIN = 3
  RES_MAX = 6
  Tasks <- MCTasks
  Speeds <- MCSpeeds
  Openers <- MCOpeners
  Hosts <- MCHosts
  UartPorts <- MCUartPorts
  HostNode <- MCHostNode
  Bauds <- MCBauds
  Settings <- MCSettings
  Transfers <- MCTransfers
  Cntlrs <- MCCntlrs
  I2cDevices <- MCI2cDevices
  Buses <- MCBuses
  BusNode <- MCBusNode
  WdtDevices <- MCWdtDevices
  Matched <- MCMatched
  Periods <- MCPeriods
  Pins <- MCPins
  Seekers <- MCSeekers
  Fds <- MCFds
  Offsets <- MCOffsets
  LedcPorts <- MCLedcPorts
  Freqs <- MCFreqs
INVARIANTS
  HandleNeverDangles
  StuckOnlyByFault
  ReturnsWhatItTook
  LineIsAsked
  SentAndPaidBack
  ControllersAreWhole
  BitesJustInTime
  FreqIsAsked
  BurstIsHeardOnce
  PositionIsTold
  StateIsTrue
  
  StatusIsTrue

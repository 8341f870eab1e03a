CONSTANTS
  Off = Off
  Endless = Endless
  Never = Never
  Nobody = Nobody
  Threads = {"reader", "writer"}
  Counters = {"reader"}
  Sockets = {0, 1}
  SocketTimes <- SocketTimesValue
  PerSec = 2
  TickMs = 2
  FdSetSize = 2
  Speeds <- SpeedsValue
  Limit = 32
  Word = 16
  TickLen = 2
  Hz = 2
  UsPerMs = 2
  MSecs = {0, 1, 5, 9}
  Secs = {1, 5}
  USecs = {3}
  MaxNow = 34
  MaxPrints = 3
  BufSize = 3
  PipeSize = 4
  MaxMsgs = 2
  PollTime = 100
  SelectTimes = {0, 150}
SPECIFICATION Spec
INVARIANTS
  TimeRight
  NotMissed
  
PROPERTIES
  NotEarly
  WaitsEnd
CHECK_DEADLOCK FALSE

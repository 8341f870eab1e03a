SPECIFICATION Spec
CONSTANTS
  LockPorts = {"linux_drv", "ecos", "vxworks", "win32", "nucleus", "rtems", "xapi", "generic"}
  MutexPorts = {"linux_appl", "linux_drv", "ecos", "vxworks", "win32", "nucleus", "rtems", "xapi", "generic"}
  Threads = {t1, t2}
  NoOne = NoOne
  Times = {0, 1, 5, 7, 11}
  Forever = 11
  Never = Never
  Word = 12
  TickLen = 2
  Hz = 2
  Poll = 2
  Depth = 2
  MaxSem = 2
  MaxLost = 2
INVARIANTS HolderTrue GivenBack
PROPERTIES PromiseKept TimeoutTrue TimedGetReturns

SPECIFICATION Spec
CONSTANTS
  Ports = {"linux_appl", "linux_drv", "ecos", "vxworks", "win32", "nucleus", "rtems", "xapi", "generic"}
  Waiters = {w1, w2}
  Times = {0, 5, 7, 11}
  Forever = 11
  Never = Never
  Word = 12
  TickLen = 2
  Hz = 2
  SemIds = 2
  MaxWakes = 2
PROPERTIES EventSpec TimeoutTrue WaitReturns

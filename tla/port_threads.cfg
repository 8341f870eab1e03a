SPECIFICATION Spec
CONSTANTS
  Ports = {"linux_drv", "ecos", "vxworks", "win32", "nucleus", "rtems", "xapi", "generic"}
  MaxThreads = 2
  Waits = {0, 1}
  Forever = Forever
INVARIANTS DownIsDown StacksKept
PROPERTY CallReturns
CHECK_DEADLOCK FALSE

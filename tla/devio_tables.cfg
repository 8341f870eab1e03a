SPECIFICATION Spec
CONSTANTS
  Procs = {p1, p2}
  p1 = p1
  p2 = p2
  d1 = d1
  d2 = d2
  v1 = v1
  v2 = v2
  Drivers = {d1, d2}
  Devices = {v1, v2}
  Driver <- OneEach
  Names <- BothNames
  Requests <- BothNames
  MaxDrivers = 2
  MaxDevices = 2
  MaxFds = 3
  MaxPrivs = 3
  MaxTimes = 1
  ThreadLocks = {FALSE, TRUE}
  Hot = {"fd"}
  None = None
SYMMETRY ProcSymmetry
INVARIANTS InstalledStays ClosedOnce NothingLost OwnDriver DevicesPresent

SPECIFICATION LockSpec
CONSTANTS
  Threads = {t1, t2}
  t1 = t1
  t2 = t2
  Second = 3
  Timeouts = {2}
  Endless = Endless
  NoOne = NoOne
  Signals = FALSE
INVARIANTS WaitsItsTime

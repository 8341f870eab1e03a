SPECIFICATION LockSpec
CONSTANTS
  Threads = {t1, t2}
  t1 = t1
  t2 = t2
  Second = 3
  Timeouts = {0, 2, 4}
  Endless = Endless
  NoOne = NoOne
  Signals = TRUE
INVARIANT HolderTrue
PROPERTIES PromiseKept TimedGetReturns

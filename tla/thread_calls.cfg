SPECIFICATION Spec
CONSTANTS
  MaxThreads = 3
  Calls = {"delete", "shutdown"}
  Waits = {0, 1, 3}
  Forever = Forever
  Early = FALSE
  Reuse = FALSE
INVARIANTS DownIsDown FlagsTrue
PROPERTY CallReturns
CHECK_DEADLOCK FALSE

SPECIFICATION Spec
CONSTANTS
  Runs = {r1, r2}
  None = None
  BadAddr = BadAddr
  Blank = Blank
  Statuses = {dirty}
  Posix = FALSE
  SemMax = 2
  Modes <- WithClean
  WaitTime = 1
  SignalTo <- Nobody
  KillTo <- Nobody
  Limited <- Nobody
  MaxFaults = 0
INVARIANT NoCrash

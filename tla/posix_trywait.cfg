SPECIFICATION Spec
CONSTANTS
  Runs = {r1, r2}
  None = None
  BadAddr = BadAddr
  Blank = Blank
  Statuses = {dirty}
  Posix = TRUE
  SemMax = 2
  Modes <- RefreshOnly
  WaitTime = 1
  SignalTo <- Nobody
  KillTo <- Nobody
  Limited <- Nobody
  MaxFaults = 0
INVARIANT OnlyWinnersFlag

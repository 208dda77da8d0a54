SPECIFICATION Spec
CONSTANTS
  Runs = {r1, r2}
  None = None
  BadAddr = BadAddr
  Blank = Blank
  Statuses = {dirty}
  Posix = TRUE
  SemMax = 2
  Modes <- AllModes
  WaitTime = 1
  SignalTo <- AllRoles
  KillTo <- AllRoles
  Limited <- AllRoles
  MaxFaults = 2
SYMMETRY RunSymmetry
INVARIANTS  CrashOnlyRefused

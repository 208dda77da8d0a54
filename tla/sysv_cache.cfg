SPECIFICATION FairSpec
CONSTANTS
  Runs = {r1, r2}
  None = None
  BadAddr = BadAddr
  Blank = Blank
  Statuses = {dirty}
  Posix = FALSE
  SemMax = 4
  Modes <- Cached
  WaitTime = 1
  SignalTo <- Nobody
  KillTo <- ChildOnly
  Limited <- ChildOnly
  MaxFaults = 1
INVARIANTS NeverWedged GotIsInitialised CrashOnlyRefused DriftAtMostOnePerRun
PROPERTIES ImplementsPromptCache PromptReturns LockComesBack

SPECIFICATION Spec
CONSTANTS
  Files = {f, g}
  Contents = {a}
  Commits <- OneCommit
  None = None
  Unborn = Unborn
  Layouts <- PlainAndNot
  MaxMoves = 2
  ErrnoBefore <- ErrnoValues
  Uninit = Uninit
  Builds <- BothBuilds
INVARIANTS TypeOK NoThreadOutlivesFrame AgreesWithChecks MarkWasTrue  

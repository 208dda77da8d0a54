SPECIFICATION Spec
CONSTANTS
  NoArg = NoArg
  IntMax = 12
  LongMax = 99
  Trees = {t, u}
  Linked = {u}
  Paths = {p, q}
  Files <- FileNumbers
  FtokRange = 2
  Hash <- HashValue
  None = None
  MaxMoves = 2
  Argvs <- CommandLines
  Plain = Plain
  Blank = Blank
  Gone = Gone
  MaxRuns = 3
SYMMETRY PathSymmetry
INVARIANTS TypeOK  SettledShowsItself SettledKeepsCache OrphansWereMoved

SPECIFICATION Spec
CONSTANTS
  Branches = {b1, b2}
  Tags = {t1, t2}
  Commits = {c1, c2}
  None = None
  Builds <- BothBuilds
  MaxMoves = 3
SYMMETRY NameSymmetry
INVARIANTS TypeOK TypeTellsKind NameWasAtHead SettledIsExpected

SPECIFICATION FairSpec
CONSTANTS
  a = a
  d = d
  b = b
  Root = Root
  Nodes <- ThreeNodes
  Place <- ThreePlaces
  Kinds <- AllKinds
  MaxLinks = 2
  MaxChanges = 2
INVARIANTS TypeOK DirectoriesClosed FoundWasUntracked SettledIsUntracked
PROPERTY ScanReturns

SPECIFICATION Spec
CONSTANTS
  a = a
  d = d
  b = b
  Root = Root
  Nodes <- ThreeNodes
  Place <- ThreePlaces
  Kinds <- Linked
  MaxLinks = 2
  MaxChanges = 0
INVARIANT FoundIsUntracked

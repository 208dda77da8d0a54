SPECIFICATION Spec
CONSTANTS
  Refreshers = {w1, w2}
  Readers = {p1}
  MaxRefreshers = 2
SYMMETRY Symmetry
INVARIANTS TypeOK StatusEnds TornOnlyRedMagenta SettledIsLast PromptRestoresTerminal

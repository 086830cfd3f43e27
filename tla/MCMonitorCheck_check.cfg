SPECIFICATION Spec
CONSTANTS
  open = open
  closed = closed
  Fields = {hours, phone}
  Values = {open, closed}
  Checkers = {k1, k2}
  HistoryCap = 2
  NoSnapshot = NoSnapshot
  FirstPlace <- AllOpen
  MaxEdits = 3
  MaxChecks = 4
SYMMETRY Symmetry
INVARIANTS TypeOK HistoryMatchesCounts HistoryIsOneStory CountedChangeIsFired
PROPERTY ImplementsChangeFeed
CHECK_DEADLOCK FALSE

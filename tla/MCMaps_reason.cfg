SPECIFICATION MCSpec
CONSTANTS
  Jobs = {j1}
  Readers = {r1}
  MaxPolls = 2
  NoJob = NoJob
  MaxFaults = 2
  Scrapers = {s1, s2, s3, s4}
  InitialCap = 2
  Caps = {1, 3}
  MaxConfigures = 1
  Names = {n1, n2, n3}
  NoName = NoName
  MaxResults = 2
  MaxCards = 2
  MaxScrolls = 2
  Cids = {c1, c2}
  Browsers = 1
  MinSide = 1
  MaxSide = 2
  MaxItems = 2
  NoId = NoId
  Searchers = {q1, q2}
  Budgets <- BudgetsAsked
  Nobody = Nobody
  Askers = {a1}
  Permits = 1
  MaxNodes = 2
INVARIANTS EmptyListNamesItsReason
CHECK_DEADLOCK FALSE

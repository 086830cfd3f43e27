SPECIFICATION FairSpec
CONSTANTS
  Webhooks = {w1}
  Firings = {f1, f2}
  Inline = Inline
  HasInline = FALSE
  MaxAttempts = 2
  MaxHops = 1
  FailingAfter = 2
  ListLimit = 2
  Nobody = Nobody
  Serial = FALSE
  MaxAborts = 1
INVARIANTS TypeOK HealthIsHonest StopsAtAnAnswer
PROPERTIES FiringEnds
CHECK_DEADLOCK FALSE

SPECIFICATION Spec
CONSTANTS
  Webhooks = {w1, w2, w3}
  Firings = {f1, f2}
  Inline = Inline
  HasInline = TRUE
  MaxAttempts = 1
  MaxHops = 0
  FailingAfter = 2
  ListLimit = 2
  Nobody = Nobody
  Serial = TRUE
  MaxAborts = 1
SYMMETRY Symmetry
INVARIANTS HealthIsReal EverySubscriberIsTold
CHECK_DEADLOCK FALSE

SPECIFICATION Spec
CONSTANTS
  Webhooks = {w1}
  Firings = {f1, f2}
  Inline = Inline
  HasInline = FALSE
  MaxAttempts = 1
  MaxHops = 0
  FailingAfter = 2
  ListLimit = 2
  Nobody = Nobody
  Serial = FALSE
  MaxAborts = 0
SYMMETRY Symmetry
INVARIANTS HealthIsReal
CHECK_DEADLOCK FALSE

SPECIFICATION Spec
CONSTANTS
  m1 = m1
  m2 = m2
  alice = alice
  Monitors = {m1, m2}
  Owners = {alice}
  OwnerOf <- OneOwner
  Interval <- Hourly
  TTL = 2
  Schedulers = {s1}
  Clients = {c1, c2}
  NoMonitor = NoMonitor
  MaxClock = 0
  MaxDeletes = 1
  MaxFailures = 0
  Prompt = FALSE
SYMMETRY ClientSymmetry
INVARIANTS RegisteredIsIndexed
CHECK_DEADLOCK FALSE

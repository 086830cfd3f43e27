SPECIFICATION FairSpec
CONSTANTS
  m1 = m1
  m2 = m2
  alice = alice
  Monitors = {m1, m2}
  Owners = {alice}
  OwnerOf <- OneOwner
  Interval <- Hourly
  TTL = 2
  Schedulers = {s1}
  Clients = {c1}
  NoMonitor = NoMonitor
  MaxClock = 4
  MaxDeletes = 1
  MaxFailures = 1
  Prompt = TRUE
INVARIANTS MonitorNeverLapses
PROPERTIES DueIsChecked
CHECK_DEADLOCK FALSE

SPECIFICATION FairSpec
CONSTANTS
  w1 = w1
  w2 = w2
  h1 = h1
  h2 = h2
  known = known
  bogus = bogus
  NoKey = NoKey
  Workers = {w1, w2}
  Requests = {r1, r2}
  Hosts = {h1, h2}
  ApiKeys = {known, bogus}
  KnownKeys = {known}
  Clients <- MCClients
  Deployments <- MCDeployments
  Limit = 2
  Window = 2
  MaxFaults = 1
INVARIANTS TypeOK BurstBound NothingUncounted
PROPERTIES LimitIsTemporary
CHECK_DEADLOCK FALSE

SPECIFICATION MCSpec
CONSTANTS
  CacheWorkers = {w1, w2}
  CacheCallers = {c1, c2}
  CacheTTL = 2
  MaxCacheFaults = 2
  TierWorkers = {w1, w2}
  TierCallers = {c1, c2}
  Values = {v1, v2}
  NoValue = NoValue
  TierTTL = 2
  L1Cap = 1
  PromoteFor = 1
  MaxTierFaults = 1
  StoreWorkers = {w1, w2}
  StoreCallers = {c1, c2}
  Ids = {i1, i2}
  MaxBlips = 1
  Videos = {v1, v2}
  Proxies <- TwoProxies
  Direct = "direct"
  MaxAttempts = 2
  Deployments <- ThreeDeployments
  AuthThreads = {t1, t2}
  Headers = {"k1", "k2"}
  NoHeader = "none"
  Configs <- TwoConfigs
  MaxReloads = 2
  HttpRequests = {r1, r2, r3}
  ClientKeys = {k1, k2}
  JobTasks = {j1}
  MaxManagers = 2
  Inquirers = {q1, q2}
  Choices = {"a"}
  Extras = {"plain", "other"}
  MaxArticles = 2
  MaxRedirects = 1
  Variations = 3
  MaxParallel = 2
INVARIANTS ReloadAlwaysTakesEffect
CHECK_DEADLOCK FALSE

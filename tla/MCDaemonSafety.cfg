INIT Init
NEXT Next
CHECK_DEADLOCK FALSE
CONSTANTS
  Parts = {"operations", "subscriptions", "geoip", "scheduler", "live", "run", "panels", "web"}
  Requests = {r1, r2}
  Keys = {k1, k2}
  Limit = 1
  MaxRevision = 1
  Reinstalls = {k2}
  NoKey = NoKey
  w1 = w1
  w2 = w2
  Workers <- MCWorkers
  Serves <- MCServes
  Profiles = {1, 2}
  MaxFaults = 3
  MaxRejects = 1
  MaxEdits = 1
  Updaters = {u1, u2}
  MaxVersion = 3
  MaxGeoFaults = 2
  MaxGeoCrashes = 1
  Subs = {s1, s2}
  Horizon = 4
  IdlePoll = 3
  MinRetry = 2
  MaxRetry = 3
  Intervals = {2, 3}
  MaxChanges = 1
  Setters <- MCSetters
  SetterKinds <- MCSetterKinds
  MaxLvFaults = 2
  MaxLvEvents = 1
  Addrs = {"a1", "a2"}
  RunCasts <- MCRunCasts
  MaxRunFaults = 1
  MaxRequests = 2
  PanelIds = {"pa", "pb"}
  Rank <- MCRank
  Clients = {"c1", "c2"}
  Tasks <- MCTasks
  Estates <- MCEstates
  MaxPanelOps = 3
  MaxPanelFaults = 1
  GatewayRequests <- MCGatewayRequests
  MaxTraffic = 2
INVARIANTS
  OpsSafe
  
  RefreshesSafe
  DaemonLifeSafe
  GatewaySafe

  
  

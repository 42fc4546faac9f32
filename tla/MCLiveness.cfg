SPECIFICATION FairSpec
CONSTANTS
  None = None
  n1 = n1
  n2 = n2
  Nodes = {n1}
  Protocols = {p1}
  Drivers = {p1}
  Priority = {p1}
  Sessions = {s1}
  Tasks = {t1}
  Requests = {"select", "restart"}
  MaxCalls = 1
  Snapshots <- NoSnapshots
  MaxRefreshes = 0
  InitialStores <- OneNodeStore
  SavedSelections <- AutoOnly
  CandidateLimit = 1
  FallbackToDirect = {TRUE}
  FollowRanking = {FALSE}
  HealthChecks = TRUE
  MayEnd = TRUE
  MayShutDown = TRUE
  MayExpire = FALSE
PROPERTIES ShutdownCompletes DeadTunnelDropped ConnectingClears

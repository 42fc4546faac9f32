SPECIFICATION FairSpec
CONSTANTS
  None = None
  n1 = n1
  n2 = n2
  Nodes = {n1, n2}
  Protocols = {p1}
  Drivers = {p1}
  Priority = {p1}
  Sessions = {s1, s2}
  Tasks = {t1, t2}
  Requests = {"select"}
  MaxCalls = 1
  Snapshots <- ShrinkingSnapshots
  MaxRefreshes = 1
  InitialStores <- OneNodeStore
  SavedSelections <- AutoOnly
  CandidateLimit = 1
  FallbackToDirect = {FALSE}
  FollowRanking = {FALSE}
  HealthChecks = FALSE
  MayEnd = FALSE
  MayShutDown = FALSE
  MayExpire = FALSE
PROPERTY ConnectedNodeStays

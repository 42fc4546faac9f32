SPECIFICATION Spec
CONSTANTS
  None = None
  n1 = n1
  n2 = n2
  Nodes = {n1}
  Protocols = {p1}
  Drivers = {p1}
  Priority = {p1}
  Sessions = {s1, s2, s3}
  Tasks = {t1}
  Requests = {"select", "reconnect", "pause"}
  MaxCalls = 1
  Snapshots <- NoSnapshots
  MaxRefreshes = 0
  InitialStores <- OneNodeStore
  SavedSelections <- AutoOnly
  CandidateLimit = 1
  FallbackToDirect = {FALSE}
  FollowRanking = {FALSE}
  HealthChecks = TRUE
  MayEnd = TRUE
  MayShutDown = FALSE
  MayExpire = FALSE
SYMMETRY Symmetry
PROPERTIES FailoverSparesOthers

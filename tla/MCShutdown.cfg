SPECIFICATION Spec
CONSTANTS
  None = None
  n1 = n1
  n2 = n2
  Nodes = {n1}
  Protocols = {p1}
  Drivers = {p1}
  Priority = {p1}
  Sessions = {s1, s2}
  Tasks = {t1}
  Requests = {"select", "pause"}
  MaxCalls = 1
  Snapshots <- NoSnapshots
  MaxRefreshes = 0
  InitialStores <- OneNodeStore
  SavedSelections <- AutoOnly
  CandidateLimit = 1
  FallbackToDirect = {TRUE}
  FollowRanking = {FALSE}
  HealthChecks = FALSE
  MayEnd = TRUE
  MayShutDown = TRUE
  MayExpire = TRUE
SYMMETRY Symmetry
INVARIANTS ClosedLeavesNoTunnel

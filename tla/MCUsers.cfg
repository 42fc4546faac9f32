SPECIFICATION Spec
CONSTANTS
  None = None
  n1 = n1
  n2 = n2
  Nodes = {n1, n2}
  Protocols = {p1}
  Drivers = {p1}
  Priority = {p1}
  Sessions = {s1, s2, s3}
  Tasks = {t1, t2}
  Requests = {"select", "reconnect", "pause", "resume"}
  MaxCalls = 2
  Snapshots <- NoSnapshots
  MaxRefreshes = 0
  InitialStores <- FullStore
  SavedSelections <- AutoOrManual
  CandidateLimit = 1
  FallbackToDirect = {FALSE}
  FollowRanking = {FALSE}
  HealthChecks = FALSE
  MayEnd = FALSE
  MayShutDown = FALSE
  MayExpire = FALSE
SYMMETRY Symmetry
INVARIANTS SessionOwnership RoutingExclusive LiveSessionIsWatched CancelReachesRunner ConnectedMeansSession

SPECIFICATION FairSpec
CONSTANTS
  Callers = {main, h1, h2}
  Main = main
  Conns = {c1, c2}
  MaxCalls = 3
  None = None
INVARIANTS TypeOK NothingLeftBehind StatusOfCurrent
PROPERTIES StopEnds
CHECK_DEADLOCK FALSE

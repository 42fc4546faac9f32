SPECIFICATION FairSpec
CONSTANTS
  Keys = {k1, k2, k3}
  Callers = {c1, c2}
  Servers = 1
  Responses <- SomeResponses
  CacheCapacity = 2
  LookupCapacity = 2
  MaxTime = 1
  MaxCalls = 3
  MaxInterrupts = 1
INVARIANTS TypeOK OneLookupPerKey AnswersFresh 
PROPERTIES CallersReturn

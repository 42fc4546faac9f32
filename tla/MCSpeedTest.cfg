SPECIFICATION FairSpec
CONSTANTS
  None = None
  IPs = {ip1, ip2}
  Handlers = {h1}
  QueueCapacity = 1
  MaxJobs = 3
  MaxRestarts = 2
  Faulty = {TRUE, FALSE}
INVARIANTS TypeOK ResultsAreOwn JobsAttended
PROPERTIES FinalStatesStay JobsFinish StopCompletes

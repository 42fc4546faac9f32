SPECIFICATION FairSpec
CONSTANTS
  Users = {u1}
  Main = main
  n1 = n1
  p1 = p1
  Names = {n1, n2}
  Passwords = {p1}
  Default <- FirstSettings
  PipedNames = {}
  Absent = Absent
  Torn = Torn
  MaxPuts = 2
  Kills = TRUE
  MaxBoots = 2
  MaxRestarts = 1
INVARIANTS TypeOK SettingsDurable  ClosedLast
PROPERTIES RestartCompletes
CHECK_DEADLOCK FALSE

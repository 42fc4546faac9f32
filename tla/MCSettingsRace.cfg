SPECIFICATION Spec
CONSTANTS
  Users = {u1, u2}
  Main = main
  n1 = n1
  p1 = p1
  Names = {n1}
  Passwords = {p1, p2}
  Default <- FirstSettings
  PipedNames = {}
  Absent = Absent
  Torn = Torn
  MaxPuts = 2
  Kills = FALSE
  MaxBoots = 1
  MaxRestarts = 0
INVARIANTS SavedSurvives
CHECK_DEADLOCK FALSE

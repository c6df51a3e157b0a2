CONSTANTS
  ana = ana
  ben = ben
  office = office
  home = home
  list = list
  health = health
  None = None
  q1 = q1
  q2 = q2
  q3 = q3
  q4 = q4
  q5 = q5
  Requests = {q1, q2, q3, q4, q5}
  Callers <- MCCallers
  Skipped = {health}
  Limit = 2
  Window = 3
  MaxDelay = 1
  MaxClock = 3
SPECIFICATION Spec
INVARIANTS TypeOK WindowHolds
PROPERTIES DeniedOnlyWhenFull
SYMMETRY RequestSymmetry
CHECK_DEADLOCK FALSE

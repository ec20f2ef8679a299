SPECIFICATION Spec
CONSTANTS
  Skills = {s1, s2}
  Tools = {lo, hi}
  s1 = s1
  s2 = s2
  lo = lo
  hi = hi
  Profiles <- Several
  MaxCalls = 2
  MaxBatches = 2
  MaxTurns = 1
  MaxRestarts = 0
CHECK_DEADLOCK FALSE
PROPERTIES
  DeactivatedIsOff

SPECIFICATION Spec
CONSTANTS
  Gens = {g1, g2}
  NoGen = NoGen
  Sides = {a, b}
  InitSide = a
  NoSide = NoSide
  NoSnap = NoSnap
  NoCkpt = NoCkpt
  MaxTurns = 2
  MaxIters = 1
  MaxCalls = 1
  MaxCrashes = 0
  Shrinks = FALSE
CHECK_DEADLOCK FALSE
PROPERTIES
  EndedTurnIsNotVoided

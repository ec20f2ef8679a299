SPECIFICATION FairSpec
CONSTANTS
  Gens = {g1, g2}
  NoGen = NoGen
  Sides = {a, b}
  InitSide = a
  NoSide = NoSide
  NoSnap = NoSnap
  NoCkpt = NoCkpt
  MaxTurns = 2
  MaxIters = 1
  MaxCalls = 1
  MaxCrashes = 1
  Shrinks = FALSE
CHECK_DEADLOCK FALSE
INVARIANTS
  TypeOK
  TurnIsAlone
PROPERTIES
  TranscriptIsSettled
  CommittedIsKept
  LeaseIsReleased

SPECIFICATION FairSpec
CONSTANTS
  Users = {u}
  Strangers = {x}
  Sessions = {s1, s2}
  MaxTurns = 2
  MaxPrompts = 1
  Missable = {1}
INVARIANTS
  ChatAgreesWithTranscript
  RunOnlyIfClicked
PROPERTIES
  StopIsComplete
  NothingHangs
CHECK_DEADLOCK FALSE

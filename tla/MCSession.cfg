SPECIFICATION MCSpec
CONSTANTS
  w1 = w1
  w2 = w2
  Sources <- Watches
  MaxEvents = 2
  BatchSize = 1
  MaxLines = 2
  MaxPublish = 2
  Capacity = 2
  MaxPayload = 2
  MaxRecords = 3
  MaxFlushes = 1
  Turns = 2
  MaxCancels = 2
INVARIANTS
  UserComesFirst
  TraceIsTruthful
PROPERTIES
  EventsAreAccounted
  EventsAreHeard
  CommandsLeaveNothing
  
  RunsEndProperly
CHECK_DEADLOCK FALSE

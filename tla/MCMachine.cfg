SPECIFICATION MCFairSpec
CONSTANTS
  Calls = {c1, c2}
  Ports = {web}
  NoPort = NoPort
  MaxProcesses = 1
  MaxExited = 1
  MaxStarts = 2
  MaxTurns = 2
  Trees <- SomeTrees
  SearchCaps <- SomeCaps
  LargeFiles <- Characters
  Chunks = {1, 2}
  Widths = {1, 2}
  Windows <- SomeWindows
  Words = {"a", "b", "x", "y"}
  PatchedFiles <- SomeFiles
  Diffs <- SomeDiffs
INVARIANTS
  LimitsHold
  VoidedAreGone
  FooterIsHonest
  PagesMatchTheText
  PatchIsExact
PROPERTIES
  CommandsSettle
CHECK_DEADLOCK FALSE

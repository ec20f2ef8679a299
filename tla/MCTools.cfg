SPECIFICATION MCSpec
CONSTANTS
  Skills = {s1, s2}
  Tools = {lo, hi}
  s1 = s1
  s2 = s2
  lo = lo
  hi = hi
  Profiles <- AllProfiles
  MaxBatches = 2
  MaxRestarts = 1
  Gens = {g1}
  NoGen = NoGen
  Sides = {a, b}
  InitSide = a
  NoSide = NoSide
  NoSnap = NoSnap
  NoCkpt = NoCkpt
  MaxIters = 1
  MaxCrashes = 1
  Shrinks = TRUE
  MaxCalls = 2
  MaxTurns = 2
  CalSessions = {"p", "q"}
  CalUids = {1, 2}
  CalDay = 3
  FallBack = 4
  SpringForward = 10
  MaxSteps = 5
  CalFiles <- AllCalendars
  CalCalls <- AllEdits
  Procs = {"p", "q"}
  Paths = {1, 2}
  Texts = {"x", "y"}
  Pieces <- ChunksOf
  Identity <- Providers
  Config <- Chunking
  MaxEdits = 1
  MaxIndexCalls = 3
  MemoryCalls = {"c", "d"}
  TextLines <- MarkdownLines
  Headings = {"k1", "k2"}
  MemoryFiles <- SomeMemories
  Contents <- SomeContents
  Replies <- SomeSummaries
  CompactAt = 3
  MaxLines = 5
INVARIANTS
  RiskyGrantsConsented
  ReplayAgreement
  CompactionSavable
  AnswersAreTrue
PROPERTIES
  SkillsAreSound
  TurnsAreAtomic
  EditsAreExact
  UpdatesAreKept
  MemoryIsSerial
CHECK_DEADLOCK FALSE

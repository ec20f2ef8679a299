SYMMETRY Symmetry
SPECIFICATION Spec
CONSTANTS
  Ids = {i1, i2}
  Skills = {k}
  Texts = {"p"}
  Lists = {"empty", "list"}
  LostAnchors = {}
  NoTodos = "empty"
  Named = "named"
  MaxRows = 4
  MaxTail = 1
  MaxEdits = 1
  MaxEvents = 3
  MaxDamage = 1
INVARIANTS
  SkillsNeverRevived
  BranchStateIsRestored
  ResumeAgrees
CHECK_DEADLOCK FALSE

SPECIFICATION Spec
CONSTANTS Files <- SomeFiles Diffs <- SomeDiffs
INVARIANTS AddedLinesStayLines
CHECK_DEADLOCK FALSE

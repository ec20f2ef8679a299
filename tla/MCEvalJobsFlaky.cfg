SPECIFICATION Spec
CONSTANTS
  NTrials = 2
  Retries = 1
  Flaky = TRUE
  MaxExecutions = 3
  MaxInvocations = 3
INVARIANTS
  AttemptsAreUnique
CHECK_DEADLOCK FALSE

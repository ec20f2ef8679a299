SPECIFICATION MCSpec
CONSTANTS
  Plugins = 2
  Tasks = {a, b}
  MaxCalls = 4
  MaxRequests = 2
  RequestLimits = {1, 2}
  TokenLimits = {2, 9}
  Plain = {2}
  Rich = {1}
  NTrials = 2
  Retries = 1
  MaxExecutions = 4
  MaxInvocations = 3
  BrowserCalls = {c, d}
  Hosts = {lan, dev}
  Bridged = {dev}
  MaxLaunches = 2
  MaxBrowserCalls = 3
  MaxTunnels = 1
  MaxTabs = 2
INVARIANTS
  AttemptsAreUnique
  LedgerIsSound
  SessionsAreSound
  OnlyWholeIsGiven
  HooksAreHonoured
PROPERTIES
  RequestsAreSettled
CHECK_DEADLOCK FALSE

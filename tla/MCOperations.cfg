SPECIFICATION OperationsSpec
CONSTANTS
  Signatures = {gap, lag, budget}
  Window = 5
  Floor = 2
  RetryAfters = {1, 3}
  CallTimeout = 3
  MaxFolds = 2
  None = None
  LagThreshold = 2
  StaleIntervals = 1
  MaxEntries = 4
  MaxRestarts = 1
  Tabs = {t1, t2}
  MaxGets = 1
  MaxPosts = 2
  MaxInFlight = 1
  MaxMishaps = 1
  Processes = {"monolith", "api", "feed", "store", "alerts"}
  MaxOutages = 2
  MaxDeaths = 2
CHECK_DEADLOCK FALSE
INVARIANTS
  GateIsExact
  TroubleIsNotHidden
  LastPostPrevails
  ClosesClean
PROPERTIES
  TabsTellTheTruth

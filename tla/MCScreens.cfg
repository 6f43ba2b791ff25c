SPECIFICATION ScreensSpec
CONSTANTS
  Rows <- SomeRows
  Candles <- SomeCandles
  Intervals = {1, 2}
  Estimators = {"log", "garman_klass"}
  MinObservations = 1
  MinExpiry = 2
  MaxPoints = 2
  LastExpiry = 9
  MaxPrice = 2
  Horizon = 4
  NoExpiry = NoExpiry
  NoChain = NoChain
  Underlyings = {"BTC", "ETH"}
  Expiries = {"e1", "e2", "e3", "e4"}
  Unreal = {"e4"}
  Listings <- SomeListings
  Quoted <- SomeQuoted
  StoredDay <- SomeDays
  LiveMinute = 3
  Links <- SomeLinks
  MaxPicks = 2
  MaxFailures = 1
  Chains = {near, far}
  SampleEvery = 1
  Grace = 2
  MaxTabs = 2
  MaxFaults = 1
CHECK_DEADLOCK FALSE
INVARIANTS
  CleanMeansCurrent
  MinuteIsInHand
  PointsAreTrue
  AcceptedIsCharted
  LadderIsTheSelection
  OneSocketWhileFollowing
PROPERTIES
  WatchedIsRefreshed
  OfferStands
  ScreenSettles

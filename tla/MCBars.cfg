SPECIFICATION WaySpec
CONSTANTS
  Strikes = {1, 4}
  MinPairs = 2
  BookFrames <- TopsOfBook
  TickerFrames <- Tickers
  MaxSent = 2
  None = None
  Width = 2
  BookGrace = 0
  ReferenceGrace = 2
  ComputedGrace = 1
  BookLag = 0
  ReferenceLag = 2
  ComputedLag = 1
  Books <- SomeBooks
  References <- SomeReferences
  Spots = {1}
  Restores <- SomeRestores
  MaxFrames = 3
  MaxAge = 3
  MaxTime = 5
  FlushEvery = 2
  Horizon = 3
  Slack = 1
  MaxMinute = 5
  MaxFaults = 1
CHECK_DEADLOCK FALSE
INVARIANTS
  LadderIsTrue
  BarIsTheMinute
  EveryMinuteOnce
  EveryBarIsKeptOnce
  ReadsAreWhole

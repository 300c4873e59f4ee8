SPECIFICATION FairSpec
CONSTANTS
  a = a
  b = b
  f = f
  NoEntry = NoEntry
  None = None
  Silent = Silent
  Key <- TwoKeys
  DateOf <- TwoDates
  Value <- OneValues
  Report <- OneReport
  Feed <- OneFeed
  FeedOf <- BothOfF
  Timetables <- Both
  Faults <- AllFaults
  MaxTS = 1
  MinDelta = 0
  MaxEntries = 1
  EvictionShare = 2
  HalfRange = 8
  HeaderRegresses = FALSE
  LastDay = 2
  QueueSize = 2
  BatchSize = 2
  MaxAttempts = 2
  MaxPolls = 2
  MaxCrashes = 1
  Counting = TRUE
INVARIANTS
  FilterBounded
  NoSendAfterClose
  CleanMeansFlushed
  RecordsAreBacked
PROPERTIES
  Implements
  ShutdownEnds

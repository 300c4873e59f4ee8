SPECIFICATION Spec
CONSTANTS
  a = a
  b = b
  f = f
  NoEntry = NoEntry
  None = None
  Silent = Silent
  Key <- OneKey
  DateOf <- OneDay
  Value <- TwoValues
  Report <- TwoReports
  Feed <- OneFeed
  FeedOf <- OneOfF
  Timetables <- Loaded1
  Faults <- OnlyPermanent
  MaxTS = 2
  MinDelta = 0
  MaxEntries = 2
  EvictionShare = 2
  HalfRange = 8
  HeaderRegresses = FALSE
  LastDay = 1
  QueueSize = 1
  BatchSize = 1
  MaxAttempts = 2
  MaxPolls = 2
  MaxCrashes = 0
  Counting = TRUE
INVARIANTS
  MissingIsAdmitted

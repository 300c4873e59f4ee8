SPECIFICATION FairSpec
CONSTANTS
  a = a
  b = b
  f = f
  NoEntry = NoEntry
  None = None
  Silent = Silent
  Key <- OneKey
  DateOf <- OneDay
  Value <- DriftingOrSkippedValues
  Report <- DriftingOrSkipped
  Feed <- OneFeed
  FeedOf <- OneOfF
  Timetables <- Loaded1
  Faults <- NoFaults
  MaxTS = 3
  MinDelta = 1
  MaxEntries = 2
  EvictionShare = 2
  HalfRange = 8
  HeaderRegresses = FALSE
  LastDay = 1
  QueueSize = 1
  BatchSize = 1
  MaxAttempts = 2
  MaxPolls = 2
  MaxCrashes = 1
  Counting = FALSE
INVARIANTS
  MissingIsAdmitted
PROPERTIES
  SuppressedIsNear
  EventuallyUpToDate

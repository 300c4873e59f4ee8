SPECIFICATION FairSpec
CONSTANTS
  p = p
  q = q
  l = l
  Poller <- OnePoller
  Loader <- OneLoader
  LoadGaps <- AnHour
  Budget = 2
  Burst = 1
  Interval = 1
  Jitter = 0
  MaxBackoff = 2
  MaxDoublings = 1
  DayLength = 3
  Days = 2
  MaxRestarts = 1
  Prompt = TRUE
  Traced <- Slots
INVARIANTS
  Paced
PROPERTIES
  BackAtMidnight
  AllReturn

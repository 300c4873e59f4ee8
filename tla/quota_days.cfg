SPECIFICATION Spec
CONSTANTS
  p = p
  q = q
  l = l
  Poller <- TwoPollers
  Loader <- NoLoader
  LoadGaps <- LoaderGaps
  Budget = 2
  Burst = 1
  Interval = 1
  Jitter = 0
  MaxBackoff = 2
  MaxDoublings = 1
  DayLength = 3
  Days = 2
  MaxRestarts = 0
  Prompt = FALSE
  Traced <- Sends
SYMMETRY Pollers
INVARIANTS
  SentWithinBudget
  PausesEndByMidnight
  WaitBounded
PROPERTIES
  SpentStaysSpent

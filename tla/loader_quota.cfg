SPECIFICATION Spec
CONSTANTS
  p = p
  q = q
  l = l
  Poller <- OnePoller
  Loader <- OneLoader
  LoadGaps <- LoaderGaps
  Budget = 3
  Burst = 1
  Interval = 1
  Jitter = 0
  MaxBackoff = 2
  MaxDoublings = 1
  DayLength = 3
  Days = 2
  MaxRestarts = 0
  Prompt = FALSE
  Traced <- SendsAndTold
PROPERTIES
  QuotaAnswerStopsAll

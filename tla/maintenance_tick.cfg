SPECIFICATION Spec
CONSTANTS
  i = i
  j = j
  v = v
  w = w
  None = None
  Job <- TwoJobs
  Visit <- BothVisits
  ServiceDate <- Dates
  ScheduledAt <- Hours
  Existing <- TodayOn
  Ahead <- OneVisit
  Live <- OtherVisit
  Matched <- Either
  HoursPerDay = 2
  LastHour = 4
  MaxRows = 3
  Settle = 1
  LookaheadDays = 1
  RetentionDays = 1
SYMMETRY Jobs
INVARIANTS
  SettledCounted
  RowsKept
PROPERTIES
  HoursFinal

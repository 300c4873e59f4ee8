SPECIFICATION Spec
CONSTANTS
  i = i
  j = j
  v = v
  w = w
  None = None
  Job <- OneJob
  Visit <- OneVisit
  ServiceDate <- DateZero
  ScheduledAt <- HourOne
  Existing <- NoDates
  Ahead <- OneVisit
  Live <- OneVisit
  Matched <- Matching
  HoursPerDay = 2
  LastHour = 3
  MaxRows = 3
  Settle = 1
  LookaheadDays = 1
  RetentionDays = 1
INVARIANTS
  RowsKept

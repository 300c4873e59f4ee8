SPECIFICATION Spec
CONSTANTS
  f = f
  g = g
  None = None
  Feed <- TwoFeeds
  Messages <- Bodies
  Timetables <- Versions
  Requests <- Asked
  Hourly <- Rows
  Ranges <- Spans
  HistoryMaxDays = 2
  Thresholds <- Bounds
  MaxPolls <- Polls
  TTL = 1
  servedAfter = 1
  DayLength = 4
  Precision = 3
  Lag = 1
  MaxNow = 3
  MaxOvertaken = 2
INVARIANTS
  FoundAtOneMoment
  AnswersComplete
  ScheduledAsMatched
  StaleMeansStuck
  HistoryAddsUp

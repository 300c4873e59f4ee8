SPECIFICATION Spec
CONSTANTS
  Midnight <- SydneyMidnight
  Noon <- SydneyNoon
  HalfDay = 4
  Hour = 1
  FirstDay = 1
  LastDay = 6
  Overlap = 2
  DateTolerance = 3
  Services <- Calendars
  Offsets = {0, 3, 8, 12}
  Messages <- Received
  Timetables <- Bundles
  FetchedAt = 24
  ReconcileS = 1
  IntRange = 16
  None = None
  NoStart = NoStart
  BadDate = BadDate
INVARIANTS
  TypeOK
  DatesAreTold
  LastWordWins
  EveryUpdateCounted
  RelationshipsArrive
  OneTimetable
  DelayMeetsPrediction

SPECIFICATION ScheduleSpec
CONSTANTS
  Feeds <- MCFeeds
  Days <- Dates
  WeekLength = 2
  DayLength = 6
  Zones <- TimeZones
  SearchTime = 12
  MaxLimit = 3
  Limits = {1, 3}
  Ttl = 3
  Near = 3
  Shifts <- MCShifts
  LastTick = 11
  NoCalculation = NoCalculation
  NoAnswer = NoAnswer
INVARIANTS
  AnswerIsTimetable
  EntryLasts

CONSTANTS
  MaxEstimates = 2
  PlaceSlots = {p1, p2}
  MaxPlacings = 2
  PlacementFaults = {"crash", "slow", "redis", "area", "workers"}
  DayStartTime = 130
  DayEndTime = 1500
  WorkEndTime = 1430
  MinimumSearchDelay = 10
  Moments = {0, 3599, 5399, 5400, 5401, 54000, 54055, 54059, 54060, 86399, 86400, 140459, 140460, 172799}
  OrderStarts = {5399, 5400, 48600, 52200, 52201, 91800}
  TaskMinutes = {0, 60, 61, 1440}
  TaskCounts = {0, 1, 6, 7, 13}
  PreferenceSlots = {t1, t2}
  MaxPreferenceCalls = 5
  MaxCallbacks = 3
  PreferenceFaults = {"gateway", "crash"}
  Visits = {v1, v2}
  MaxFollowUps = 1
  VisitSlots = {s1, s2}
  MaxVisitCalls = 2
  VisitFaults = {"gateway", "record"}
SPECIFICATION OrderServicesSpec
INVARIANTS
  OrderServicesTypeOK
  OneOrderPerEstimate PlacedAndQueued WorkersListed
  SearchStartsWhenAllowed TasksOnWorkDays
  CallsBounded RetriesUntilAnswered AnswerKept
  OneVisitAtATime FollowUpsMade
CHECK_DEADLOCK FALSE

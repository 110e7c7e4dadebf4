SPECIFICATION FairSpec
CONSTANTS
  e1 = e1
  e2 = e2
  e3 = e3
  Events = {e1, e2, e3}
  Timestamps = {1, 2, 4}
  Tolerance = 1
  MaxFailures = 1
  MaxCrashes = 1
INVARIANTS
  OnlyLateEventsAreIgnored
PROPERTIES
  ScheduleIsNotDropped
  HandlersAndScheduleEnd
CHECK_DEADLOCK FALSE

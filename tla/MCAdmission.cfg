SPECIFICATION Spec
CONSTANTS
  q1 = q1
  o1 = o1
  o2 = o2
  w1 = w1
  Request = {q1}
  Operator = {o1, o2}
  Watcher = {w1}
  Schedules <- MCSchedules
  DayLength = 2
  overrideDuration = 2
  Start = 11
  MaxTime = 5
INVARIANTS
  ScheduleIsInterval
  FreezeReturns
  FreezeIsEffective
CHECK_DEADLOCK FALSE
PROPERTY WatcherSettles

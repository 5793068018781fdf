CONSTANTS
  a = a
  b = b
  Items <- TwoItems
  Workers = {w1, w2}
  Priorities <- TwoPriorities
  Idle = Idle
  Exited = Exited
  MaxAdds = 2
  MaxClock = 2
SPECIFICATION FairSpec
CHECK_DEADLOCK FALSE
INVARIANTS
  TimerCoversHead
PROPERTIES
  SchedulerProgress

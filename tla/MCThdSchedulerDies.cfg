CONSTANTS
  a = a
  b = b
  Items <- TwoItems
  Workers = {w1}
  Priorities <- OnePriority
  Idle = Idle
  Exited = Exited
  MaxAdds = 2
  MaxClock = 2
SPECIFICATION FairSpec
CHECK_DEADLOCK FALSE
PROPERTY DueItemsPopped

CONSTANTS
  Threads = {t1, t2}
  NoThread = NoThread
  InitialCount = 0
  SemValueMax = 1
  Items = {1}
  NoItem = NoItem
  MaxInserts = 1
SPECIFICATION FairSpec
PROPERTY DownReleasesRemovers
CHECK_DEADLOCK FALSE

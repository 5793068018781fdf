CONSTANTS
  Threads = {t1, t2, t3}
  TwoThreads = {t1, t2}
  NoThread = NoThread
  InitialCount = 0
  SemValueMax = 2
  Items = {1, 2}
  NoItem = NoItem
  MaxInserts = 2
SPECIFICATION MCSpec
INVARIANTS
  TokensMatchItems
  PopHasItem
  ErasedNeverReceived
PROPERTIES
  ImplementsClosableQueue
  QueuesProgress
CHECK_DEADLOCK FALSE

CONSTANTS
  Threads = {t1, t2, t3}
  NoThread = NoThread
  InitialCount = 0
  SemValueMax = 3
  MaxSignals = 2
  MaxInterrupts = 2
SPECIFICATION FairSpec
INVARIANTS
  WaitersCounted
  NoLostSignal
  OneReleasePerSignal
  Exclusion
  WritersExclusive
PROPERTIES
  NoSuccessAfterAbandon
  ImplementsEventObject
  SyncProgress

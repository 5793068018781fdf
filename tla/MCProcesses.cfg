CONSTANTS
  Threads = {t1, t2}
  MaxSignals = 3
  Params = {p1, p2}
  NoParams = NoParams
  MaxControls = 2
  MaxInstalls = 2
SPECIFICATION FairSpec
CHECK_DEADLOCK FALSE
INVARIANTS
  ThreadSafe
  DaemonSafe
  NTSafe
PROPERTIES
  ProcessesProgress

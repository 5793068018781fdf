CONSTANTS
  Requests = {r1, r2, mute}
  Silent = {mute}
  NoRequest = NoRequest
  Workers = {w1}
  Callers = {c1}
  MaxStarts = 2
SPECIFICATION FairSpec
INVARIANTS
  AnsweredOnce
  StoppedIsQuiet
  DestroyedIsQuiet
PROPERTIES
  RpcProgress
CHECK_DEADLOCK FALSE

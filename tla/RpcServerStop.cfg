CONSTANTS
  Requests = {r1, r2, mute}
  Silent = {mute}
  NoRequest = NoRequest
  Workers = {w1}
  Callers = {c1}
  MaxStarts = 2
SPECIFICATION FairSpec
PROPERTY StopParksListener
CHECK_DEADLOCK FALSE

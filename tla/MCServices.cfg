CONSTANTS
  PoolUsers = {u1, u2}
  Runners = {r1, r2}
  NoRunner = NoRunner
  MaxPoolSize = 2
  MaxPermanent = 1
  Loggers = {u1, u2}
  Messages <- ThreeMessages
  LogLevels = {1, 2}
  NoMessage = NoMessage
  Posters = {u1, u2}
  MaxConns = 2
  NoPoster = NoPoster
SPECIFICATION FairSpec
CHECK_DEADLOCK FALSE
INVARIANTS
  PoolSafe
  LogSafe
  PostSafe
PROPERTIES
  ServicesProgress

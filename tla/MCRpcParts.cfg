CONSTANTS
  Transports = {"t1", "t2"}
  NameOf <- TwoNames
  ContentPosts = {"r1"}
  NoTransport = "none"
  MaxOwnerCalls = 3
  Callers = {"c1"}
  Retries = 2
  DispatchWorkers = {"w1"}
  Tenants = {"d", "x"}
  DefaultTenant = "d"
  Interfaces = {"i1", "i2"}
  Methods = {"m1"}
  NoObject = "none"
  MaxDispatches = 2
SPECIFICATION FairSpec
CHECK_DEADLOCK FALSE
INVARIANTS
  ContentSafe
  CallSafe
  DispatchSafe
PROPERTIES
  PartsProgress

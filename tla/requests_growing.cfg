SPECIFICATION Spec
CONSTANTS
  h1 = h1
  h2 = h2
  cl = cl
  Nil = Nil
  Hosts = {h1, h2}
  Procs = {0, 1, 2, cl}
  HostOf <- MCGrowingHostOf
  RevBase = 2
  MaxRanks = 3
  HostOrder <- MCHostOrder
  Hash <- MCHash
  Client = cl
  InitialSize = 2
  KnownRanks = {0, 1}
  EnableCache = FALSE
  CacheSize = 1
  Calls <- MCGrowingCalls
  NoData = ""
  MaxInodes = 3
INVARIANTS
  ForwardedAtMostOnce
  LateRanksAreIdle
PROPERTIES
  ExactlyOnce
  CallsReturn

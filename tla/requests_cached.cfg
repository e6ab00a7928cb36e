SPECIFICATION Spec
CONSTANTS
  h1 = h1
  h2 = h2
  cl = cl
  Nil = Nil
  Hosts = {h1, h2}
  Procs = {0, 1, 2, cl}
  HostOf <- MCHostOf
  RevBase = 2
  MaxRanks = 3
  HostOrder <- MCHostOrder
  Hash <- MCHash
  Client = cl
  InitialSize = 3
  KnownRanks = {0, 1, 2}
  EnableCache = TRUE
  CacheSize = 2
  Calls <- MCCachedCalls
  NoData = ""
  MaxInodes = 4
CHECK_DEADLOCK FALSE
INVARIANTS
  RevPortOwners
  CacheIsCoherent
PROPERTIES
  ExactlyOnce
  EntriesChargedOnce

SPECIFICATION WorkloadSpec
CONSTANTS
  h1 = h1
  h2 = h2
  cl = cl
  Nil = Nil
  Hosts = {h1, h2}
  Procs = {0, 1, 2, cl}
  HostOf <- MCHostOf
  RevBase = 2
  MaxRanks = 3
  HostOrder <- MCHostOrder
  Hash <- MCHash
  Client = cl
  InitialSize = 3
  KnownRanks = {0, 1, 2}
  EnableCache = TRUE
  CacheSize = 4
  Calls = {}
  NoData = ""
  MaxInodes = 10
  DIR_SIZE = 3
  FILE_SIZE_PER_DIR = 2
INVARIANTS
  AverageIsPerCall

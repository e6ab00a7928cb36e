SPECIFICATION Spec
CONSTANTS
  a = a
  b = b
  d = d
  noData = noData
  Names = {a, b}
  Data = {d}
  NoData = noData
  MaxInodes = 4
INVARIANTS
  TypeOK
  NoDanglingEntry
  EntriesPointBack
  DirectoriesAreNotHidden
PROPERTIES
  RemovalIsExact

SPECIFICATION Spec
CONSTANTS
  h1 = h1
  h2 = h2
  mon = mon
  m1 = m1
  m2 = m2
  m3 = m3
  c1 = c1
  Nil = Nil
  Hosts = {h1, h2}
  Procs = {mon, m1, m2, m3, c1}
  Mon = mon
  MDSs = {m1, m2, m3}
  Clients = {c1}
  HostOf <- MCHostOf
  RevBase = 5
  MaxUpsets = 2
INVARIANTS
  TypeOK
  DenseRanks
  ViewsAgree
  PortsReleased
  AnswerReachesAsker
  StaleMapsAreNotWrong
  BroadcastInOrder
PROPERTIES
  RanksAreForever
  CallsReturn

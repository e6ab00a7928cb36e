SPECIFICATION Spec
CONSTANTS
  h1 = h1
  h2 = h2
  mon = mon
  m1 = m1
  m2 = m2
  m3 = m3
  c1 = c1
  Nil = Nil
  Hosts = {h1, h2}
  Procs = {mon, m1, m2, m3, c1}
  Mon = mon
  MDSs = {m1, m2, m3}
  Clients = {c1}
  HostOf <- MCHostOf
  RevBase = 3
  MaxUpsets = 1
INVARIANTS
  FailureNeverHappens

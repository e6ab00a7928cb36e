SPECIFICATION Spec
CONSTANTS
  k1 = k1
  k2 = k2
  k3 = k3
  k4 = k4
  x = x
  y = y
  null = null
  Keys = {k1, k2, k3, k4}
  Values = {x, y}
  Capacity = 3
  NoValue = null
INVARIANTS
  MapMatchesList
  HoldsMostRecent
PROPERTIES
  ImplementsStore

SPECIFICATION DropSpec
CONSTANTS
  n1 = n1
  n2 = n2
  n3 = n3
  none = none
  Node = {n1, n2}
  AsyncIo = {n2}
  Cutoff = {}
  Fallible = {n2}
  Boundary = {}
  Data = {0, 1}
  DefaultData = 0
  Value = {0, 1}
  NoValue = none
  MaxConnections = 1
  Wires <- Pair
  Compute <- Gate
INVARIANTS StaleIsDirty

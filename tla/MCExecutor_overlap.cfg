SPECIFICATION FairSpec
CONSTANTS
  n1 = n1
  n2 = n2
  n3 = n3
  none = none
  Node = {n1, n2, n3}
  AsyncIo = {n1}
  Cutoff = {n1, n2}
  Fallible = {n1, n2}
  Boundary = {n2}
  Data = {0, 1}
  DefaultData = 0
  Value = {0, 1}
  NoValue = none
  MaxConnections = 1
  Wires <- Loop
  Compute <- Gate
INVARIANTS StaleIsDirty CutoffPrunes
PROPERTIES KeepsPromise ErrorKeepsDirty PassReturns
CHECK_DEADLOCK TRUE

SPECIFICATION Spec
CONSTANTS
  n1 = n1
  n2 = n2
  n3 = n3
  none = none
  Node = {n1, n2, n3}
  AsyncIo = {n1}
  Cutoff = {n1, n2}
  Fallible = {n1, n3}
  Boundary = {}
  Data = {0, 1}
  DefaultData = 0
  Value = {0, 1}
  NoValue = none
  MaxConnections = 2
  Wires <- Diamond
  Compute <- Gate
INVARIANTS TypeOK StaleIsDirty ErrorsAreRetried CutoffPrunes
PROPERTIES NoGlitch ErrorKeepsDirty KeepsPromise
CHECK_DEADLOCK TRUE

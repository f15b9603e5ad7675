SPECIFICATION BuiltSpec
CONSTANTS
  src = src
  sg = sg
  sgIn = sgIn
  sgOut = sgOut
  inner = inner
  sink = sink
  root = root
  t1 = t1
  e1 = e1
  e2 = e2
  e3 = e3
  e4 = e4
  e5 = e5
  None = None
  Absent = Absent
  Root = root
  Path = {src, sg, sgIn, sgOut, inner, sink}
  Parent <- ParentOf
  SubGraph = {sg}
  Proxy <- ProxyOf
  Interface = {sgIn, sgOut}
  Defs <- DefsOf
  Type = {t1}
  Ids <- IdsOfTwoPorts
  EdgeId = {e1, e2}
  MaxPorts = 2
  Data <- Points
  DefaultData <- Low
  Value <- Points
  Field <- FieldsOf
  Extracted = {t1}
  Number = {0, 1}
  Cutoff = {inner}
  Fallible = {inner}
  Compute <- Forward
  Wires <- WiresOfShift
  DataAt <- DataOf
  DefaultsAt <- DefaultsOf
  FieldsAt <- SetFields
  Churn = {}
  PortSides = {"in"}
  MaxDirty = 0
INVARIANTS FreshThroughPorts DefaultsAreMirrored SortIsRight

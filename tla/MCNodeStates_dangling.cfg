SPECIFICATION PortSpec
CONSTANTS
  src = src
  sg = sg
  sgIn = sgIn
  sgOut = sgOut
  inner = inner
  ifc = ifc
  root = root
  t1 = t1
  t2 = t2
  e1 = e1
  None = None
  Root = root
  Path = {src, ifc}
  Parent <- ParentOf
  SubGraph = {}
  Proxy <- ProxyOf
  Interface = {ifc}
  Defs <- DefsOf
  Type = {t1}
  Ids <- FreshIds
  EdgeId = {e1}
  MaxPorts = 1
INVARIANTS EdgesAgree

SPECIFICATION DrainedSpec
CONSTANTS
  src = src
  sg = sg
  sgIn = sgIn
  sgOut = sgOut
  inner = inner
  ifc = ifc
  root = root
  t1 = t1
  t2 = t2
  e1 = e1
  None = None
  Root = root
  Path = {ifc, sg, sgIn, sgOut}
  Parent <- ParentOf
  SubGraph = {sg}
  Proxy <- ProxyOf
  Interface = {sgIn, sgOut, ifc}
  Defs <- DefsOf
  Type = {t1, t2}
  Ids <- IdsOfPath
  EdgeId = {e1}
  MaxPorts = 2
INVARIANTS TypeOK OwnersAgree EdgesAgree EdgesAreTyped PortsAgree ExternalEndsResolve
PROPERTIES FeedChangesAreMarked

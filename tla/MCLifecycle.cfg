SPECIFICATION QuietSpec
CONSTANTS
  top = top
  sg = sg
  sgIn = sgIn
  sgOut = sgOut
  inner = inner
  root = root
  t1 = t1
  e1 = e1
  own = own
  builtin = builtin
  None = None
  Root = root
  Path = {top, sg, sgIn, sgOut, inner}
  Parent <- ParentOf
  SubGraph = {sg}
  Proxy <- ProxyOf
  Interface = {sgIn, sgOut}
  Defs <- DefsOf
  Type = {t1}
  Ids <- IdsOfPath
  EdgeId = {e1}
  MaxPorts = 1
  Leaf <- LeafOf
  Name = {own, builtin}
  OwnedName = {own}
  Fallible = {inner}
  AsyncIo = {top}
  Ends <- EndsOf
INVARIANTS LifecycleTypeOK TablesAgree ErrorsAreOfLiveNodes ConsumerIsCurrent TakenEntriesReturn

SPECIFICATION PortsSpec
CONSTANTS
  sub = sub
  ifc = ifc
  a = a
  b = b
  c1 = c1
  c2 = c2
  SubGraph = {sub}
  Interface = {ifc}
  Label = {a, b}
  Caller = {c1, c2}
  MaxPorts = 2
INVARIANTS LabelsMirror CallsHitTheirPort

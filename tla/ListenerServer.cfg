\* Server mode: a port closed and opened again, one connection, one event slot; the
\* shutdown races the commands.
SPECIFICATION Spec
CONSTANTS
  p1 = p1
  i1 = i1
  i2 = i2
  c1 = c1
  None = None
  Ports = {p1}
  Instances = {i1, i2}
  Conns = {c1}
  Cap = 1
  Server = TRUE
SYMMETRY Symmetry
INVARIANTS
  TypeOK
  CloseIsQuiet
  SocketsMapped
  EventOrder
  NoneOutOfReach
PROPERTY PortsCloseEmpty
CHECK_DEADLOCK FALSE

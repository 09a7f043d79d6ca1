\* The REPL: two connections share an event channel with room for one event, and
\* `close` races a shutdown.
SPECIFICATION FairSpec
CONSTANTS
  p1 = p1
  i1 = i1
  c1 = c1
  c2 = c2
  None = None
  Ports = {p1}
  Instances = {i1}
  Conns = {c1, c2}
  Cap = 1
  Server = FALSE
PROPERTIES
  QueuedAccepted
  CloseReturns
CHECK_DEADLOCK FALSE

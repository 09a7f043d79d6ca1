\* The client that opened a forward disconnects.
SPECIFICATION Spec
CONSTANTS
  p1 = p1
  f1 = f1
  c1 = c1
  None = None
  Ports = {p1}
  Instances = {f1}
  Proxies = {}
  Conns = {c1}
  Logs = {"stdout"}
  MaxBytes <- MCBytes
  Server = TRUE
INVARIANT ForwardsPreserved
CHECK_DEADLOCK FALSE

\* A forward and a proxy, one after the other on a port, and a connection to
\* either; two bytes one way, one the other.
SPECIFICATION FairSpec
CONSTANTS
  p1 = p1
  f1 = f1
  f2 = f2
  c1 = c1
  None = None
  Ports = {p1}
  Instances = {f1, f2}
  Proxies = {f2}
  Conns = {c1}
  Logs = {"stdout", "file"}
  MaxBytes <- MCBytes
  Server = TRUE
INVARIANTS
  TypeOK
  InOrder
  
  TotalsSettle
PROPERTIES
  CloseEndsPipes
  
CHECK_DEADLOCK FALSE

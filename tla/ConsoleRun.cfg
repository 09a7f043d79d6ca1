\* The REPL with two sessions on one port, and a channel of one signal.
SPECIFICATION FairSpec
CONSTANTS
  c1 = c1
  c2 = c2
  Conns = {c1, c2}
  Home <- MCHome
  MaxPort = 2
  Number <- MCNumber
  LowerCase <- MCLower
  Bang <- MCBang
  Plus <- MCPlus
  None = None
  Lines <- MCLines
  SigCap = 1
INVARIANTS
  TypeOK
  
  EndsClean
PROPERTIES
  
  Ends
CHECK_DEADLOCK FALSE

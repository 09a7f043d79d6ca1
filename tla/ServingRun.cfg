\* Two programs connect, with the token or not, two lines are typed.
SPECIFICATION FairSpec
CONSTANTS
  a = a
  b = b
  None = None
  Clients = {a, b}
  Number <- MCNumber
  LowerCase <- MCLower
  Bang <- MCBang
  Plus <- MCPlus
  Lines <- MCLines
  MaxLines = 2
  MaxPushed = 2
  OutCap = 2
  WireCap = 1
INVARIANTS
  TypeOK
  
  
  LinesReachServer
  ServedWhileIn
 
CHECK_DEADLOCK FALSE

\* Everything may go wrong.
SPECIFICATION Spec
CONSTANTS
  Lines <- AllLines
  Mishaps <- AllMishaps
  MaxLines = 3
  MaxEvents = 1
  CmdCap = 1
  OutCap = 1
  EvCap = 1
  WireCap = 3
  Parts = 2
INVARIANTS
  TypeOK
  AnswersOrdered
CHECK_DEADLOCK FALSE

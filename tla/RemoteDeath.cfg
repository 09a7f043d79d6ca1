\* The session dies while the client is in session mode.
SPECIFICATION Spec
CONSTANTS
  Lines <- AnsweredLines
  Mishaps = {"death"}
  MaxLines = 3
  MaxEvents = 0
  CmdCap = 1
  OutCap = 1
  EvCap = 1
  WireCap = 3
  Parts = 2
INVARIANT InStep
CHECK_DEADLOCK FALSE

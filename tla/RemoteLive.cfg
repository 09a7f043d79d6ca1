\* The session lives and every line has output: responses, modes and prompts.
SPECIFICATION FairSpec
CONSTANTS
  Lines <- AnsweredLines
  Mishaps = {"leave", "big"}
  MaxLines = 5
  MaxEvents = 2
  CmdCap = 1
  OutCap = 1
  EvCap = 1
  WireCap = 3
  Parts = 2
INVARIANTS
  InStep
  ModesAgree
 
CHECK_DEADLOCK FALSE

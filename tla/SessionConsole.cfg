\* Two attachments in the REPL, two bytes from the peer.
SPECIFICATION Spec
CONSTANTS
  d1 = d1
  d2 = d2
  Drainers = {d1, d2}
  Server = FALSE
  MaxBytes = 2
SYMMETRY Symmetry
INVARIANTS
  NoticeComplete
  ForegroundIsAttached
PROPERTY RefinesStream
CHECK_DEADLOCK FALSE

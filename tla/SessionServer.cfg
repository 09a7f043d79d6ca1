\* Server mode, two attachments: received data reaches the attached user.
SPECIFICATION FairSpec
CONSTANTS
  d1 = d1
  d2 = d2
  Drainers = {d1, d2}
  Server = TRUE
  MaxBytes = 1
INVARIANTS
  TypeOK
  Lossless
  NoSleepOnData
  NeverForgotten
 
CHECK_DEADLOCK FALSE

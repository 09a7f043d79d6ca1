\* A session killed by its peer while the user attaches or detaches.
SPECIFICATION Spec
CONSTANTS
  d1 = d1
  Drainers = {d1}
  Server = TRUE
  MaxBytes = 1
INVARIANT ListedIsLive
CHECK_DEADLOCK FALSE

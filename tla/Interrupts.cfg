SPECIFICATION MCSpec
CONSTANTS
  Thread = {t1, t2, t3}
  Preemptible = {t1}
  Ms = {5, 10, 20}
  Null = null
  Line = {0, 4, 10}
  h1 = h1
  h2 = h2
  Handler = {h1, h2}
  Drives <- MCDrives
  Exclusive = {h2}
  Threshold = 2
CHECK_DEADLOCK FALSE
INVARIANTS
  
  ReasonIsTrue
  NestingSafe
  MasksFollowHandlers
PROPERTIES
  WaitsReturn

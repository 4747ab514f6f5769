SPECIFICATION MCSpec
CONSTANTS
  Thread = {t1, t2, t3}
  Proc = {p1}
  Null = null
  c1 = c1
  c2 = c2
  c3 = c3
  Caller = {c1, c2, c3}
  Uses <- MCUses
  IdsPerEnt = 2
  MapSize = 4
  ReservedIds = 3
  Specified = {0, 1, 2}
  SameWords = FALSE
CHECK_DEADLOCK FALSE
INVARIANTS
  
  ProcessLivesWithThreads
  
  IdsAccounted
PROPERTIES
  ReleasedEnds

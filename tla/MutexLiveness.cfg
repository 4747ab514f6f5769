SPECIFICATION FairSpec
CONSTANTS
  t1 = t1
  t2 = t2
  t3 = t3
  Idle = idle
  Null = null
  Thread = {t1, t2, t3}
  MaxPrio = 2
  Prio <- RoundRobin
  Slice = 1
  Recursive = FALSE
  MaxDepth = 1
  NestedCallers = {}
PROPERTIES
  ReadyRuns
  SleeperWoken

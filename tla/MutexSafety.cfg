SPECIFICATION Spec
CONSTANTS
  t1 = t1
  t2 = t2
  t3 = t3
  Idle = idle
  Null = null
  Thread = {t1, t2, t3}
  MaxPrio = 2
  Prio <- MixedPrio
  Slice = 2
  Recursive = TRUE
  MaxDepth = 2
  NestedCallers = {t1, t3}
INVARIANTS
  MutualExclusion
  NoLostWakeup
  DispatchSound

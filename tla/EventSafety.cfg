SPECIFICATION MCSpec
CONSTANTS
  Thread = {t1, t2}
  First = t1
  Proc = proc
  Node = {n1, n2, n3}
  EvNo = {9, 11, 30}
  HandlerAtStart = TRUE
  MaxEvents = 3
  Null = null
  UThread = {u1, u2}
  UEvents = 2
  USent = {30}
  UTraps = {0, 3, 19}
  UChosen = {8, 30}
SYMMETRY MCSymmetry
CHECK_DEADLOCK FALSE
INVARIANTS
  
  QueuesExact
  RegistersKept
  FaultsComeFirst

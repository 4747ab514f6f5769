SPECIFICATION FairSpec
CONSTANTS
  Thread = {t1, t2, t3}
  Proc = {p1}
  Null = null
CHECK_DEADLOCK FALSE
PROPERTIES
  ExitedIsReaped

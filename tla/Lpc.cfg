SPECIFICATION FairSpec
CONSTANTS
  Thread = {t1, t2, t3}
  Tmout = {"none", "inf", "ms"}
  AnySrc = any
  Null = null
CHECK_DEADLOCK FALSE
INVARIANTS
  NobodyWaitsInVain
  TimeoutMeansNoMessage
PROPERTIES
  IsRendezvous
  TimedReceiveReturns

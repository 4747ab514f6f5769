SPECIFICATION ServersSpec
CHECK_DEADLOCK FALSE
CONSTANTS
  u1 = u1  u2 = u2  k1 = k1
  Client <- MCClient
  KThread <- MCKThread
  Menu <- MCMenu
  PageLen = 4
  HeapMax = 2
  AnySrc = AnySrc
  Null = Null
INVARIANTS
  
  NoServerStuck
  GrantsStand
PROPERTIES
  CallsReturn

SPECIFICATION MCSpec
CONSTANTS
  NrPages = 6
  MinPfn = 2
  MaxOrder = 3
  Reserved = {5}
  BootPages = {2}
  CntMod = 8
  FrameSize = 32
  Orders = 3
  SlabHdr = 6
  ObjHdr = 2
  Word = 8
  CacheLine = 4
  TypeDivisor = 2
  KmallocSizes <- MCKmallocSizes
  CacheStruct = 56
  UserCache = {u1, u2}
  UserSize = 7
  CreateArgs <- MCCreateArgs
  DefaultLimit = 3
  EarlyPages = {4}
  MaxRefs = 1
  NoSlab = NoSlab
  Proc = {p1, p2}
  Frame = {1, 2, 3, 4, 5, 6, 7, 8, 9, 10, 11, 12, 13, 14, 15, 16, 17, 18, 19, 20}
  PageSize = 2
  Span <- MCSpan
  UserLimit = 48
  KernBase = 60
  None = none
  Image <- MCImage
  StackBottom = 40
  ArgSize = {0, 2, 4}
  Inc <- MCInc
  FaultAt <- MCFaultAt
  CopyAt <- MCCopyAt
CHECK_DEADLOCK FALSE
INVARIANTS
  BuddyConsistent
  SlabsConsistent
  ObjectsInsideSlab
  
  
PROPERTIES
  ResizeAllOrNothing

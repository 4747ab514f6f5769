SPECIFICATION MCSpec
CONSTANTS
  RbMax = 7
  SpMax = 6
  EvBits = 2
  EvMapLen = 2
  EvKill = 2
  KVocabularies <- MCVocabularies
  KSymbols <- MCSymbols
  KType <- MCType
  KPrompt <- MCPrompt
  KDefault <- MCDefault
  KRev <- MCRev
  KMembers <- MCMembers
  KChosen = "X"
  KRange <- MCRange
  KEdits = 2
  KModes = {2}
CHECK_DEADLOCK FALSE
INVARIANTS
  RbSound
  SpSound
  MasksExact
  KExprSound
  KValuesRight
PROPERTIES
  KTouchComplete

SPECIFICATION FairSpec
CONSTANTS
  Caller = {c1}
  Requests = {0, 1, 3, 4}
  Region = 14
  HeaderSize = 2
  SmallLimit = 2
  FreeLimit = 16
  Frees = TRUE
  Interruptible = FALSE
  None = None
INVARIANTS TypeOK Tiles Coalesced MiddleInList CountCovers Owners
PROPERTIES ImplementsHeap Answered

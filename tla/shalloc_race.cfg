SPECIFICATION Spec
CONSTANTS
  Caller = {c1, c2}
  Requests = {1, 3}
  Region = 14
  HeaderSize = 2
  SmallLimit = 2
  FreeLimit = 16
  Frees = FALSE
  Interruptible = TRUE
  None = None
INVARIANT OwnedOnce

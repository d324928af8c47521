SPECIFICATION Spec
CONSTANTS
  MaxThreads = 3
  MaxPages = 3
  FrameTable = 12768
  UContext = 968
  Tcb = 72
  Node = 16
  PageMeta = 48
  ExitNode = 24
  Levels = 272
  ExitStack = 2080
  Stack = 40960
  Depth = 8192
  RegionSize = 149528
  Interruptible = FALSE
INVARIANTS  ExitStackOwn

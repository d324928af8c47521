SPECIFICATION Spec
CONSTANTS
  NumPriorities = 2
  MaintCycle = 1
  MaxThreads = 3
  Mutex = {m1}
  m1 = m1
  MaxMutexInits = 1
  Calls = {"create", "yield", "mutex", "destroyInUse", "join", "malloc", "mallocFailure", "mallocSwap"}
  MayJoin <- CrossedJoins
  MayExit = {}
  Preemptible = {"user", "malloc", "lockTest", "unlockWake"}
INVARIANTS
  OneQueueEach
  MutualExclusion
  NoForgottenWaiter
PROPERTIES
  DestroyedAtRest

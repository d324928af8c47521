SPECIFICATION Spec
CONSTANTS
  NumPriorities = 2
  MaintCycle = 2
  MaxThreads = 3
  Mutex = {m1, m2}
  m1 = m1
  m2 = m2
  MaxMutexInits = 2
  Calls = {"create", "mutex"}
  MayJoin <- NoJoins
  MayExit = {}
  Preemptible = {"user"}
INVARIANTS
  NoForgottenWaiter

SPECIFICATION FairSpec
CONSTANTS
  NumPriorities = 3
  MaintCycle = 2
  MaxThreads = 3
  Mutex = {}
  MaxMutexInits = 0
  Calls = {"create", "yield", "exit", "join"}
  MayJoin <- OneJoin
  MayExit = {1}
  Preemptible = {"user"}
PROPERTIES
  LowestEventuallyRuns
  HighestEventuallyRuns
  JoinEventuallyReturns

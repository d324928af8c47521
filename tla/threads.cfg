SPECIFICATION Spec
CONSTANTS
  NumPriorities = 3
  MaintCycle = 2
  MaxThreads = 4
  Mutex = {}
  MaxMutexInits = 0
  Calls = {"create", "yield", "exit", "join", "malloc"}
  MayJoin <- ChainOfJoins
  MayExit = {1, 2}
  Preemptible = {"user", "joinDone", "malloc"}
INVARIANTS
  TypeOK
  OneQueueEach
  RunnableInItsLevel
  RunningIsFront
  NoFault
  JoinSound
  NoForgottenJoiner
  ExitedStopsRunning
  UniqueTids
  

------------------------ MODULE MyPthread_safety_proofs ------------------------
(***************************************************************************)
(* Safety theorems about MyPthread for every number of threads, levels and *)
(* mutexes: thread ids are unique, a thread in the memory manager is not   *)
(* switched away from, and at most one thread holds a mutex.  Each assumes *)
(* that the client or the build stays away from the one or two race        *)
(* windows without which, as the runs show, the property fails.            *)
(***************************************************************************)
EXTENDS MyPthread_proofs

-----------------------------------------------------------------------------
(* The inductive invariants.                                               *)

\* The running thread is the current one, but for the moment between its exit and
\* the next dispatch.
CurrentRuns == current \in {cpu, NoNode}

\* A thread that my_pthread_create has queued but not counted is running, and the
\* handler is not: so there is at most one, and no other thread creates.
CreatorRuns == \A n \in Node : call[n].at = "createCount" => n = cpu /\ sig = "none"

\* The id of a thread is the number of its node.
NumberedIds == \A n \in Born : tcb[n].tid = n

\* Before the first my_pthread_create main runs.
MainStarts == proc = "init" => cpu = 0

IdInv == CurrentRuns /\ CreatorRuns /\ NumberedIds /\ MainStarts

\* A thread inside the memory manager is running, mem_flag is set, and the handler,
\* if it runs on top, has not got past the test of mem_flag.
MallocInv ==
  \A n \in Node : call[n].at = "malloc" => n = cpu /\ mem_flag /\ sig # "dispatch"

\* A thread that is about to take a mutex is running and has just seen it free.
TakerRuns ==
  \A n \in Node : call[n].at = "lockTake" =>
    n = cpu /\ sig = "none" /\ ~mutex[call[n].arg].locked

\* A lock call is under way only on a mutex that has not been destroyed.
LockersUse == \A n \in Node : call[n].op = "lock" => call[n].arg \in usable

\* Whoever holds a mutex is recorded in it.
HolderRecorded ==
  \A m \in Mutex : \A n \in holds[m] :
    n \in Born /\ m \in usable /\ mutex[m].locked /\ mutex[m].tid = n

LockInv == TakerRuns /\ LockersUse /\ HolderRecorded

-----------------------------------------------------------------------------
(* What a step leaves alone.                                               *)

\* Every step but the creation of a thread changes at most the call of the running
\* thread.
LEMMA OthersKeepCall ==
  ASSUME TypeInv, [Next]_vars, ~CreateFirst, ~Create
  PROVE  \A n \in Node \ {cpu} : call'[n] = call[n]
<1>1. call \in [Node -> CallRecord] /\ cpu \in Node
  BY DEF TypeInv, CallInv, QueueInv
<1>2. CASE \/ SchedulerBusy \/ SwitchNone \/ DispatchNone
  BY <1>1, <1>2 DEF SchedulerBusy, SwitchNone, DispatchNone, ReturnFromScheduler
<1>3. CASE \/ SwitchFirst \/ SwitchTimer \/ SwitchYield \/ SwitchExit \/ SwitchJoin
           \/ SwitchBlocked
  <2>1. ToDispatch
    BY <1>3 DEF SwitchFirst, SwitchTimer, SwitchYield, SwitchExit, SwitchJoin, SwitchBlocked
  <2> QED BY <1>1, <2>1 DEF ToDispatch, Goto
<1>4. CASE Dispatch
  <2>1. Goto("dead") \/ ReturnFromScheduler
    BY <1>4 DEF Dispatch
  <2> QED BY <1>1, <2>1 DEF Goto, ReturnFromScheduler
<1>5. CASE CreateCount \/ ExitRecord \/ JoinWait \/ LockBlock \/ LockTest
  <2>1. \E p \in Points : Goto(p)
    BY <1>5 DEF CreateCount, ExitRecord, JoinWait, LockBlock, LockTest, Points
  <2> QED BY <1>1, <2>1 DEF Goto
<1>6. CASE JoinReturn \/ LockTake \/ UnlockWake \/ MallocReturn \/ MallocGivesUp
  <2>1. ReturnToUser
    BY <1>6 DEF JoinReturn, LockTake, UnlockWake, MallocReturn, MallocGivesUp
  <2> QED BY <1>1, <2>1 DEF ReturnToUser
<1>7. CASE ExitWake
  BY <1>1, <1>7 DEF ExitWake
<1>8. CASE Yield \/ Exit \/ Join \/ Lock \/ Unlock \/ MallocEnter
  <2>1. \E o, p, a : Enter(o, p, a)
    BY <1>8 DEF Yield, Exit, Join, Lock, Unlock, MallocEnter
  <2> QED BY <1>1, <2>1 DEF Enter
<1>9. CASE \/ MallocSwaps \/ MallocMeta \/ MainReturns \/ MutexInit \/ MutexDestroy
           \/ TimerFires \/ Fault \/ Ended \/ UNCHANGED vars
  BY <1>9 DEF MallocSwaps, MallocMeta, MainReturns, MutexInit, MutexDestroy, TimerFires, Fault,
              Ended, vars
<1> QED BY <1>2, <1>3, <1>4, <1>5, <1>6, <1>7, <1>8, <1>9 DEF Next, Library, Client

\* Nor does any other step change the id of a thread or the number of nodes.
LEMMA TidsKept ==
  ASSUME TypeInv, [Next]_vars, ~CreateFirst, ~Create
  PROVE  Born' = Born /\ \A n \in Born : tcb'[n].tid = tcb[n].tid
<1>1. tcb \in [Node -> Block] /\ Born \subseteq Node
  BY BornFacts DEF TypeInv, DataInv, CountInv
<1>2. CASE \/ SchedulerBusy \/ SwitchNone \/ SwitchFirst \/ Dispatch \/ DispatchNone
           \/ CreateCount \/ ExitRecord \/ JoinReturn \/ LockTest \/ LockTake
           \/ MallocSwaps \/ MallocMeta \/ MallocReturn \/ MallocGivesUp
  BY <1>2 DEF SchedulerBusy, SwitchNone, SwitchFirst, Dispatch, DispatchNone, CreateCount,
              ExitRecord, JoinReturn, LockTest, LockTake, MallocSwaps, MallocMeta, MallocReturn,
              MallocGivesUp, births, Born
<1>3. CASE \/ Yield \/ Exit \/ Join \/ MainReturns \/ MutexInit \/ Lock \/ Unlock
           \/ MutexDestroy \/ MallocEnter \/ TimerFires \/ Fault \/ Ended \/ UNCHANGED vars
  BY <1>3 DEF Yield, Exit, Join, MainReturns, MutexInit, Lock, Unlock, MutexDestroy,
              MallocEnter, TimerFires, Fault, Ended, vars, births, Born
<1>4. CASE SwitchYield \/ SwitchExit \/ SwitchJoin \/ SwitchBlocked
  <2>1. Born' = Born /\ \E qs : Maintain(qs, tcb)
    BY <1>4 DEF SwitchYield, SwitchExit, SwitchJoin, SwitchBlocked, births, Born
  <2> QED BY <1>1, <2>1, PromotedType DEF Maintain
<1>5. CASE SwitchTimer
  <2>1. Born' = Born
    BY <1>5 DEF SwitchTimer, births, Born
  <2> DEFINE blocks == [tcb EXCEPT ![current].thread_priority = @ + 1]
  <2>2. \E qs : Maintain(qs, blocks) \/ Maintain(qs, tcb)
    BY <1>5 DEF SwitchTimer
  <2>3. ASSUME NEW qs, Maintain(qs, tcb) PROVE \A n \in Born : tcb'[n].tid = tcb[n].tid
    BY <1>1, <2>3, PromotedType DEF Maintain
  <2>4. ASSUME NEW qs, Maintain(qs, blocks) PROVE \A n \in Born : tcb'[n].tid = tcb[n].tid
    <3>1. \A n \in Node : blocks[n].tid = tcb[n].tid
      BY <1>1 DEF Block
    <3>2. \A n \in Node : tcb'[n].tid = blocks[n].tid
      BY <1>1, <2>4 DEF Maintain, Promoted
    <3> QED BY <1>1, <3>1, <3>2
  <2> QED BY <2>1, <2>2, <2>3, <2>4
<1>6. CASE ExitWake
  BY <1>1, <1>6 DEF ExitWake, births, Born, Block
<1>7. CASE JoinWait \/ LockBlock
  BY <1>1, <1>7 DEF JoinWait, LockBlock, births, Born, Block
<1>8. CASE UnlockWake
  BY <1>1, <1>8 DEF UnlockWake, births, Born, Block
<1> QED BY <1>2, <1>3, <1>4, <1>5, <1>6, <1>7, <1>8 DEF Next, Library, Client

\* No other step makes the running thread a creator, and one that is a creator is
\* not interrupted unless SIGALRM may strike there.
LEMMA CreatorStays ==
  ASSUME TypeInv, CreatorRuns, [Next]_vars, ~CreateFirst, ~Create,
         "createCount" \notin Preemptible, call'[cpu].at = "createCount"
  PROVE  call[cpu].at = "createCount" /\ cpu' = cpu /\ sig' = sig
<1>1. call \in [Node -> CallRecord] /\ cpu \in Node /\ CallOK(call[cpu])
  BY DEF TypeInv, CallInv, QueueInv
<1>2. call[cpu].at = "createCount" => sig = "none" /\ Point = "createCount"
  BY <1>1 DEF CreatorRuns, Point
<1>3. Resumed(call[cpu]).at # "createCount"
  BY <1>1, ResumedType
<1>4. CASE SchedulerBusy \/ SwitchNone \/ DispatchNone \/ Dispatch
  <2>1. ReturnFromScheduler \/ Goto("dead")
    BY <1>4 DEF SchedulerBusy, SwitchNone, DispatchNone, Dispatch
  <2>2. Point \in {"update", "dispatch"}
    BY <1>4 DEF SchedulerBusy, SwitchNone, DispatchNone, Dispatch, InSwitch
  <2>3. CASE ReturnFromScheduler
    BY <1>1, <1>2, <1>3, <2>2, <2>3 DEF ReturnFromScheduler
  <2>4. CASE Goto("dead")
    BY <1>1, <2>4 DEF Goto
  <2> QED BY <2>1, <2>3, <2>4
<1>5. CASE \/ SwitchFirst \/ SwitchTimer \/ SwitchYield \/ SwitchExit \/ SwitchJoin
           \/ SwitchBlocked
  <2>1. ToDispatch /\ Point = "update"
    BY <1>5 DEF SwitchFirst, SwitchTimer, SwitchYield, SwitchExit, SwitchJoin, SwitchBlocked,
                InSwitch
  <2>2. CASE sig = "none"
    <3>1. Goto("dispatch")
      BY <2>1, <2>2 DEF ToDispatch
    <3> QED BY <1>1, <3>1 DEF Goto
  <2>3. CASE sig # "none"
    BY <1>2, <2>1, <2>3 DEF ToDispatch
  <2> QED BY <2>2, <2>3
<1>6. CASE CreateCount \/ ExitRecord \/ JoinWait \/ LockBlock \/ LockTest
  <2>1. \E p \in Points \ {"createCount"} : Goto(p)
    BY <1>6 DEF CreateCount, ExitRecord, JoinWait, LockBlock, LockTest, Points
  <2> QED BY <1>1, <2>1 DEF Goto
<1>7. CASE JoinReturn \/ LockTake \/ UnlockWake \/ MallocReturn \/ MallocGivesUp
  <2>1. ReturnToUser
    BY <1>7 DEF JoinReturn, LockTake, UnlockWake, MallocReturn, MallocGivesUp
  <2> QED BY <1>1, <2>1 DEF ReturnToUser, Idle
<1>8. CASE ExitWake
  BY <1>1, <1>8 DEF ExitWake, At
<1>9. CASE Yield \/ Exit \/ Join \/ Lock \/ Unlock \/ MallocEnter
  <2>1. \E o, a : \E p \in Points \ {"createCount"} : Enter(o, p, a)
    BY <1>9 DEF Yield, Exit, Join, Lock, Unlock, MallocEnter, Points
  <2> QED BY <1>1, <2>1 DEF Enter
<1>10. CASE TimerFires
  BY <1>2, <1>10 DEF TimerFires
<1>11. CASE \/ MallocSwaps \/ MallocMeta \/ MainReturns \/ MutexInit \/ MutexDestroy
            \/ Fault \/ Ended \/ UNCHANGED vars
  BY <1>11 DEF MallocSwaps, MallocMeta, MainReturns, MutexInit, MutexDestroy, Fault, Ended, vars
<1> QED BY <1>4, <1>5, <1>6, <1>7, <1>8, <1>9, <1>10, <1>11 DEF Next, Library, Client

\* The current context and the processor change together, but for an exit.
LEMMA CurrentStep ==
  ASSUME CurrentRuns, [Next]_vars
  PROVE  CurrentRuns'
<1>1. CASE \/ SchedulerBusy \/ SwitchNone \/ SwitchFirst \/ SwitchTimer \/ SwitchYield
           \/ SwitchJoin \/ SwitchBlocked \/ DispatchNone \/ CreateCount \/ ExitWake
           \/ ExitRecord \/ JoinWait \/ JoinReturn \/ LockTest \/ LockBlock \/ LockTake
           \/ UnlockWake \/ MallocSwaps \/ MallocMeta \/ MallocReturn \/ MallocGivesUp
  BY <1>1 DEF SchedulerBusy, SwitchNone, SwitchFirst, SwitchTimer, SwitchYield, SwitchJoin,
              SwitchBlocked, DispatchNone, CreateCount, ExitWake, ExitRecord, JoinWait,
              JoinReturn, LockTest, LockBlock, LockTake, UnlockWake, MallocSwaps, MallocMeta,
              MallocReturn, MallocGivesUp, CurrentRuns
<1>2. CASE SwitchExit \/ Dispatch \/ CreateFirst
  BY <1>2 DEF SwitchExit, Dispatch, CreateFirst, CurrentRuns
<1>3. CASE \/ Create \/ Yield \/ Exit \/ Join \/ MainReturns \/ MutexInit \/ Lock \/ Unlock
           \/ MutexDestroy \/ MallocEnter \/ TimerFires \/ Fault \/ Ended \/ UNCHANGED vars
  BY <1>3 DEF Create, Yield, Exit, Join, MainReturns, MutexInit, Lock, Unlock, MutexDestroy,
              MallocEnter, TimerFires, Fault, Ended, vars, CurrentRuns
<1> QED BY <1>1, <1>2, <1>3 DEF Next, Library, Client

\* The first my_pthread_create finds main running; no step goes back before it.
LEMMA MainStep ==
  ASSUME MainStarts, [Next]_vars
  PROVE  MainStarts'
<1>1. CASE Library
  BY <1>1 DEF Library, SchedulerBusy, SwitchNone, SwitchFirst, SwitchTimer, SwitchYield,
              SwitchExit, SwitchJoin, SwitchBlocked, InSwitch, Dispatch, DispatchNone,
              CreateCount, ExitWake, ExitRecord, JoinWait, JoinReturn, LockTest, LockBlock,
              LockTake, UnlockWake, MallocSwaps, MallocMeta, MallocReturn, MallocGivesUp, At,
              MainStarts
<1>2. CASE Client
  BY <1>2 DEF Client, CreateFirst, Create, Yield, Exit, Join, MainReturns, MutexInit, Lock,
              Unlock, MutexDestroy, MallocEnter, InUser, At, MainStarts
<1>3. CASE TimerFires \/ Fault \/ Ended \/ UNCHANGED vars
  BY <1>3 DEF TimerFires, Fault, Ended, vars, MainStarts
<1> QED BY <1>1, <1>2, <1>3 DEF Next

\* The first creation makes threads 0 and 1.
LEMMA CreateFirstIds ==
  ASSUME TypeInv, IdInv, CreateFirst
  PROVE  CreatorRuns' /\ NumberedIds'
<1>1. 0 \in Node /\ 1 \in Node /\ Creators = {}
  BY PthreadAssumption DEF PthreadAssumption, Node, CreateFirst, TypeInv, CountInv
<1>2. \A n \in Node : call'[n] = IF n \in {0, 1} THEN Idle ELSE call[n]
  BY <1>1 DEF CreateFirst, TypeInv, CallInv
<1>3. CreatorRuns'
  BY <1>1, <1>2 DEF CreatorRuns, Creators, Idle
<1>4. Born' = {0, 1}
  BY DEF CreateFirst, Born
<1>5. tcb'[0] = NewBlock(0) /\ tcb'[1] = NewBlock(1)
  BY <1>1 DEF CreateFirst, TypeInv, DataInv
<1>6. NumberedIds'
  BY <1>4, <1>5 DEF NumberedIds, NewBlock
<1> QED BY <1>3, <1>6

\* A later one numbers the thread as its node, because nobody else is a creator.
LEMMA CreateIds ==
  ASSUME TypeInv, IdInv, Create
  PROVE  CreatorRuns' /\ NumberedIds'
<1>1. /\ At("user") /\ proc = "run" /\ sig = "none" /\ cpu \in Born /\ cpu \in Node
      /\ call[cpu].at = "user"
  BY AtType DEF Create, InUser
<1>2. Creators = {}
  BY <1>1 DEF Creators, IdInv, CreatorRuns
<1>3. threadCount = nodeCount /\ nodeCount \in Node /\ nodeCount \notin Born
  <2>1. threadCount + Cardinality({}) = nodeCount
    BY <1>1, <1>2 DEF TypeInv, CountInv
  <2>2. threadCount = nodeCount
    BY <2>1, FS_EmptySet DEF TypeInv, CountInv
  <2>3. nodeCount \in Nat /\ nodeCount < MaxThreads
    BY DEF Create, TypeInv, CountInv
  <2> QED BY <2>2, <2>3, PthreadAssumption DEF PthreadAssumption, Node, Born
<1>4. \A n \in Node \ {cpu} : call'[n].at = "createCount" => call[n].at = "createCount"
  BY <1>1, <1>3 DEF Create, TypeInv, CallInv, Idle
<1>5. CreatorRuns'
  BY <1>1, <1>2, <1>4 DEF Create, CreatorRuns, Creators
<1>6. Born' = Born \cup {nodeCount}
  BY <1>3 DEF Create, Born, TypeInv, CountInv
<1>7. \A n \in Node : tcb'[n] = IF n = nodeCount THEN NewBlock(nodeCount) ELSE tcb[n]
  BY <1>3 DEF Create, TypeInv, DataInv
<1>8. NumberedIds'
  <2>1. Born \subseteq Node /\ \A n \in Born : tcb[n].tid = n
    BY BornFacts DEF TypeInv, CountInv, IdInv, NumberedIds
  <2>2. \A n \in Born' : tcb'[n].tid = n
    BY <1>3, <1>6, <1>7, <2>1 DEF NewBlock
  <2> QED BY <2>2 DEF NumberedIds
<1> QED BY <1>5, <1>8

LEMMA IdStep ==
  ASSUME "createCount" \notin Preemptible, TypeInv, IdInv, [Next]_vars
  PROVE  IdInv'
<1>1. CurrentRuns' /\ MainStarts'
  BY CurrentStep, MainStep DEF IdInv
<1>2. CASE CreateFirst
  BY <1>1, <1>2, CreateFirstIds DEF IdInv
<1>3. CASE Create
  BY <1>1, <1>3, CreateIds DEF IdInv
<1>4. CASE ~CreateFirst /\ ~Create
  <2>1. CreatorRuns'
    BY <1>4, OthersKeepCall, CreatorStays DEF IdInv, CreatorRuns
  <2>2. NumberedIds'
    BY <1>4, TidsKept DEF IdInv, NumberedIds
  <2> QED BY <1>1, <2>1, <2>2 DEF IdInv
<1> QED BY <1>2, <1>3, <1>4

LEMMA IdInit == Init => IdInv
BY DEF Init, IdInv, CurrentRuns, CreatorRuns, NumberedIds, MainStarts, Idle, Born

\* The inductive invariants of the two modules, as facts about every run.
LEMMA TypesAlways == Spec => []TypeInv
BY TypeInit, TypeStep, PTL DEF Spec

LEMMA IdsAlways == ASSUME "createCount" \notin Preemptible PROVE Spec => []IdInv
<1>1. TypeInv /\ IdInv /\ [Next]_vars => IdInv'
  BY IdStep
<1> QED BY <1>1, IdInit, TypesAlways, PTL DEF Spec

\* If SIGALRM cannot strike my_pthread_create between the enqueuee of the new node
\* and threadCount++, all threads have different ids, whatever else it interrupts.
THEOREM UniqueTidsHolds ==
  ASSUME "createCount" \notin Preemptible
  PROVE  Spec => []UniqueTids
<1>1. IdInv => UniqueTids
  BY DEF IdInv, NumberedIds, UniqueTids, Born
<1> QED BY <1>1, IdsAlways, PTL

-----------------------------------------------------------------------------
(* The memory manager is not interrupted.                                  *)

\* The facts of TypeInv about the call of the running thread.
LEMMA CallFacts ==
  ASSUME TypeInv
  PROVE  /\ call \in [Node -> CallRecord] /\ cpu \in Node /\ CallOK(call[cpu])
         /\ call[cpu] \in CallRecord /\ mem_flag \in BOOLEAN
BY DEF TypeInv, CallInv, QueueInv, DataInv

\* A thread is in the memory manager after a step because it was, or because it
\* entered; no step of it clears mem_flag, and no switch happens.
LEMMA MallocStays ==
  ASSUME TypeInv, MallocInv, [Next]_vars, ~CreateFirst, ~Create,
         "mallocSwap" \notin Calls, call'[cpu].at = "malloc"
  PROVE  cpu' = cpu /\ mem_flag' /\ sig' # "dispatch"
<1> DEFINE Inside == mem_flag /\ sig # "dispatch"
<1>1. call[cpu].at = "malloc" => Inside
  BY CallFacts DEF MallocInv
<1>2. CASE SchedulerBusy \/ DispatchNone \/ SwitchNone \/ Dispatch
  <2>1. ReturnFromScheduler \/ Goto("dead")
    BY <1>2 DEF SchedulerBusy, SwitchNone, DispatchNone, Dispatch
  <2>2. Goto("dead") => call'[cpu].at = "dead"
    BY CallFacts DEF Goto
  <2>3. Resumed(call[cpu]).at # "malloc"
    BY CallFacts, ResumedType
  <2>4. sig = "none" => call'[cpu] = Resumed(call[cpu])
    BY <2>1, <2>2, CallFacts DEF ReturnFromScheduler
  <2>5. sig # "none" /\ sig' = "none" /\ call'[cpu] = call[cpu]
    BY <2>1, <2>2, <2>3, <2>4 DEF ReturnFromScheduler
  <2>6. mem_flag /\ Point = "update"
    <3>1. call[cpu].at = "malloc"
      BY <2>5
    <3>2. mem_flag /\ sig # "dispatch"
      BY <1>1, <3>1, Zenon
    <3>3. Point = "update"
      BY <2>5, <3>2 DEF Point, TypeInv, DataInv
    <3> QED BY <3>2, <3>3, Zenon
  <2>7. SchedulerBusy
    BY <1>2, <2>6, <1>1, <2>5 DEF SwitchNone, InSwitch, DispatchNone, Dispatch, Point
  <2> QED BY <2>5, <2>6, <2>7, Zenon DEF SchedulerBusy
<1>3. CASE \/ SwitchFirst \/ SwitchTimer \/ SwitchYield \/ SwitchExit \/ SwitchJoin
           \/ SwitchBlocked
  <2>1. ToDispatch /\ ~mem_flag
    BY <1>3 DEF SwitchFirst, SwitchTimer, SwitchYield, SwitchExit, SwitchJoin, SwitchBlocked,
                InSwitch
  <2>2. Goto("dispatch") => call'[cpu].at = "dispatch"
    BY CallFacts DEF Goto
  <2> QED BY <1>1, <2>1, <2>2 DEF ToDispatch
<1>4. CASE CreateCount \/ ExitRecord \/ JoinWait \/ LockBlock \/ LockTest
  <2>1. \E q \in Points \ {"malloc"} : Goto(q)
    BY <1>4 DEF CreateCount, ExitRecord, JoinWait, LockBlock, LockTest, Points
  <2> QED BY <2>1, CallFacts DEF Goto
<1>5. CASE JoinReturn \/ LockTake \/ UnlockWake \/ MallocReturn \/ MallocGivesUp
  <2>1. ReturnToUser
    BY <1>5 DEF JoinReturn, LockTake, UnlockWake, MallocReturn, MallocGivesUp
  <2> QED BY <2>1, CallFacts DEF ReturnToUser, Idle
<1>6. CASE ExitWake
  BY <1>6, CallFacts DEF ExitWake, At
<1>7. CASE Yield \/ Exit \/ Join \/ Lock \/ Unlock
  <2>1. \E o, a : \E q \in Points \ {"malloc"} : Enter(o, q, a)
    BY <1>7 DEF Yield, Exit, Join, Lock, Unlock, Points
  <2> QED BY <2>1, CallFacts DEF Enter
<1>8. CASE MallocEnter
  BY <1>8, Zenon DEF MallocEnter, InUser, At
<1>9. CASE TimerFires
  <2>1. call' = call /\ cpu' = cpu /\ mem_flag' = mem_flag /\ sig' = "update"
    BY <1>9 DEF TimerFires
  <2> QED BY <1>1, <2>1
<1>10. CASE \/ MainReturns \/ MutexInit \/ MutexDestroy \/ Fault \/ Ended \/ UNCHANGED vars
  <2>1. call' = call /\ cpu' = cpu /\ mem_flag' = mem_flag /\ sig' = sig
    BY <1>10 DEF MainReturns, MutexInit, MutexDestroy, Fault, Ended, vars
  <2> QED BY <1>1, <2>1
<1>11. CASE MallocSwaps \/ MallocMeta
  BY <1>11 DEF MallocSwaps, MallocMeta
<1> QED BY <1>2, <1>3, <1>4, <1>5, <1>6, <1>7, <1>8, <1>9, <1>10, <1>11 DEF Next, Library, Client

LEMMA MallocStep ==
  ASSUME "mallocSwap" \notin Calls, TypeInv, MainStarts, MallocInv, [Next]_vars
  PROVE  MallocInv'
<1>1. CASE CreateFirst
  <2>1. 0 \in Node /\ 1 \in Node /\ cpu = 0
    BY <1>1, PthreadAssumption DEF PthreadAssumption, Node, CreateFirst, MainStarts
  <2>2. \A n \in Node : call'[n] = IF n \in {0, 1} THEN Idle ELSE call[n]
    BY <1>1, <2>1, CallFacts DEF CreateFirst
  <2>3. \A n \in Node : call'[n].at # "malloc"
    BY <2>1, <2>2 DEF MallocInv, Idle
  <2> QED BY <2>3 DEF MallocInv
<1>2. CASE Create
  <2>1. call[cpu].at = "user"
    BY <1>2 DEF Create, InUser, At
  <2>2. \A n \in Node : call'[n].at = "malloc" => call[n].at = "malloc" /\ n # cpu
    <3>1. call' = [call EXCEPT ![cpu] = [at |-> "createCount", op |-> "create",
                                         arg |-> nodeCount, i |-> 0],
                               ![nodeCount] = Idle]
      BY <1>2 DEF Create
    <3> QED BY <3>1, CallFacts DEF Idle
  <2> QED BY <2>1, <2>2 DEF MallocInv
<1>3. CASE ~CreateFirst /\ ~Create
  <2>1. ASSUME NEW n \in Node, call'[n].at = "malloc"
        PROVE  n = cpu' /\ mem_flag' /\ sig' # "dispatch"
    <3>1. n = cpu
      BY <1>3, <2>1, OthersKeepCall DEF MallocInv
    <3> QED BY <1>3, <2>1, <3>1, MallocStays
  <2> QED BY <2>1 DEF MallocInv
<1> QED BY <1>1, <1>2, <1>3

\* If no page has to be swapped while myallocate or mydeallocate works, SIGALRM does
\* not take the processor from a thread that is inside, whenever it arrives: the heap
\* and its bookkeeping are met by one thread at a time.
THEOREM NoSwitchInMallocHolds ==
  ASSUME "mallocSwap" \notin Calls
  PROVE  Spec => []NoSwitchInMalloc
<1>1. Init => MainStarts /\ MallocInv
  BY DEF Init, MainStarts, MallocInv, Idle
<1>2. TypeInv /\ MainStarts /\ MallocInv /\ [Next]_vars => MainStarts' /\ MallocInv'
  BY MallocStep, MainStep
<1>3. MallocInv => NoSwitchInMalloc
  BY DEF MallocInv, NoSwitchInMalloc
<1> QED BY <1>1, <1>2, <1>3, TypesAlways, PTL DEF Spec

-----------------------------------------------------------------------------
(* Mutual exclusion.                                                       *)

\* The running thread is at the assignment of my_pthread_mutex_lock after a step only
\* if it was there, or has just tested a free mutex.
LEMMA TakerStays ==
  ASSUME TypeInv, TakerRuns, [Next]_vars, ~CreateFirst, ~Create,
         "lockTake" \notin Preemptible, call'[cpu].at = "lockTake"
  PROVE  cpu' = cpu /\ sig' = "none" /\ ~mutex'[call'[cpu].arg].locked
<1>1. call[cpu].at = "lockTake" =>
        sig = "none" /\ Point = "lockTake" /\ ~mutex[call[cpu].arg].locked
  BY CallFacts DEF TakerRuns, Point
<1>2. CASE SchedulerBusy \/ DispatchNone \/ SwitchNone \/ Dispatch
  <2>1. ReturnFromScheduler \/ Goto("dead")
    BY <1>2 DEF SchedulerBusy, SwitchNone, DispatchNone, Dispatch
  <2>2. Point \in {"update", "dispatch"}
    BY <1>2 DEF SchedulerBusy, SwitchNone, DispatchNone, Dispatch, InSwitch
  <2>3. Goto("dead") => call'[cpu].at = "dead"
    BY CallFacts DEF Goto
  <2>4. Resumed(call[cpu]).at # "lockTake"
    BY CallFacts, ResumedType
  <2>5. sig = "none" => call'[cpu] = Resumed(call[cpu])
    BY <2>1, <2>3, CallFacts DEF ReturnFromScheduler
  <2> QED BY <1>1, <2>1, <2>2, <2>3, <2>4, <2>5 DEF ReturnFromScheduler
<1>3. CASE \/ SwitchFirst \/ SwitchTimer \/ SwitchYield \/ SwitchExit \/ SwitchJoin
           \/ SwitchBlocked
  <2>1. ToDispatch /\ Point = "update"
    BY <1>3 DEF SwitchFirst, SwitchTimer, SwitchYield, SwitchExit, SwitchJoin, SwitchBlocked,
                InSwitch
  <2>2. Goto("dispatch") => call'[cpu].at = "dispatch"
    BY CallFacts DEF Goto
  <2> QED BY <1>1, <2>1, <2>2 DEF ToDispatch
<1>4. CASE CreateCount \/ ExitRecord \/ JoinWait \/ LockBlock
  <2>1. Goto("update")
    BY <1>4 DEF CreateCount, ExitRecord, JoinWait, LockBlock
  <2> QED BY <2>1, CallFacts DEF Goto
<1>5. CASE LockTest
  <2>1. cpu' = cpu /\ sig' = "none" /\ mutex' = mutex
    BY <1>5 DEF LockTest, At, mutexes
  <2>2. ~mutex[call[cpu].arg].locked /\ Goto("lockTake")
    <3>1. Goto("lockBlock") => call'[cpu].at = "lockBlock"
      BY CallFacts DEF Goto
    <3> QED BY <1>5, <3>1 DEF LockTest
  <2>3. call'[cpu].arg = call[cpu].arg
    BY <2>2, CallFacts DEF Goto, CallRecord
  <2> QED BY <2>1, <2>2, <2>3
<1>6. CASE JoinReturn \/ LockTake \/ UnlockWake \/ MallocReturn \/ MallocGivesUp
  <2>1. ReturnToUser
    BY <1>6 DEF JoinReturn, LockTake, UnlockWake, MallocReturn, MallocGivesUp
  <2> QED BY <2>1, CallFacts DEF ReturnToUser, Idle
<1>7. CASE ExitWake
  BY <1>7, CallFacts DEF ExitWake, At
<1>8. CASE Yield \/ Exit \/ Join \/ Lock \/ Unlock \/ MallocEnter
  <2>1. \E o, a : \E q \in Points \ {"lockTake"} : Enter(o, q, a)
    BY <1>8 DEF Yield, Exit, Join, Lock, Unlock, MallocEnter, Points
  <2> QED BY <2>1, CallFacts DEF Enter
<1>9. CASE TimerFires
  BY <1>1, <1>9 DEF TimerFires
<1>10. CASE \/ MallocSwaps \/ MallocMeta \/ MainReturns \/ MutexInit \/ MutexDestroy
  BY <1>10 DEF MallocSwaps, MallocMeta, MainReturns, MutexInit, MutexDestroy, InUser, At
<1>11. CASE Fault \/ Ended \/ UNCHANGED vars
  <2>1. call' = call /\ cpu' = cpu /\ mutex' = mutex /\ sig' = sig
    BY <1>11 DEF Fault, Ended, vars, mutexes
  <2> QED BY <1>1, <2>1
<1> QED BY <1>2, <1>3, <1>4, <1>5, <1>6, <1>7, <1>8, <1>9, <1>10, <1>11 DEF Next, Library, Client

\* The running thread is inside a lock call after a step only if it has just entered
\* it, or was inside it before.
LEMMA LockerStays ==
  ASSUME TypeInv, [Next]_vars, ~CreateFirst, ~Create, call'[cpu].op = "lock"
  PROVE  \/ Lock
         \/ call[cpu].op = "lock" /\ call'[cpu].arg = call[cpu].arg
<1>1. CASE SchedulerBusy \/ DispatchNone \/ SwitchNone \/ Dispatch
  <2>1. ReturnFromScheduler \/ Goto("dead")
    BY <1>1 DEF SchedulerBusy, SwitchNone, DispatchNone, Dispatch
  <2>2. CASE Goto("dead")
    BY <2>2, CallFacts DEF Goto, CallRecord
  <2>3. CASE ReturnFromScheduler
    <3>1. call'[cpu] \in {call[cpu], Resumed(call[cpu])}
      BY <2>3, CallFacts DEF ReturnFromScheduler
    <3>2. Resumed(call[cpu]).op = "lock" =>
            call[cpu].op = "lock" /\ Resumed(call[cpu]).arg = call[cpu].arg
      BY CallFacts DEF Resumed, Idle, CallRecord
    <3> QED BY <3>1, <3>2
  <2> QED BY <2>1, <2>2, <2>3
<1>2. CASE \/ SwitchFirst \/ SwitchTimer \/ SwitchYield \/ SwitchExit \/ SwitchJoin
           \/ SwitchBlocked
  <2>1. ToDispatch
    BY <1>2 DEF SwitchFirst, SwitchTimer, SwitchYield, SwitchExit, SwitchJoin, SwitchBlocked
  <2> QED BY <2>1, CallFacts DEF ToDispatch, Goto, CallRecord
<1>3. CASE CreateCount \/ ExitRecord \/ JoinWait \/ LockBlock \/ LockTest
  <2>1. \E q \in Points : Goto(q)
    BY <1>3 DEF CreateCount, ExitRecord, JoinWait, LockBlock, LockTest, Points
  <2> QED BY <2>1, CallFacts DEF Goto, CallRecord
<1>4. CASE JoinReturn \/ LockTake \/ UnlockWake \/ MallocReturn \/ MallocGivesUp
  <2>1. ReturnToUser
    BY <1>4 DEF JoinReturn, LockTake, UnlockWake, MallocReturn, MallocGivesUp
  <2> QED BY <2>1, CallFacts DEF ReturnToUser, Idle
<1>5. CASE ExitWake
  BY <1>5, CallFacts DEF ExitWake, CallRecord
<1>6. CASE Yield \/ Exit \/ Join \/ Unlock \/ MallocEnter
  <2>1. \E q, a : \E o \in Ops \ {"lock"} : Enter(o, q, a)
    BY <1>6 DEF Yield, Exit, Join, Unlock, MallocEnter, Ops
  <2> QED BY <2>1, CallFacts DEF Enter
<1>7. CASE \/ MallocSwaps \/ MallocMeta \/ MainReturns \/ MutexInit \/ MutexDestroy
           \/ TimerFires \/ Fault \/ Ended \/ UNCHANGED vars
  BY <1>7 DEF MallocSwaps, MallocMeta, MainReturns, MutexInit, MutexDestroy, TimerFires, Fault,
              Ended, vars
<1> QED BY <1>1, <1>2, <1>3, <1>4, <1>5, <1>6, <1>7 DEF Next, Library, Client

\* The steps that are neither calls of a mutex function nor the steps inside one.
LEMMA MutexesKept ==
  ASSUME [Next]_vars, ~MutexInit, ~LockTake, ~Unlock, ~UnlockWake, ~MutexDestroy
  PROVE  UNCHANGED <<mutex, holds, usable>>
<1>1. CASE \/ SchedulerBusy \/ SwitchNone \/ SwitchFirst \/ SwitchTimer \/ SwitchYield
           \/ SwitchExit \/ SwitchJoin \/ SwitchBlocked \/ Dispatch \/ DispatchNone
           \/ CreateCount \/ ExitWake \/ ExitRecord \/ JoinWait \/ JoinReturn \/ LockTest
           \/ LockBlock \/ MallocSwaps \/ MallocMeta \/ MallocReturn \/ MallocGivesUp
  BY <1>1 DEF SchedulerBusy, SwitchNone, SwitchFirst, SwitchTimer, SwitchYield, SwitchExit,
              SwitchJoin, SwitchBlocked, Dispatch, DispatchNone, CreateCount, ExitWake,
              ExitRecord, JoinWait, JoinReturn, LockTest, LockBlock, MallocSwaps, MallocMeta,
              MallocReturn, MallocGivesUp, mutexes
<1>2. CASE \/ CreateFirst \/ Create \/ Yield \/ Exit \/ Join \/ MainReturns \/ Lock
           \/ MallocEnter \/ TimerFires \/ Fault \/ Ended \/ UNCHANGED vars
  BY <1>2 DEF CreateFirst, Create, Yield, Exit, Join, MainReturns, Lock, MallocEnter,
              TimerFires, Fault, Ended, vars, mutexes
<1> QED BY <1>1, <1>2 DEF Next, Library, Client

\* No mutex is destroyed under a lock call if the client takes care.
LEMMA LockersStep ==
  ASSUME TypeInv, LockersUse, [Next]_vars, ~CreateFirst, ~Create,
         "destroyInUse" \notin Calls
  PROVE  LockersUse'
<1> SUFFICES ASSUME NEW n \in Node, call'[n].op = "lock"
             PROVE  call'[n].arg \in usable'
  BY DEF LockersUse
<1>1. CASE Lock /\ n = cpu
  <2>1. PICK m \in usable : Enter("lock", "lockTest", m)
    BY <1>1 DEF Lock
  <2> QED BY <1>1, <2>1, CallFacts DEF Lock, Enter, mutexes
<1>2. CASE ~(Lock /\ n = cpu)
  <2>1. call[n].op = "lock" /\ call'[n].arg = call[n].arg
    BY <1>2, OthersKeepCall, LockerStays
  <2>2. call[n].arg \in usable
    BY <2>1 DEF LockersUse
  <2>3. CASE MutexDestroy
    <3>1. PICK m \in usable : ~InUse(m) /\ usable' = usable \ {m}
      BY <2>3 DEF MutexDestroy
    <3> QED BY <2>1, <2>2, <3>1 DEF InUse
  <2>4. CASE ~MutexDestroy
    <3>1. usable \subseteq usable'
      <4>1. CASE MutexInit \/ LockTake \/ Unlock \/ UnlockWake
        BY <4>1 DEF MutexInit, LockTake, Unlock, UnlockWake
      <4>2. CASE ~(MutexInit \/ LockTake \/ Unlock \/ UnlockWake)
        BY <2>4, <4>2, MutexesKept
      <4> QED BY <4>1, <4>2
    <3> QED BY <2>1, <2>2, <3>1
  <2> QED BY <2>3, <2>4
<1> QED BY <1>1, <1>2

\* A mutex always knows its holder.
LEMMA HolderStep ==
  ASSUME TypeInv, IdInv, LockInv, [Next]_vars
  PROVE  HolderRecorded'
<1>1. /\ mutex \in [Mutex -> MutexState] /\ holds \in [Mutex -> SUBSET Node]
      /\ usable \subseteq Mutex
  BY DEF TypeInv, DataInv
<1>2. CASE MutexInit
  <2>1. PICK m \in Mutex \ usable :
          /\ mutex' = [mutex EXCEPT ![m] = [mid |-> mutex_count, locked |-> FALSE,
                                            tid |-> -1, ready_waiting |-> FALSE]]
          /\ usable' = usable \cup {m}
    BY <1>2 DEF MutexInit
  <2>2. holds' = holds /\ Born' = Born /\ holds[m] = {}
    BY <1>1, <1>2, <2>1 DEF MutexInit, births, Born, LockInv, HolderRecorded
  <2> QED BY <1>1, <2>1, <2>2 DEF LockInv, HolderRecorded
<1>3. CASE LockTake
  <2> DEFINE m == call[cpu].arg
  <2>1. /\ call[cpu].at = "lockTake" /\ call[cpu].op = "lock" /\ m \in Mutex
        /\ current \in Node /\ cpu \in Node /\ cpu \in Born
    BY <1>3, AtType DEF LockTake, CallOK
  <2>2. m \in usable /\ ~mutex[m].locked
    BY <2>1 DEF LockInv, TakerRuns, LockersUse
  <2>3. current = cpu /\ tcb[current].tid = cpu
    BY <1>3, <2>1 DEF LockTake, IdInv, CurrentRuns, NumberedIds
  <2>4. holds[m] = {}
    BY <1>1, <2>1, <2>2 DEF LockInv, HolderRecorded
  <2>5. /\ mutex' = [mutex EXCEPT ![m].locked = TRUE, ![m].tid = tcb[current].tid,
                                  ![m].ready_waiting = FALSE]
        /\ holds' = [holds EXCEPT ![m] = @ \cup {cpu}]
        /\ usable' = usable /\ Born' = Born
    BY <1>3 DEF LockTake, births, Born
  <2> HIDE DEF m
  <2>6. mutex'[m].locked /\ mutex'[m].tid = cpu /\ holds'[m] = {cpu}
    <3>1. mutex[m] \in MutexState
      BY <1>1, <2>1
    <3> QED BY <1>1, <2>1, <2>3, <2>4, <2>5, <3>1 DEF MutexState
  <2>7. \A k \in Mutex \ {m} : mutex'[k] = mutex[k] /\ holds'[k] = holds[k]
    BY <1>1, <2>1, <2>5
  <2>8. ASSUME NEW k \in Mutex, NEW n \in holds'[k]
        PROVE  n \in Born' /\ k \in usable' /\ mutex'[k].locked /\ mutex'[k].tid = n
    <3>1. CASE k = m
      <4>1. n = cpu /\ mutex'[k].locked /\ mutex'[k].tid = n
        BY <2>6, <2>8, <3>1, Zenon
      <4>2. n \in Born' /\ k \in usable'
        BY <2>1, <2>2, <2>5, <3>1, <4>1
      <4> QED BY <4>1, <4>2, Zenon
    <3>2. CASE k # m
      <4>1. mutex'[k] = mutex[k] /\ holds'[k] = holds[k]
        BY <2>7, <3>2
      <4>2. n \in Born /\ k \in usable /\ mutex[k].locked /\ mutex[k].tid = n
        BY <2>8, <4>1, Zenon DEF LockInv, HolderRecorded
      <4> QED BY <2>5, <4>1, <4>2, Zenon
    <3> QED BY <3>1, <3>2
  <2> QED BY <2>8 DEF HolderRecorded
<1>4. CASE Unlock
  <2>1. PICK m \in usable :
          /\ mutex[m].locked /\ mutex[m].tid = tcb[current].tid
          /\ mutex' = [mutex EXCEPT ![m].locked = FALSE, ![m].tid = -1]
          /\ holds' = [holds EXCEPT ![m] = @ \ {cpu}]
    BY <1>4 DEF Unlock
  <2>2. current \in Born /\ current = cpu /\ usable' = usable /\ Born' = Born
    BY <1>4, AtType DEF Unlock, InUser, births, Born, IdInv, CurrentRuns
  <2>3. tcb[current].tid = cpu
    BY <2>2 DEF IdInv, NumberedIds
  <2>4. holds'[m] = {}
    BY <1>1, <2>1, <2>3 DEF LockInv, HolderRecorded
  <2>5. \A k \in Mutex \ {m} : mutex'[k] = mutex[k] /\ holds'[k] = holds[k]
    BY <1>1, <2>1
  <2> QED BY <2>2, <2>4, <2>5 DEF LockInv, HolderRecorded
<1>5. CASE UnlockWake
  <2>1. holds' = holds /\ usable' = usable /\ Born' = Born
    BY <1>5 DEF UnlockWake, births, Born
  <2>2. mutex' = mutex \/ mutex' = [mutex EXCEPT ![call[cpu].arg].ready_waiting = TRUE]
    BY <1>5 DEF UnlockWake
  <2>3. \A k \in Mutex : mutex'[k].locked = mutex[k].locked /\ mutex'[k].tid = mutex[k].tid
    BY <1>1, <2>2 DEF MutexState
  <2> QED BY <2>1, <2>3 DEF LockInv, HolderRecorded
<1>6. CASE MutexDestroy
  <2>1. PICK m \in usable : DestroyAllowed(m) /\ usable' = usable \ {m}
    BY <1>6 DEF MutexDestroy
  <2>2. holds' = holds /\ mutex' = mutex /\ Born' = Born
    BY <1>6 DEF MutexDestroy, births, Born
  <2>3. holds[m] = {}
    BY <1>1, <2>1 DEF DestroyAllowed, LockInv, HolderRecorded
  <2> QED BY <2>1, <2>2, <2>3 DEF LockInv, HolderRecorded
<1>7. CASE ~MutexInit /\ ~LockTake /\ ~Unlock /\ ~UnlockWake /\ ~MutexDestroy
  <2>1. mutex' = mutex /\ holds' = holds /\ usable' = usable
    BY <1>7, MutexesKept
  <2>2. Born \subseteq Born'
    <3>1. CASE Create
      BY <3>1 DEF Create, Born, TypeInv, CountInv
    <3>2. CASE CreateFirst
      BY <3>2 DEF CreateFirst, Born, TypeInv, CountInv
    <3>3. CASE ~CreateFirst /\ ~Create
      BY <3>3, TidsKept
    <3> QED BY <3>1, <3>2, <3>3
  <2> QED BY <2>1, <2>2 DEF LockInv, HolderRecorded
<1> QED BY <1>2, <1>3, <1>4, <1>5, <1>6, <1>7

LEMMA LockStep ==
  ASSUME "lockTake" \notin Preemptible, "destroyInUse" \notin Calls,
         TypeInv, IdInv, LockInv, [Next]_vars
  PROVE  LockInv'
<1>1. HolderRecorded'
  BY HolderStep
<1>2. CASE CreateFirst
  <2>1. 0 \in Node /\ 1 \in Node /\ cpu = 0
    BY <1>2, PthreadAssumption DEF PthreadAssumption, Node, CreateFirst, IdInv, MainStarts
  <2>2. \A n \in Node : call'[n] = IF n \in {0, 1} THEN Idle ELSE call[n]
    BY <1>2, <2>1, CallFacts DEF CreateFirst
  <2>3. TakerRuns'
    BY <2>1, <2>2 DEF LockInv, TakerRuns, Idle
  <2>4. usable' = usable
    BY <1>2 DEF CreateFirst, mutexes
  <2>5. LockersUse'
    BY <2>2, <2>4 DEF LockInv, LockersUse, Idle
  <2> QED BY <1>1, <2>3, <2>5 DEF LockInv
<1>3. CASE Create
  <2>1. call[cpu].at = "user"
    BY <1>3 DEF Create, InUser, At
  <2>2. \A n \in Node : \/ call'[n] = call[n] /\ n # cpu
                        \/ call'[n].at # "lockTake" /\ call'[n].op # "lock"
    <3>1. call' = [call EXCEPT ![cpu] = [at |-> "createCount", op |-> "create",
                                         arg |-> nodeCount, i |-> 0],
                               ![nodeCount] = Idle]
      BY <1>3 DEF Create
    <3> QED BY <3>1, CallFacts DEF Idle
  <2>3. TakerRuns'
    BY <2>2 DEF LockInv, TakerRuns
  <2>4. usable' = usable
    BY <1>3 DEF Create, mutexes
  <2>5. LockersUse'
    BY <2>2, <2>4 DEF LockInv, LockersUse
  <2> QED BY <1>1, <2>3, <2>5 DEF LockInv
<1>4. CASE ~CreateFirst /\ ~Create
  <2>1. TakerRuns'
    <3>1. ASSUME NEW n \in Node, call'[n].at = "lockTake"
          PROVE  n = cpu' /\ sig' = "none" /\ ~mutex'[call'[n].arg].locked
      <4>1. n = cpu
        BY <1>4, <3>1, OthersKeepCall DEF LockInv, TakerRuns
      <4> QED BY <1>4, <3>1, <4>1, TakerStays DEF LockInv
    <3> QED BY <3>1 DEF TakerRuns
  <2> QED BY <1>1, <1>4, <2>1, LockersStep DEF LockInv
<1> QED BY <1>2, <1>3, <1>4

\* Between lock and unlock of a mutex there is at most one thread, for any number of
\* threads, mutexes and levels, provided that SIGALRM strikes neither between the test
\* and the assignment of my_pthread_mutex_lock nor between the enqueuee and the count
\* of my_pthread_create (two threads of one id could unlock each other's mutexes), and
\* that the client does not destroy a mutex that other threads are locking.
THEOREM MutualExclusionHolds ==
  ASSUME "lockTake" \notin Preemptible, "createCount" \notin Preemptible,
         "destroyInUse" \notin Calls
  PROVE  Spec => []MutualExclusion
<1>1. Init => LockInv
  BY DEF Init, LockInv, TakerRuns, LockersUse, HolderRecorded, Idle
<1>2. TypeInv /\ IdInv /\ LockInv /\ [Next]_vars => LockInv'
  BY LockStep
<1>3. LockInv => MutualExclusion
  BY DEF LockInv, HolderRecorded, MutualExclusion
<1> QED BY <1>1, <1>2, <1>3, TypesAlways, IdsAlways, PTL DEF Spec

===============================================================================

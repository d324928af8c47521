--------------------------- MODULE MyPthread_proofs ---------------------------
(***************************************************************************)
(* Theorems about MyPthread: its types, and mutual exclusion for a client  *)
(* and a build that keep SIGALRM out of two windows of the library.        *)
(***************************************************************************)
EXTENDS MyPthread, TLAPS, FiniteSetTheorems, SequenceTheorems,
        WellFoundedInduction

-----------------------------------------------------------------------------
(* Facts about the operators of the model.                                 *)

\* A set of natural numbers that is not empty has a smallest element.
LEMMA SmallestElement ==
  ASSUME NEW S \in SUBSET Nat, S # {}
  PROVE  \E l \in S : \A k \in S : l <= k
<1> DEFINE R == {ss \in Nat \X Nat : ss[1] < ss[2]}
<1>1. IsWellFoundedOn(R, Nat)
  BY NatLessThanWellFounded DEF OpToRel
<1>2. PICK l \in S : \A k \in S : <<k, l>> \notin R
  <2> HIDE DEF R
  <2> QED BY <1>1, WFMin, Zenon
<1>3. ASSUME NEW k \in S PROVE l <= k
  <2>1. <<k, l>> \notin R
    BY <1>2
  <2>2. <<k, l>> \in Nat \X Nat /\ ~(k < l)
    BY <2>1
  <2> QED BY <2>2
<1> QED BY <1>3

\* Top picks an element of the set it is given.
LEMMA TopType ==
  ASSUME NEW S \in SUBSET Nat, S # {}
  PROVE  Top(S) \in S
BY SmallestElement DEF Top

LEMMA LevelFacts ==
  /\ 0 \in Level /\ Lowest \in Level /\ Lowest # 0
  /\ Level \subseteq Nat
  /\ \A l \in Level : l < Lowest => l + 1 \in Level
BY PthreadAssumption DEF PthreadAssumption, Level, Lowest

\* Boosting and promoting keep the types; promoting changes nothing but
\* priorities.
LEMMA BoostedType ==
  ASSUME NEW B, NEW qs \in [Level -> Seq(B)]
  PROVE  Boosted(qs) \in [Level -> Seq(B)]
<1>1. qs[0] \in Seq(B) /\ qs[Lowest] \in Seq(B)
  BY LevelFacts
<1>2. qs[0] \o qs[Lowest] \in Seq(B)
  BY <1>1, ConcatProperties
<1>3. << >> \in Seq(B)
  BY EmptySeq
<1> QED BY <1>2, <1>3, LevelFacts DEF Boosted

LEMMA PromotedType ==
  ASSUME NEW blocks \in [Node -> Block], NEW level
  PROVE  /\ Promoted(blocks, level) \in [Node -> Block]
         /\ \A n \in Node : Promoted(blocks, level)[n].tid = blocks[n].tid
BY LevelFacts DEF Promoted, Block

LEMMA MaintainType ==
  ASSUME NEW STATE B, NEW STATE qs, NEW STATE blocks,
         qs \in [Level -> Seq(B)], blocks \in [Node -> Block],
         maintenanceCount \in Nat,
         Maintain(qs, blocks)
  PROVE  /\ running_qs' \in [Level -> Seq(B)]
         /\ tcb' \in [Node -> Block]
         /\ \A n \in Node : tcb'[n].tid = blocks[n].tid
         /\ maintenanceCount' \in Nat
<1>1. CASE BoostDue(qs)
  BY <1>1, BoostedType, PromotedType DEF Maintain
<1>2. CASE ~BoostDue(qs)
  BY <1>2 DEF Maintain
<1> QED BY <1>1, <1>2

-----------------------------------------------------------------------------
(* Types.                                                                  *)

\* The nodes that exist, and the threads between the enqueuee and the count of
\* my_pthread_create.
Born     == 0 .. nodeCount - 1
Creators == {n \in Node : call[n].at = "createCount"}

\* The operand of a call has the type its function needs, and a point inside a
\* function is reached only by that function.
CallOK(c) ==
  /\ c.op = "join" => c.arg \in Tid
  /\ c.op \in {"lock", "unlock"} => c.arg \in Mutex
  /\ c.op = "exit" => c.arg \in Value
  /\ c.at \in {"joinWait", "joinDone"} => c.op = "join"
  /\ c.at \in {"lockTest", "lockBlock", "lockTake"} => c.op = "lock"
  /\ c.at = "unlockWake" => c.op = "unlock"
  /\ c.at = "exitWake" => c.op = "exit"

CallRecord == [at : Points, op : Ops, arg : Operand, i : Nat]

CallInv ==
  /\ call \in [Node -> CallRecord]
  /\ \A n \in Node : CallOK(call[n])

QueueInv ==
  /\ running_qs \in [Level -> Seq(Born)]
  /\ waiting_queue \in Seq(Born)
  /\ join_queue \in Seq(Born)
  /\ current \in Born \cup {NoNode}
  /\ cpu \in Node
  /\ proc # "init" => cpu \in Born

\* Every node has been counted but those whose creator has not got there yet.
CountInv ==
  /\ nodeCount \in 0 .. MaxThreads
  /\ threadCount \in 1 .. MaxThreads
  /\ Creators \subseteq Born
  /\ proc = "init" => nodeCount = 0 /\ Creators = {}
  /\ proc # "init" => threadCount + Cardinality(Creators) = nodeCount

DataInv ==
  /\ tcb \in [Node -> Block]
  /\ exit_list \in [Tid -> Value \cup {NotExited}]
  /\ mutex \in [Mutex -> MutexState]
  /\ mutex_count \in 0 .. MaxMutexInits
  /\ fc \in Flags
  /\ maintenanceCount \in Nat
  /\ mem_flag \in BOOLEAN
  /\ sig \in {"none", "update", "dispatch"}
  /\ holds \in [Mutex -> SUBSET Node]
  /\ usable \subseteq Mutex
  /\ proc \in {"init", "run", "exited", "fault"}

\* The handler has replaced an exit that was under way by TIMER.
HandlerInv == sig # "none" => fc # "PEXIT"

\* The inductive invariant behind TypeOK.
TypeInv == CallInv /\ QueueInv /\ CountInv /\ DataInv /\ HandlerInv

LEMMA BornFacts ==
  ASSUME nodeCount \in 0 .. MaxThreads
  PROVE  Born \subseteq Node /\ NoNode \notin Born /\ 0 \in Node /\ 1 \in Node
BY PthreadAssumption DEF PthreadAssumption, Born, Node, NoNode

LEMMA TypeInvImpliesTypeOK == TypeInv => TypeOK
<1> SUFFICES ASSUME TypeInv PROVE TypeOK
  OBVIOUS
<1>1. Born \subseteq Node
  BY BornFacts DEF TypeInv, CountInv
<1>2. waiting_queue \in Seq(Node) /\ join_queue \in Seq(Node)
  BY <1>1, SeqMonotonic DEF TypeInv, QueueInv
<1>3. running_qs \in [Level -> Seq(Node)]
  BY <1>1, SeqMonotonic DEF TypeInv, QueueInv
<1> QED BY <1>1, <1>2, <1>3
  DEF TypeInv, TypeOK, CallInv, QueueInv, CountInv, DataInv, CallRecord

\* The call of the running thread changes, and it neither becomes nor was a creator.
LEMMA CallUpdate ==
  ASSUME CallInv, cpu \in Node,
         NEW STATE c, c \in CallRecord, CallOK(c),
         call' = [call EXCEPT ![cpu] = c],
         c.at # "createCount", call[cpu].at # "createCount"
  PROVE  CallInv' /\ Creators' = Creators
<1>1. call' \in [Node -> CallRecord] /\ \A n \in Node : call'[n] = IF n = cpu THEN c ELSE call[n]
  BY DEF CallInv
<1> QED BY <1>1 DEF CallInv, Creators, CallOK

LEMMA ResumedType ==
  ASSUME NEW c \in CallRecord, CallOK(c)
  PROVE  /\ Resumed(c) \in CallRecord /\ CallOK(Resumed(c))
         /\ Resumed(c).at \in {"user", "joinDone", "lockTest"}
<1>1. CASE c.op = "join"
  BY <1>1 DEF Resumed, CallRecord, CallOK, Points
<1>2. CASE c.op = "lock"
  BY <1>2 DEF Resumed, CallRecord, CallOK, Points
<1>3. CASE c.op \notin {"join", "lock"}
  BY <1>3 DEF Resumed, Idle, CallRecord, CallOK, Points, Ops, Operand, Value, Null
<1> QED BY <1>1, <1>2, <1>3

LEMMA CountKept ==
  ASSUME CountInv, Creators' = Creators, UNCHANGED births,
         proc' = "init" <=> proc = "init"
  PROVE  CountInv'
BY DEF CountInv, births, Born

LEMMA TypeInit == Init => TypeInv
<1> SUFFICES ASSUME Init PROVE TypeInv
  OBVIOUS
<1> USE PthreadAssumption DEF PthreadAssumption
<1>1. 0 \in Level /\ 0 \in Node /\ 0 \in Tid
  BY LevelFacts DEF Node, Tid
<1>2. CallInv
  BY <1>1 DEF Init, CallInv, CallRecord, CallOK, Idle, Points, Ops, Operand, Value, Null
<1>3. QueueInv
  BY <1>1, EmptySeq DEF Init, QueueInv, NoNode
<1>4. CountInv
  BY <1>1 DEF Init, CountInv, Creators, Idle, Born
<1>5. DataInv
  <2>1. NewBlock(0) \in Block
    BY <1>1 DEF NewBlock, Block, Value, Null
  <2>2. tcb \in [Node -> Block]
    BY <2>1 DEF Init
  <2>3. mutex \in [Mutex -> MutexState] /\ holds \in [Mutex -> SUBSET Node]
    BY DEF Init, MutexState
  <2>4. exit_list \in [Tid -> Value \cup {NotExited}]
    BY DEF Init
  <2>5. mutex_count \in 0 .. MaxMutexInits /\ maintenanceCount \in Nat
    BY DEF Init
  <2>6. fc \in Flags /\ sig \in {"none", "update", "dispatch"} /\ mem_flag \in BOOLEAN
    BY Zenon DEF Init, Flags
  <2>7. usable \subseteq Mutex /\ proc \in {"init", "run", "exited", "fault"}
    BY DEF Init
  <2> QED BY <2>2, <2>3, <2>4, <2>5, <2>6, <2>7, Zenon DEF DataInv
<1>6. HandlerInv
  BY DEF Init, HandlerInv
<1> QED BY <1>2, <1>3, <1>4, <1>5, <1>6 DEF TypeInv

LEMMA ReturnType ==
  ASSUME TypeInv, Point \in {"update", "dispatch"}, ReturnFromScheduler
  PROVE  /\ CallInv' /\ Creators' = Creators
         /\ sig' \in {"none", "update", "dispatch"}
         /\ sig' # "none" => sig # "none"
<1>1. CASE sig = "none"
  <2>1. call[cpu] \in CallRecord /\ CallOK(call[cpu]) /\ cpu \in Node
    BY DEF TypeInv, CallInv, QueueInv
  <2>2. call' = [call EXCEPT ![cpu] = Resumed(call[cpu])] /\ sig' = sig
    BY <1>1, <2>1 DEF ReturnFromScheduler, TypeInv, CallInv
  <2>3. call[cpu].at # "createCount"
    BY <1>1 DEF Point
  <2> HIDE DEF Creators
  <2> QED BY <1>1, <2>1, <2>2, <2>3, ResumedType, CallUpdate DEF TypeInv
<1>2. CASE sig # "none"
  BY <1>2 DEF ReturnFromScheduler, TypeInv, CallInv, Creators
<1> QED BY <1>1, <1>2

LEMMA GotoType ==
  ASSUME TypeInv, NEW p \in {"update", "dispatch", "dead"},
         call[cpu].at # "createCount", Goto(p)
  PROVE  CallInv' /\ Creators' = Creators
<1> DEFINE c == [call[cpu] EXCEPT !.at = p]
<1>1. call[cpu] \in CallRecord /\ CallOK(call[cpu]) /\ cpu \in Node
  BY DEF TypeInv, CallInv, QueueInv
<1>2. c \in CallRecord /\ CallOK(c) /\ c.at # "createCount"
  BY <1>1 DEF CallRecord, CallOK, Points
<1>3. call' = [call EXCEPT ![cpu] = c]
  BY <1>1 DEF Goto, TypeInv, CallInv
<1> HIDE DEF c
<1> QED BY <1>1, <1>2, <1>3, CallUpdate DEF TypeInv

LEMMA ToDispatchType ==
  ASSUME TypeInv, Point = "update", ToDispatch
  PROVE  /\ CallInv' /\ Creators' = Creators
         /\ sig' \in {"none", "update", "dispatch"}
         /\ sig' # "none" => sig # "none"
<1>1. CASE sig = "none"
  BY <1>1, GotoType DEF ToDispatch, Point
<1>2. CASE sig # "none"
  BY <1>2 DEF ToDispatch, TypeInv, CallInv, Creators
<1> QED BY <1>1, <1>2

LEMMA ReturnToUserType ==
  ASSUME TypeInv, call[cpu].at # "createCount", ReturnToUser
  PROVE  CallInv' /\ Creators' = Creators
<1>1. Idle \in CallRecord /\ CallOK(Idle) /\ Idle.at # "createCount"
  BY DEF Idle, CallRecord, CallOK, Points, Ops, Operand, Value, Null
<1> QED BY <1>1, CallUpdate DEF ReturnToUser, TypeInv, QueueInv

\* A level of the current thread that is not empty gives up its head.
LEMMA QueuedType ==
  ASSUME TypeInv, Queued
  PROVE  /\ current \in Born /\ current \in Node /\ Priority \in Level
         /\ Head(running_qs[Priority]) \in Born
         /\ Tail(running_qs[Priority]) \in Seq(Born)
         /\ Dequeued \in [Level -> Seq(Born)]
         /\ Rotated \in [Level -> Seq(Born)]
<1>1. current \in Born /\ current \in Node
  BY BornFacts DEF TypeInv, QueueInv, CountInv, Queued
<1>2. Priority \in Level
  BY <1>1 DEF TypeInv, DataInv, Priority, Block
<1>3. running_qs[Priority] \in Seq(Born) /\ running_qs[Priority] # << >>
  BY <1>2 DEF TypeInv, QueueInv, Queued
<1>4. /\ Head(running_qs[Priority]) \in Born
      /\ Tail(running_qs[Priority]) \in Seq(Born)
  BY <1>3, HeadTailProperties
<1>5. Append(Tail(running_qs[Priority]), Head(running_qs[Priority])) \in Seq(Born)
  BY <1>4, AppendProperties
<1>6. Dequeued \in [Level -> Seq(Born)]
  BY <1>2, <1>4 DEF TypeInv, QueueInv, Dequeued
<1>7. Rotated \in [Level -> Seq(Born)]
  BY <1>2, <1>5 DEF TypeInv, QueueInv, Rotated
<1> QED BY <1>1, <1>2, <1>4, <1>6, <1>7

\* What the switches of updateQueue have in common: new queues and blocks go
\* through the maintenance, and nodes stay where they were born.
LEMMA SwitchType ==
  ASSUME TypeInv, proc = "run", Point = "update",
         NEW STATE qs, NEW STATE blocks,
         qs \in [Level -> Seq(Born)], blocks \in [Node -> Block],
         Maintain(qs, blocks), ToDispatch,
         waiting_queue' \in Seq(Born), join_queue' \in Seq(Born),
         current' \in Born \cup {NoNode}, fc' \in Flags,
         sig # "none" => fc' # "PEXIT",
         UNCHANGED <<mutexes, births, exit_list, mem_flag, cpu, proc>>
  PROVE  TypeInv'
<1>1. Born' = Born
  BY DEF births, Born
<1>2. /\ running_qs' \in [Level -> Seq(Born)]
      /\ tcb' \in [Node -> Block]
      /\ maintenanceCount' \in Nat
  BY MaintainType DEF TypeInv, DataInv
<1>3. CallInv' /\ Creators' = Creators /\ sig' \in {"none", "update", "dispatch"}
      /\ HandlerInv'
  BY ToDispatchType DEF HandlerInv
<1>4. QueueInv'
  BY <1>1, <1>2 DEF TypeInv, QueueInv
<1>5. CountInv'
  BY <1>3, CountKept DEF TypeInv
<1>6. DataInv'
  BY <1>2, <1>3 DEF TypeInv, DataInv, mutexes
<1> QED BY <1>3, <1>4, <1>5, <1>6 DEF TypeInv

LEMMA EnterType ==
  ASSUME TypeInv, NEW STATE o, NEW STATE p, NEW STATE a,
         o \in Ops, p \in Points \ {"createCount"}, a \in Operand,
         CallOK([at |-> p, op |-> o, arg |-> a, i |-> 0]),
         call[cpu].at # "createCount", Enter(o, p, a)
  PROVE  CallInv' /\ Creators' = Creators
<1> DEFINE c == [at |-> p, op |-> o, arg |-> a, i |-> 0]
<1>1. c \in CallRecord /\ c.at # "createCount"
  BY DEF CallRecord
<1>2. call' = [call EXCEPT ![cpu] = c]
  BY DEF Enter
<1> HIDE DEF c
<1>3. CallOK(c)
  BY DEF c
<1> QED BY <1>1, <1>2, <1>3, CallUpdate DEF TypeInv, QueueInv

\* A step that changes neither the queues nor the number of nodes.
LEMMA QueuesKept ==
  ASSUME QueueInv, UNCHANGED <<queues, nodeCount, current, cpu>>,
         proc' = "init" <=> proc = "init"
  PROVE  QueueInv'
BY DEF QueueInv, queues, Born

\* A node is appended to level 0.
LEMMA AppendTop ==
  ASSUME NEW B, NEW n \in B, NEW qs \in [Level -> Seq(B)]
  PROVE  [qs EXCEPT ![0] = Append(@, n)] \in [Level -> Seq(B)]
<1>1. Append(qs[0], n) \in Seq(B)
  BY LevelFacts, AppendProperties
<1> QED BY <1>1, LevelFacts

LEMMA SchedulerTypeStep ==
  ASSUME TypeInv,
         \/ SchedulerBusy \/ SwitchNone \/ SwitchFirst \/ SwitchTimer \/ SwitchYield
         \/ SwitchExit \/ SwitchJoin \/ SwitchBlocked
  PROVE  TypeInv'
<1>1. CASE SchedulerBusy
  <2>1. CallInv' /\ Creators' = Creators /\ sig' \in {"none", "update", "dispatch"}
        /\ HandlerInv'
    BY <1>1, ReturnType DEF HandlerInv, TypeInv, SchedulerBusy
  <2> QED BY <1>1, <2>1, QueuesKept, CountKept
          DEF SchedulerBusy, TypeInv, DataInv, mutexes, births
<1>2. CASE SwitchNone
  <2>1. CallInv' /\ Creators' = Creators /\ sig' \in {"none", "update", "dispatch"}
        /\ HandlerInv'
    BY <1>2, ReturnType DEF HandlerInv, TypeInv, SwitchNone, InSwitch
  <2> QED BY <1>2, <2>1, QueuesKept, CountKept
          DEF SwitchNone, TypeInv, DataInv, mutexes, births
<1>3. CASE SwitchFirst
  <2>1. CallInv' /\ Creators' = Creators /\ sig' \in {"none", "update", "dispatch"}
        /\ HandlerInv'
    BY <1>3, ToDispatchType DEF HandlerInv, TypeInv, SwitchFirst, InSwitch
  <2> QED BY <1>3, <2>1, QueuesKept, CountKept
          DEF SwitchFirst, TypeInv, DataInv, mutexes, births
<1>4. CASE SwitchTimer
  <2>1. Queued /\ proc = "run" /\ Point = "update" /\ ToDispatch /\ fc' \in Flags
        /\ (sig # "none" => fc' # "PEXIT")
        /\ waiting_queue' \in Seq(Born) /\ join_queue' \in Seq(Born)
        /\ current' \in Born \cup {NoNode}
        /\ UNCHANGED <<mutexes, births, exit_list, mem_flag, cpu, proc>>
    BY <1>4 DEF SwitchTimer, InSwitch, Flags, TypeInv, QueueInv, HandlerInv
  <2>2. CASE CanSink
    <3> DEFINE qs == [Dequeued EXCEPT ![Priority + 1]
                                 = Append(@, Head(running_qs[Priority]))]
               blocks == [tcb EXCEPT ![current].thread_priority = @ + 1]
    <3>1. Priority \in Level /\ Priority + 1 \in Level
      BY <2>1, <2>2, QueuedType, LevelFacts DEF CanSink
    <3>2. Append(Dequeued[Priority + 1], Head(running_qs[Priority])) \in Seq(Born)
      <4>1. Dequeued[Priority + 1] \in Seq(Born)
        BY <2>1, <3>1, QueuedType
      <4> QED BY <2>1, <4>1, QueuedType, AppendProperties
    <3>3. qs \in [Level -> Seq(Born)]
      BY <2>1, <3>1, <3>2, QueuedType
    <3>4. blocks \in [Node -> Block]
      BY <2>1, <3>1, QueuedType DEF TypeInv, DataInv, Block, Priority
    <3>5. Maintain(qs, blocks)
      BY <1>4, <2>2 DEF SwitchTimer
    <3> HIDE DEF qs, blocks
    <3> QED BY <2>1, <3>3, <3>4, <3>5, SwitchType
  <2>3. CASE ~CanSink
    <3>1. Maintain(Rotated, tcb)
      BY <1>4, <2>3 DEF SwitchTimer
    <3> QED BY <2>1, <3>1, QueuedType, SwitchType DEF TypeInv, DataInv
  <2> QED BY <2>2, <2>3
<1>5. CASE SwitchYield
  <2>1. Queued /\ proc = "run" /\ Point = "update" /\ ToDispatch /\ fc' \in Flags
        /\ (sig # "none" => fc' # "PEXIT")
        /\ waiting_queue' \in Seq(Born) /\ join_queue' \in Seq(Born)
        /\ current' \in Born \cup {NoNode} /\ Maintain(Rotated, tcb)
        /\ UNCHANGED <<mutexes, births, exit_list, mem_flag, cpu, proc>>
    BY <1>5 DEF SwitchYield, InSwitch, Flags, TypeInv, QueueInv, HandlerInv
  <2> QED BY <2>1, QueuedType, SwitchType DEF TypeInv, DataInv
<1>6. CASE SwitchExit
  <2> DEFINE qs == IF running_qs[Priority] = << >> THEN running_qs ELSE Dequeued
  <2>1. proc = "run" /\ Point = "update" /\ ToDispatch /\ fc' \in Flags
        /\ (sig # "none" => fc' # "PEXIT")
        /\ waiting_queue' \in Seq(Born) /\ join_queue' \in Seq(Born)
        /\ current' \in Born \cup {NoNode} /\ Maintain(qs, tcb)
        /\ UNCHANGED <<mutexes, births, exit_list, mem_flag, cpu, proc>>
    BY <1>6 DEF SwitchExit, InSwitch, Flags, TypeInv, QueueInv, HandlerInv, DataInv
  <2>2. qs \in [Level -> Seq(Born)]
    BY <1>6, QueuedType DEF SwitchExit, Queued, TypeInv, QueueInv
  <2> HIDE DEF qs
  <2> QED BY <2>1, <2>2, SwitchType DEF TypeInv, DataInv
<1>7. CASE SwitchJoin
  <2>1. Queued /\ proc = "run" /\ Point = "update" /\ ToDispatch /\ fc' \in Flags
        /\ (sig # "none" => fc' # "PEXIT")
        /\ waiting_queue' \in Seq(Born)
        /\ current' \in Born \cup {NoNode} /\ Maintain(Dequeued, tcb)
        /\ UNCHANGED <<mutexes, births, exit_list, mem_flag, cpu, proc>>
    BY <1>7 DEF SwitchJoin, InSwitch, Flags, TypeInv, QueueInv, HandlerInv
  <2>2. join_queue' \in Seq(Born)
    BY <1>7, <2>1, QueuedType, AppendProperties DEF SwitchJoin, TypeInv, QueueInv
  <2> QED BY <2>1, <2>2, QueuedType, SwitchType DEF TypeInv, DataInv
<1>8. CASE SwitchBlocked
  <2>1. Queued /\ proc = "run" /\ Point = "update" /\ ToDispatch /\ fc' \in Flags
        /\ (sig # "none" => fc' # "PEXIT")
        /\ join_queue' \in Seq(Born)
        /\ current' \in Born \cup {NoNode} /\ Maintain(Dequeued, tcb)
        /\ UNCHANGED <<mutexes, births, exit_list, mem_flag, cpu, proc>>
    BY <1>8 DEF SwitchBlocked, InSwitch, Flags, TypeInv, QueueInv, HandlerInv
  <2>2. waiting_queue' \in Seq(Born)
    BY <1>8, <2>1, QueuedType, AppendProperties DEF SwitchBlocked, TypeInv, QueueInv
  <2> QED BY <2>1, <2>2, QueuedType, SwitchType DEF TypeInv, DataInv
<1> QED BY <1>1, <1>2, <1>3, <1>4, <1>5, <1>6, <1>7, <1>8

\* The dispatch picks a node that exists.
LEMMA NewContextType ==
  ASSUME TypeInv, Occupied # {}
  PROVE  NewContext \in Born
<1>1. ASSUME NEW S \in SUBSET Occupied, S # {}
      PROVE  /\ Top(S) \in Level /\ running_qs[Top(S)] \in Seq(Born)
             /\ Head(running_qs[Top(S)]) \in Born
  <2>1. Top(S) \in S
    BY <1>1, TopType, LevelFacts DEF Occupied
  <2>2. running_qs[Top(S)] \in Seq(Born) /\ running_qs[Top(S)] # << >>
    BY <1>1, <2>1 DEF Occupied, TypeInv, QueueInv
  <2> QED BY <2>1, <2>2, <1>1, HeadTailProperties DEF Occupied
<1> DEFINE top == Top(Occupied)
           below == {l \in Occupied : l > top}
<1>2. running_qs[top] \in Seq(Born) /\ Head(running_qs[top]) \in Born
  BY <1>1
<1>3. ASSUME Len(running_qs[top]) > 1 PROVE running_qs[top][2] \in Born
  <2>1. 2 \in 1 .. Len(running_qs[top])
    BY <1>2, <1>3, LenProperties
  <2> QED BY <1>2, <2>1, ElementOfSeq
<1>4. ASSUME below # {} PROVE Head(running_qs[Top(below)]) \in Born
  BY <1>1, <1>4
<1>5. ASSUME FrontIsCurrent PROVE current \in Born
  BY <1>5 DEF FrontIsCurrent, TypeInv, QueueInv
<1> QED BY <1>2, <1>3, <1>4, <1>5 DEF NewContext

LEMMA DispatchTypeStep ==
  ASSUME TypeInv, Dispatch \/ DispatchNone
  PROVE  TypeInv'
<1>1. CASE Dispatch
  <2>1. NewContext \in Born
    BY <1>1, NewContextType DEF Dispatch
  <2>2. running_qs' \in [Level -> Seq(Born)]
    BY <1>1, QueuedType DEF Dispatch, AfterPick, FrontIsCurrent, Queued, TypeInv, QueueInv
  <2>3. CallInv' /\ Creators' = Creators /\ sig' \in {"none", "update", "dispatch"}
        /\ HandlerInv'
    <3>1. CASE fc = "PEXIT"
      <4>1. sig = "none" /\ call[cpu].at # "createCount"
        BY <1>1, <3>1 DEF Dispatch, Point, TypeInv, HandlerInv
      <4> QED BY <1>1, <3>1, <4>1, GotoType DEF Dispatch, HandlerInv
    <3>2. CASE fc # "PEXIT"
      BY <1>1, <3>2, ReturnType DEF Dispatch, HandlerInv
    <3> QED BY <3>1, <3>2
  <2>4. QueueInv'
    BY <1>1, <2>1, <2>2, BornFacts DEF Dispatch, TypeInv, QueueInv, CountInv, births, Born
  <2>5. CountInv'
    BY <1>1, <2>3, CountKept DEF Dispatch, TypeInv
  <2>6. DataInv'
    BY <1>1, <2>3 DEF Dispatch, TypeInv, DataInv, mutexes, Flags
  <2> QED BY <2>3, <2>4, <2>5, <2>6 DEF TypeInv
<1>2. CASE DispatchNone
  <2>1. CallInv' /\ Creators' = Creators /\ sig' \in {"none", "update", "dispatch"}
        /\ HandlerInv'
    BY <1>2, ReturnType DEF HandlerInv, TypeInv, DispatchNone
  <2> QED BY <1>2, <2>1, QueuesKept, CountKept
          DEF DispatchNone, TypeInv, DataInv, mutexes, births
<1> QED BY <1>1, <1>2

\* Steps that change neither calls, queues nor the number of threads.
LEMMA OtherTypeStep ==
  ASSUME TypeInv,
         \/ Fault \/ TimerFires \/ MainReturns \/ MutexInit \/ MutexDestroy
         \/ UNCHANGED vars
  PROVE  TypeInv'
<1>1. CASE Fault \/ TimerFires \/ MainReturns
  <2>1. UNCHANGED <<call, births, queues, current, cpu>> /\ (proc' = "init" <=> proc = "init")
    BY <1>1 DEF Fault, TimerFires, MainReturns, At
  <2>2. CallInv' /\ Creators' = Creators
    BY <2>1 DEF TypeInv, CallInv, Creators
  <2>3. DataInv' /\ HandlerInv'
    BY <1>1 DEF Fault, TimerFires, MainReturns, TypeInv, DataInv, HandlerInv, mutexes, Flags
  <2> QED BY <2>1, <2>2, <2>3, QueuesKept, CountKept DEF TypeInv, births
<1>2. CASE MutexInit \/ MutexDestroy
  <2>1. UNCHANGED <<call, births, queues, current, cpu, proc>> /\ HandlerInv'
    BY <1>2 DEF MutexInit, MutexDestroy, TypeInv, HandlerInv
  <2>2. CallInv' /\ Creators' = Creators
    BY <2>1 DEF TypeInv, CallInv, Creators
  <2>3. CASE MutexInit
    <3>1. PICK m \in Mutex \ usable :
            /\ mutex' = [mutex EXCEPT ![m] = [mid |-> mutex_count, locked |-> FALSE,
                                              tid |-> -1, ready_waiting |-> FALSE]]
            /\ usable' = usable \cup {m}
      BY <2>3 DEF MutexInit
    <3>2. mutex' \in [Mutex -> MutexState] /\ usable' \subseteq Mutex
      BY <3>1 DEF MutexState, TypeInv, DataInv
    <3>3. mutex_count' \in 0 .. MaxMutexInits
      BY <2>3, PthreadAssumption DEF PthreadAssumption, MutexInit, TypeInv, DataInv
    <3>4. DataInv'
      BY <2>3, <3>2, <3>3 DEF MutexInit, TypeInv, DataInv
    <3> QED BY <2>1, <2>2, <3>4, QueuesKept, CountKept DEF TypeInv, births
  <2>4. CASE MutexDestroy
    <3>1. DataInv'
      BY <2>4 DEF MutexDestroy, TypeInv, DataInv
    <3> QED BY <2>1, <2>2, <3>1, QueuesKept, CountKept DEF TypeInv, births
  <2> QED BY <1>2, <2>3, <2>4
<1>3. CASE UNCHANGED vars
  BY <1>3 DEF vars, queues, mutexes, births, TypeInv, CallInv, QueueInv, CountInv, DataInv,
              HandlerInv, Creators, Born
<1> QED BY <1>1, <1>2, <1>3

\* Steps inside a call that change neither the queues nor the number of threads:
\* what is left to show of each is the type of what it assigns.
LEMMA CallTypeStep ==
  ASSUME TypeInv, CallInv' /\ Creators' = Creators, DataInv', HandlerInv',
         UNCHANGED <<queues, births, current, cpu, proc>>
  PROVE  TypeInv'
BY QueuesKept, CountKept DEF TypeInv, births

\* The running thread is somewhere in the library or in its own code.
LEMMA AtType ==
  ASSUME TypeInv, NEW p, At(p)
  PROVE  /\ proc = "run" /\ sig = "none" /\ cpu \in Born /\ cpu \in Node
         /\ call[cpu] \in CallRecord /\ CallOK(call[cpu]) /\ call[cpu].at = p
         /\ current # NoNode => current \in Born /\ current \in Node
BY BornFacts DEF At, TypeInv, CallInv, QueueInv, CountInv

LEMMA YieldTypeStep == ASSUME TypeInv, Yield PROVE TypeInv'
<1>1. At("user") /\ call[cpu].at = "user"
  BY DEF Yield, InUser, At
<1>2. CallInv' /\ Creators' = Creators
  BY <1>1, EnterType DEF Yield, Ops, Points, Operand, Value, Null, CallOK
<1>3. DataInv' /\ HandlerInv'
  BY <1>1 DEF Yield, At, TypeInv, DataInv, HandlerInv, Flags, mutexes
<1> QED BY <1>2, <1>3, CallTypeStep DEF Yield

LEMMA ExitTypeStep == ASSUME TypeInv, Exit PROVE TypeInv'
<1>1. At("user") /\ call[cpu].at = "user" /\ current \in Node
  BY AtType DEF Exit, InUser, At
<1>2. PICK v \in {tcb[current].tid, Null} : Enter("exit", "exitWake", v)
  BY DEF Exit
<1>3. v \in Value
  BY <1>1, <1>2 DEF TypeInv, DataInv, Block, Value
<1>4. CallInv' /\ Creators' = Creators
  <2>1. CallOK([at |-> "exitWake", op |-> "exit", arg |-> v, i |-> 0])
    BY <1>3 DEF CallOK
  <2> QED BY <1>1, <1>2, <1>3, <2>1, EnterType DEF Ops, Points, Operand
<1>5. DataInv' /\ HandlerInv'
  BY <1>1 DEF Exit, At, TypeInv, DataInv, HandlerInv, Flags, mutexes
<1> QED BY <1>4, <1>5, CallTypeStep DEF Exit

LEMMA ExitWakeTypeStep == ASSUME TypeInv, ExitWake PROVE TypeInv'
<1> DEFINE n == Head(join_queue)
           c == [call[cpu] EXCEPT !.i = @ + 1]
<1>1. /\ At("exitWake") /\ call[cpu].at = "exitWake" /\ cpu \in Node
      /\ call[cpu] \in CallRecord /\ CallOK(call[cpu]) /\ call[cpu].arg \in Value
  BY AtType DEF ExitWake, CallOK
<1>2. join_queue # << >>
  BY <1>1 DEF ExitWake, MoreJoiners, CallRecord
<1>3. n \in Born /\ n \in Node /\ Tail(join_queue) \in Seq(Born)
  BY <1>2, BornFacts, HeadTailProperties DEF TypeInv, QueueInv, CountInv
<1>4. CallInv' /\ Creators' = Creators
  <2>1. c \in CallRecord /\ CallOK(c) /\ c.at # "createCount"
    BY <1>1 DEF CallRecord, CallOK
  <2>2. call' = [call EXCEPT ![cpu] = c]
    BY <1>1 DEF ExitWake, TypeInv, CallInv
  <2> HIDE DEF c
  <2> QED BY <1>1, <2>1, <2>2, CallUpdate DEF TypeInv
<1>5. UNCHANGED <<births, waiting_queue, current, cpu, proc>> /\ Born' = Born
  BY DEF ExitWake, births, Born
<1>6. /\ tcb' \in [Node -> Block]
      /\ running_qs' \in [Level -> Seq(Born)] /\ join_queue' \in Seq(Born)
  <2>1. CASE Joins(n)
    <3>1. tcb' = [tcb EXCEPT ![n].value_ptr = call[cpu].arg, ![n].thread_priority = 0]
          /\ running_qs' = [running_qs EXCEPT ![0] = Append(@, n)]
          /\ join_queue' = Tail(join_queue)
      BY <2>1 DEF ExitWake
    <3>2. tcb' \in [Node -> Block]
      BY <1>1, <1>3, <3>1, LevelFacts DEF TypeInv, DataInv, Block
    <3>3. running_qs \in [Level -> Seq(Born)]
      BY DEF TypeInv, QueueInv
    <3>4. [running_qs EXCEPT ![0] = Append(@, n)] \in [Level -> Seq(Born)]
      <4> HIDE DEF n
      <4> QED BY <1>3, <3>3, AppendTop
    <3> HIDE DEF n
    <3> QED BY <1>3, <3>1, <3>2, <3>4
  <2>2. CASE ~Joins(n)
    <3>1. join_queue' = Append(Tail(join_queue), n) /\ UNCHANGED <<tcb, running_qs>>
      BY <2>2 DEF ExitWake
    <3>2. join_queue' \in Seq(Born)
      <4> HIDE DEF n
      <4> QED BY <1>3, <3>1, AppendProperties
    <3> QED BY <3>1, <3>2 DEF TypeInv, DataInv, QueueInv
  <2> QED BY <2>1, <2>2
<1>7. QueueInv'
  BY <1>5, <1>6 DEF TypeInv, QueueInv
<1>8. CountInv'
  BY <1>4, <1>5, CountKept DEF TypeInv
<1>9. DataInv' /\ HandlerInv'
  BY <1>6 DEF ExitWake, TypeInv, DataInv, HandlerInv, mutexes
<1> QED BY <1>4, <1>7, <1>8, <1>9 DEF TypeInv

LEMMA ExitRecordTypeStep == ASSUME TypeInv, ExitRecord PROVE TypeInv'
<1>1. /\ call[cpu].at = "exitWake" /\ call[cpu].arg \in Value /\ current \in Node
  BY AtType DEF ExitRecord, CallOK
<1>2. CallInv' /\ Creators' = Creators
  BY <1>1, GotoType DEF ExitRecord
<1>3. DataInv' /\ HandlerInv'
  BY <1>1 DEF ExitRecord, TypeInv, DataInv, HandlerInv, Block, mutexes
<1> QED BY <1>2, <1>3, CallTypeStep DEF ExitRecord

LEMMA JoinTypeStep == ASSUME TypeInv, Join \/ JoinWait \/ JoinReturn PROVE TypeInv'
<1>1. CASE Join
  <2>1. call[cpu].at = "user"
    BY <1>1 DEF Join, InUser, At
  <2>2. PICK t \in Tid : Enter("join", "joinWait", t)
    BY <1>1 DEF Join
  <2>3. CallInv' /\ Creators' = Creators
    <3>1. CallOK([at |-> "joinWait", op |-> "join", arg |-> t, i |-> 0])
      BY <2>2 DEF CallOK
    <3> QED BY <2>1, <2>2, <3>1, EnterType DEF Ops, Points, Operand, Value
  <2>4. DataInv' /\ HandlerInv'
    BY <1>1 DEF Join, TypeInv, DataInv, HandlerInv, mutexes
  <2> QED BY <1>1, <2>3, <2>4, CallTypeStep DEF Join
<1>2. CASE JoinWait
  <2>1. /\ call[cpu].at = "joinWait" /\ call[cpu].arg \in Tid /\ current \in Node
        /\ sig = "none"
    BY <1>2, AtType DEF JoinWait, CallOK
  <2>2. CallInv' /\ Creators' = Creators
    BY <1>2, <2>1, GotoType DEF JoinWait
  <2>3. tcb' \in [Node -> Block]
    BY <1>2, <2>1 DEF JoinWait, TypeInv, DataInv, Block
  <2>4. DataInv' /\ HandlerInv'
    BY <1>2, <2>1, <2>3 DEF JoinWait, TypeInv, DataInv, HandlerInv, Flags, mutexes
  <2> QED BY <1>2, <2>2, <2>4, CallTypeStep DEF JoinWait
<1>3. CASE JoinReturn
  <2>1. CallInv' /\ Creators' = Creators
    BY <1>3, ReturnToUserType DEF JoinReturn, At
  <2>2. DataInv' /\ HandlerInv'
    BY <1>3 DEF JoinReturn, TypeInv, DataInv, HandlerInv, mutexes
  <2> QED BY <1>3, <2>1, <2>2, CallTypeStep DEF JoinReturn
<1> QED BY <1>1, <1>2, <1>3

LEMMA CreatorsFinite ==
  ASSUME TypeInv
  PROVE  IsFiniteSet(Creators) /\ Cardinality(Creators) \in Nat
<1>1. IsFiniteSet(Node)
  BY FS_Interval, PthreadAssumption DEF PthreadAssumption, Node
<1>2. IsFiniteSet(Creators)
  BY <1>1, FS_Subset DEF Creators
<1> QED BY <1>2, FS_CardinalityType

LEMMA CreateFirstTypeStep == ASSUME TypeInv, CreateFirst PROVE TypeInv'
<1> USE PthreadAssumption DEF PthreadAssumption
<1>1. 0 \in Node /\ 1 \in Node /\ 0 \in Tid /\ 1 \in Tid /\ 0 \in Level
  BY LevelFacts DEF Node, Tid
<1>2. proc = "init" /\ proc' = "run" /\ nodeCount' = 2 /\ threadCount' = 2 /\ Creators = {}
  BY DEF CreateFirst, TypeInv, CountInv
<1>3. Born' = {0, 1} /\ nodeCount = 0 /\ Born = {}
  BY <1>2 DEF Born, TypeInv, CountInv
<1>4. CallInv' /\ Creators' = {}
  <2>1. Idle \in CallRecord /\ CallOK(Idle) /\ Idle.at = "user"
    BY DEF Idle, CallRecord, CallOK, Points, Ops, Operand, Value, Null
  <2>2. call' = [call EXCEPT ![0] = Idle, ![1] = Idle]
    BY DEF CreateFirst
  <2>3. call' \in [Node -> CallRecord]
        /\ \A n \in Node : call'[n] = IF n \in {0, 1} THEN Idle ELSE call[n]
    BY <1>1, <2>1, <2>2 DEF TypeInv, CallInv
  <2> QED BY <1>2, <2>1, <2>3 DEF TypeInv, CallInv, Creators
<1>5. QueueInv'
  <2>1. <<1, 0>> \in Seq(Born')
    BY <1>3
  <2>2. \A l \in Level : running_qs[l] \in Seq(Born')
    BY <1>3, SeqMonotonic DEF TypeInv, QueueInv
  <2>3. running_qs' \in [Level -> Seq(Born')]
    BY <1>1, <2>1, <2>2 DEF CreateFirst, TypeInv, QueueInv
  <2>4. waiting_queue' \in Seq(Born') /\ join_queue' \in Seq(Born')
    BY <1>3, SeqMonotonic DEF CreateFirst, TypeInv, QueueInv
  <2> QED BY <1>1, <1>3, <2>3, <2>4 DEF CreateFirst, QueueInv
<1>6. CountInv'
  BY <1>2, <1>4, FS_EmptySet DEF CountInv
<1>7. DataInv' /\ HandlerInv'
  <2>1. NewBlock(0) \in Block /\ NewBlock(1) \in Block
    BY <1>1 DEF NewBlock, Block, Value, Null
  <2>2. tcb' \in [Node -> Block]
    BY <1>1, <2>1 DEF CreateFirst, TypeInv, DataInv
  <2> QED BY <2>2 DEF CreateFirst, TypeInv, DataInv, HandlerInv, mutexes
<1> QED BY <1>4, <1>5, <1>6, <1>7 DEF TypeInv

LEMMA CreateTypeStep == ASSUME TypeInv, Create PROVE TypeInv'
<1> USE PthreadAssumption DEF PthreadAssumption
<1>1. /\ proc = "run" /\ proc' = "run" /\ cpu \in Born /\ cpu \in Node
      /\ call[cpu].at = "user" /\ nodeCount < MaxThreads
  BY AtType DEF Create, InUser, At
<1>2. /\ nodeCount \in Node /\ nodeCount \notin Born /\ nodeCount \in Nat
      /\ Born' = Born \cup {nodeCount} /\ nodeCount' = nodeCount + 1
  BY <1>1 DEF Create, TypeInv, CountInv, Node, Born
<1>3. threadCount \in Tid /\ threadCount <= nodeCount
  BY <1>1, CreatorsFinite DEF TypeInv, CountInv, Tid
<1> DEFINE c == [at |-> "createCount", op |-> "create", arg |-> nodeCount, i |-> 0]
<1>4. \A n \in Node : call'[n] = IF n = cpu THEN c ELSE IF n = nodeCount THEN Idle ELSE call[n]
  BY <1>1, <1>2 DEF Create, TypeInv, CallInv
<1>5. CallInv' /\ Creators' = Creators \cup {cpu}
  <2>1. c \in CallRecord /\ CallOK(c) /\ c.at = "createCount"
    BY <1>2 DEF CallRecord, CallOK, Points, Ops, Operand, Value, Node, Tid
  <2>2. Idle \in CallRecord /\ CallOK(Idle) /\ Idle.at = "user"
    BY DEF Idle, CallRecord, CallOK, Points, Ops, Operand, Value, Null
  <2>3. call' \in [Node -> CallRecord]
    BY <1>1, <1>2, <2>1, <2>2 DEF Create, TypeInv, CallInv
  <2>4. nodeCount \notin Creators
    BY <1>2 DEF TypeInv, CountInv
  <2> HIDE DEF c
  <2> QED BY <1>1, <1>4, <2>1, <2>2, <2>3, <2>4 DEF TypeInv, CallInv, Creators
<1>6. QueueInv'
  <2>1. \A l \in Level : running_qs[l] \in Seq(Born')
    BY <1>2, SeqMonotonic DEF TypeInv, QueueInv
  <2>2. running_qs \in [Level -> Seq(Born')]
    BY <2>1 DEF TypeInv, QueueInv
  <2>3. running_qs' \in [Level -> Seq(Born')]
    BY <1>2, <2>2, AppendTop DEF Create
  <2>4. waiting_queue' \in Seq(Born') /\ join_queue' \in Seq(Born')
    BY <1>2, SeqMonotonic DEF Create, TypeInv, QueueInv
  <2> QED BY <1>1, <1>2, <2>3, <2>4 DEF Create, TypeInv, QueueInv
<1>7. CountInv'
  <2>1. cpu \notin Creators
    BY <1>1 DEF Creators
  <2>2. Cardinality(Creators') = Cardinality(Creators) + 1
    BY <1>5, <2>1, CreatorsFinite, FS_AddElement
  <2> QED BY <1>1, <1>2, <1>5, <2>2, CreatorsFinite DEF Create, TypeInv, CountInv
<1>8. DataInv' /\ HandlerInv'
  <2>1. NewBlock(threadCount) \in Block
    BY <1>3, LevelFacts DEF NewBlock, Block, Value, Null
  <2>2. tcb' \in [Node -> Block]
    BY <1>2, <2>1 DEF Create, TypeInv, DataInv
  <2> QED BY <2>2 DEF Create, TypeInv, DataInv, HandlerInv, mutexes
<1> QED BY <1>5, <1>6, <1>7, <1>8 DEF TypeInv

LEMMA CreateCountTypeStep == ASSUME TypeInv, CreateCount PROVE TypeInv'
<1>1. /\ proc = "run" /\ cpu \in Born /\ cpu \in Node /\ call[cpu].at = "createCount"
      /\ call[cpu] \in CallRecord /\ CallOK(call[cpu])
  BY AtType DEF CreateCount
<1> DEFINE c == [call[cpu] EXCEPT !.at = "update"]
<1>2. c \in CallRecord /\ CallOK(c) /\ c.at = "update"
  BY <1>1 DEF CallRecord, CallOK, Points
<1>3. call' \in [Node -> CallRecord] /\ \A n \in Node : call'[n] = IF n = cpu THEN c ELSE call[n]
  BY <1>1, <1>2 DEF CreateCount, Goto, TypeInv, CallInv
<1>4. CallInv' /\ Creators' = Creators \ {cpu}
  <2> HIDE DEF c
  <2> QED BY <1>1, <1>2, <1>3 DEF TypeInv, CallInv, Creators
<1>5. QueueInv'
  BY QueuesKept DEF CreateCount, TypeInv
<1>6. CountInv'
  <2>1. cpu \in Creators
    BY <1>1 DEF Creators
  <2>2. Cardinality(Creators') = Cardinality(Creators) - 1
    BY <1>4, <2>1, CreatorsFinite, FS_RemoveElement
  <2>3. Cardinality(Creators') \in Nat
    <3>1. IsFiniteSet(Creators')
      BY <1>4, CreatorsFinite, FS_RemoveElement
    <3> QED BY <3>1, FS_CardinalityType
  <2>4. /\ threadCount' = threadCount + 1 /\ nodeCount' = nodeCount /\ proc' = "run"
        /\ Born' = Born
    BY <1>1 DEF CreateCount, Born
  <2>5. threadCount + Cardinality(Creators) = nodeCount /\ Creators \subseteq Born
        /\ nodeCount \in 0 .. MaxThreads /\ threadCount \in 1 .. MaxThreads
    BY <1>1 DEF TypeInv, CountInv
  <2>6. threadCount' \in 1 .. MaxThreads /\ threadCount' + Cardinality(Creators') = nodeCount'
    BY <2>2, <2>3, <2>4, <2>5, CreatorsFinite, PthreadAssumption DEF PthreadAssumption
  <2> QED BY <1>4, <2>4, <2>5, <2>6 DEF CountInv
<1>7. DataInv' /\ HandlerInv'
  BY DEF CreateCount, TypeInv, DataInv, HandlerInv, mutexes
<1> QED BY <1>4, <1>5, <1>6, <1>7 DEF TypeInv

LEMMA LockTypeStep ==
  ASSUME TypeInv, Lock \/ LockTest \/ LockBlock \/ LockTake
  PROVE  TypeInv'
<1>1. CASE Lock
  <2>1. call[cpu].at = "user"
    BY <1>1 DEF Lock, InUser, At
  <2>2. PICK m \in usable : Enter("lock", "lockTest", m)
    BY <1>1 DEF Lock
  <2>3. CallInv' /\ Creators' = Creators
    <3>1. m \in Mutex
      BY <2>2 DEF TypeInv, DataInv
    <3>2. CallOK([at |-> "lockTest", op |-> "lock", arg |-> m, i |-> 0])
      BY <3>1 DEF CallOK
    <3> QED BY <2>1, <2>2, <3>1, <3>2, EnterType DEF Ops, Points, Operand
  <2>4. DataInv' /\ HandlerInv'
    BY <1>1 DEF Lock, TypeInv, DataInv, HandlerInv, mutexes
  <2> QED BY <1>1, <2>3, <2>4, CallTypeStep DEF Lock
<1>2. CASE LockTest
  <2>1. /\ call[cpu] \in CallRecord /\ CallOK(call[cpu]) /\ call[cpu].at = "lockTest"
        /\ cpu \in Node
    BY <1>2, AtType DEF LockTest
  <2>2. PICK p \in {"lockBlock", "lockTake"} : Goto(p)
    BY <1>2 DEF LockTest
  <2>3. CallInv' /\ Creators' = Creators
    <3> DEFINE c == [call[cpu] EXCEPT !.at = p]
    <3>1. c \in CallRecord /\ CallOK(c) /\ c.at # "createCount"
      BY <2>1 DEF CallRecord, CallOK, Points
    <3>2. call' = [call EXCEPT ![cpu] = c]
      BY <2>1, <2>2 DEF Goto, TypeInv, CallInv
    <3> HIDE DEF c
    <3> QED BY <2>1, <3>1, <3>2, CallUpdate DEF TypeInv
  <2>4. DataInv' /\ HandlerInv'
    BY <1>2 DEF LockTest, TypeInv, DataInv, HandlerInv, mutexes
  <2> QED BY <1>2, <2>3, <2>4, CallTypeStep DEF LockTest
<1>3. CASE LockBlock
  <2>1. /\ call[cpu].at = "lockBlock" /\ call[cpu].arg \in Mutex /\ current \in Node
        /\ sig = "none"
    BY <1>3, AtType DEF LockBlock, CallOK
  <2>2. CallInv' /\ Creators' = Creators
    BY <1>3, <2>1, GotoType DEF LockBlock
  <2>3. tcb' \in [Node -> Block]
    BY <1>3, <2>1 DEF LockBlock, TypeInv, DataInv, Block, MutexState
  <2>4. DataInv' /\ HandlerInv'
    BY <1>3, <2>1, <2>3 DEF LockBlock, TypeInv, DataInv, HandlerInv, Flags, mutexes
  <2> QED BY <1>3, <2>2, <2>4, CallTypeStep DEF LockBlock
<1>4. CASE LockTake
  <2> DEFINE m == call[cpu].arg
  <2>1. /\ call[cpu].at = "lockTake" /\ m \in Mutex /\ current \in Node /\ cpu \in Node
    BY <1>4, AtType DEF LockTake, CallOK
  <2>2. CallInv' /\ Creators' = Creators
    BY <1>4, <2>1, ReturnToUserType DEF LockTake
  <2>3. mutex' \in [Mutex -> MutexState]
    <3>1. tcb[current].tid \in Tid
      BY <2>1 DEF TypeInv, DataInv, Block
    <3>2. mutex' = [mutex EXCEPT ![m].locked = TRUE, ![m].tid = tcb[current].tid,
                                 ![m].ready_waiting = FALSE]
      BY <1>4 DEF LockTake
    <3>3. mutex \in [Mutex -> MutexState]
      BY DEF TypeInv, DataInv
    <3> HIDE DEF m
    <3> QED BY <2>1, <3>1, <3>2, <3>3 DEF MutexState
  <2>4. holds' \in [Mutex -> SUBSET Node]
    BY <1>4, <2>1 DEF LockTake, TypeInv, DataInv
  <2>5. DataInv' /\ HandlerInv'
    BY <1>4, <2>3, <2>4 DEF LockTake, TypeInv, DataInv, HandlerInv
  <2> QED BY <1>4, <2>2, <2>5, CallTypeStep DEF LockTake, births
<1> QED BY <1>1, <1>2, <1>3, <1>4

LEMMA UnlockTypeStep == ASSUME TypeInv, Unlock PROVE TypeInv'
<1>1. call[cpu].at = "user" /\ cpu \in Node
  BY AtType DEF Unlock, InUser, At
<1>2. PICK m \in usable :
        /\ mutex' = [mutex EXCEPT ![m].locked = FALSE, ![m].tid = -1]
        /\ holds' = [holds EXCEPT ![m] = @ \ {cpu}]
        /\ Enter("unlock", "unlockWake", m)
  BY DEF Unlock
<1>3. m \in Mutex
  BY <1>2 DEF TypeInv, DataInv
<1>4. CallInv' /\ Creators' = Creators
  <2>1. CallOK([at |-> "unlockWake", op |-> "unlock", arg |-> m, i |-> 0])
    BY <1>3 DEF CallOK
  <2> QED BY <1>1, <1>2, <1>3, <2>1, EnterType DEF Ops, Points, Operand
<1>5. mutex' \in [Mutex -> MutexState]
  BY <1>2, <1>3 DEF TypeInv, DataInv, MutexState
<1>6. holds' \in [Mutex -> SUBSET Node]
  BY <1>2, <1>3 DEF TypeInv, DataInv
<1>7. DataInv' /\ HandlerInv'
  BY <1>5, <1>6 DEF Unlock, TypeInv, DataInv, HandlerInv
<1> QED BY <1>4, <1>7, CallTypeStep DEF Unlock, births

\* The waiter that my_pthread_mutex_unlock finds, and the one it dequeues.
LEMMA WaiterType ==
  ASSUME TypeInv, NEW m, Matches(m) # {}
  PROVE  /\ waiting_queue[Top(Matches(m))] \in Node
         /\ Head(waiting_queue) \in Born /\ Tail(waiting_queue) \in Seq(Born)
<1>1. waiting_queue \in Seq(Born) /\ DOMAIN waiting_queue = 1 .. Len(waiting_queue)
  BY LenProperties DEF TypeInv, QueueInv
<1>2. Top(Matches(m)) \in 1 .. Len(waiting_queue)
  <2>1. Matches(m) \in SUBSET Nat /\ Matches(m) \subseteq 1 .. Len(waiting_queue)
    BY <1>1, LenProperties DEF Matches
  <2> QED BY <2>1, TopType
<1>3. waiting_queue[Top(Matches(m))] \in Born
  BY <1>1, <1>2, ElementOfSeq
<1>4. waiting_queue # << >>
  BY <1>2
<1> QED BY <1>1, <1>3, <1>4, BornFacts, HeadTailProperties DEF TypeInv, CountInv

LEMMA UnlockWakeTypeStep == ASSUME TypeInv, UnlockWake PROVE TypeInv'
<1> DEFINE m == call[cpu].arg
           temp == waiting_queue[Top(Matches(m))]
           h == Head(waiting_queue)
<1>1. call[cpu].at = "unlockWake" /\ m \in Mutex /\ cpu \in Node
  BY AtType DEF UnlockWake, CallOK
<1>2. CallInv' /\ Creators' = Creators
  BY <1>1, ReturnToUserType DEF UnlockWake
<1>3. UNCHANGED <<births, join_queue, current, cpu, proc>> /\ Born' = Born
  BY DEF UnlockWake, births, Born
<1>4. /\ tcb' \in [Node -> Block] /\ mutex' \in [Mutex -> MutexState]
      /\ running_qs' \in [Level -> Seq(Born)] /\ waiting_queue' \in Seq(Born)
  <2>1. CASE Matches(m) # {}
    <3>1. /\ tcb' = [tcb EXCEPT ![temp].mid = -1, ![temp].thread_priority = 0]
          /\ mutex' = [mutex EXCEPT ![m].ready_waiting = TRUE]
          /\ running_qs' = [running_qs EXCEPT ![0] = Append(@, h)]
          /\ waiting_queue' = Tail(waiting_queue)
      BY <2>1 DEF UnlockWake
    <3>2. temp \in Node /\ h \in Born /\ waiting_queue' \in Seq(Born)
      BY <2>1, <3>1, WaiterType
    <3> HIDE DEF temp, h
    <3>3. tcb' \in [Node -> Block]
      BY <3>1, <3>2, LevelFacts DEF TypeInv, DataInv, Block
    <3>4. mutex' \in [Mutex -> MutexState]
      BY <1>1, <3>1 DEF TypeInv, DataInv, MutexState
    <3>5. running_qs' \in [Level -> Seq(Born)]
      BY <3>1, <3>2, AppendTop DEF TypeInv, QueueInv
    <3> QED BY <3>2, <3>3, <3>4, <3>5
  <2>2. CASE Matches(m) = {}
    BY <2>2 DEF UnlockWake, TypeInv, DataInv, QueueInv
  <2> QED BY <2>1, <2>2
<1>5. QueueInv'
  BY <1>3, <1>4 DEF TypeInv, QueueInv
<1>6. CountInv'
  BY <1>2, <1>3, CountKept DEF TypeInv
<1>7. DataInv' /\ HandlerInv'
  BY <1>4 DEF UnlockWake, TypeInv, DataInv, HandlerInv
<1> QED BY <1>2, <1>5, <1>6, <1>7 DEF TypeInv

LEMMA MallocTypeStep ==
  ASSUME TypeInv,
         MallocEnter \/ MallocSwaps \/ MallocMeta \/ MallocReturn \/ MallocGivesUp
  PROVE  TypeInv'
<1>1. CASE MallocEnter
  <2>1. call[cpu].at = "user"
    BY <1>1 DEF MallocEnter, InUser, At
  <2>2. CallInv' /\ Creators' = Creators
    BY <1>1, <2>1, EnterType DEF MallocEnter, Ops, Points, Operand, Value, Null, CallOK
  <2>3. DataInv' /\ HandlerInv'
    BY <1>1 DEF MallocEnter, TypeInv, DataInv, HandlerInv, mutexes
  <2> QED BY <1>1, <2>2, <2>3, CallTypeStep DEF MallocEnter
<1>2. CASE MallocReturn
  <2>1. CallInv' /\ Creators' = Creators
    BY <1>2, ReturnToUserType DEF MallocReturn, At
  <2>2. DataInv' /\ HandlerInv'
    BY <1>2 DEF MallocReturn, TypeInv, DataInv, HandlerInv, mutexes
  <2> QED BY <1>2, <2>1, <2>2, CallTypeStep DEF MallocReturn
<1>3. CASE MallocGivesUp
  <2>1. CallInv' /\ Creators' = Creators
    BY <1>3, ReturnToUserType DEF MallocGivesUp, At
  <2>2. DataInv' /\ HandlerInv'
    BY <1>3 DEF MallocGivesUp, TypeInv, DataInv, HandlerInv, mutexes
  <2> QED BY <1>3, <2>1, <2>2, CallTypeStep DEF MallocGivesUp
<1>4. CASE MallocSwaps \/ MallocMeta
  <2>1. CallInv' /\ Creators' = Creators
    BY <1>4 DEF MallocSwaps, MallocMeta, TypeInv, CallInv, Creators
  <2>2. DataInv' /\ HandlerInv'
    BY <1>4 DEF MallocSwaps, MallocMeta, TypeInv, DataInv, HandlerInv, mutexes
  <2> QED BY <1>4, <2>1, <2>2, CallTypeStep DEF MallocSwaps, MallocMeta
<1> QED BY <1>1, <1>2, <1>3, <1>4

LEMMA TypeStep == TypeInv /\ [Next]_vars => TypeInv'
<1> SUFFICES ASSUME TypeInv, [Next]_vars PROVE TypeInv'
  OBVIOUS
<1>1. CASE Library
  BY <1>1, SchedulerTypeStep, DispatchTypeStep, CreateCountTypeStep, ExitWakeTypeStep,
     ExitRecordTypeStep, JoinTypeStep, LockTypeStep, UnlockWakeTypeStep, MallocTypeStep
     DEF Library
<1>2. CASE Client
  BY <1>2, CreateFirstTypeStep, CreateTypeStep, YieldTypeStep, ExitTypeStep, JoinTypeStep,
     OtherTypeStep, LockTypeStep, UnlockTypeStep, MallocTypeStep DEF Client
<1>3. CASE TimerFires \/ Fault \/ Ended \/ UNCHANGED vars
  BY <1>3, OtherTypeStep DEF Ended
<1> QED BY <1>1, <1>2, <1>3 DEF Next

\* Every variable keeps its type in every run, whatever program points SIGALRM may
\* strike: no thread id or node beyond the bound, no queue element, operand or
\* level that does not exist.
THEOREM TypeCorrect == Spec => []TypeOK
<1>1. Spec => []TypeInv
  BY TypeInit, TypeStep, PTL DEF Spec
<1> QED BY <1>1, TypeInvImpliesTypeOK, PTL

===============================================================================

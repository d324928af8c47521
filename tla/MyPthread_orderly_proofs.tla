------------------------ MODULE MyPthread_orderly_proofs ------------------------
(***************************************************************************)
(* The whole library under an orderly client: threads are created, yield,  *)
(* exit, join and lock, SIGALRM strikes at the points where the code       *)
(* withstands it, and the client keeps to the rules of use that Orderly    *)
(* lists.  Then, for any number of threads and levels, no context is lost, *)
(* no NULL pointer is dereferenced, some thread can always run, every join *)
(* delivers the value of the exit and no sleeper is forgotten.             *)
(***************************************************************************)
EXTENDS MyPthread_queue_proofs

\* The rules.  SIGALRM arrives in the client's code or at one of four points of the
\* library; the memory manager does not give up with mem_flag set; main does not
\* exit; no two threads join the same thread, and no joins form a cycle; there is
\* one mutex; it is destroyed under a lock call only if it is never initialised
\* again.
Orderly ==
  /\ Preemptible \subseteq {"user", "malloc", "joinDone", "lockTest", "unlockWake"}
  /\ "mallocFailure" \notin Calls
  /\ 0 \notin MayExit
  /\ \A a, b, t \in Tid : <<a, t>> \in MayJoin /\ <<b, t>> \in MayJoin => a = b
  /\ \E rank \in [Tid -> Nat] :
       \A a, t \in Tid : <<a, t>> \in MayJoin => rank[t] < rank[a]
  /\ \A m, k \in Mutex : m = k
  /\ "destroyInUse" \notin Calls \/ MaxMutexInits <= 1

-----------------------------------------------------------------------------
(* The inductive invariant.                                                *)

\* The threads that have not left the scheduler: these stand in the queues.
Alive    == {n \in Born : ~Gone(n)}
PlaceInv == Hold(Alive)

\* The running thread is current and stands at the front of its level; from
\* updateQueue to the dispatch only the former holds, and not if it exits.
InFront ==
  current = cpu /\ running_qs[Priority] # << >> /\ Head(running_qs[Priority]) = cpu
FrontInv ==
  proc # "init" =>
    /\ Point # "dispatch" => InFront
    /\ Point = "dispatch" /\ fc = "PEXIT" => current = NoNode
    /\ Point = "dispatch" /\ fc # "PEXIT" => current = cpu

\* The points of each function, and those at which a thread waits to run again.
ShapeOK(c) ==
  /\ c.op = "none"   => c.at \in {"user", "unborn"}
  /\ c.op = "create" => c.at \in {"createCount", "update", "dispatch"}
  /\ c.op = "yield"  => c.at \in {"update", "dispatch"}
  /\ c.op = "exit"   => c.at \in {"exitWake", "update", "dispatch", "dead"}
  /\ c.op = "join"   => c.at \in {"joinWait", "update", "dispatch", "joinDone"}
  /\ c.op = "lock"   => c.at \in {"lockTest", "lockBlock", "lockTake", "update", "dispatch"}
  /\ c.op = "unlock" => c.at = "unlockWake"
  /\ c.op = "malloc" => c.at = "malloc"
Resting == {"unborn", "dead", "user", "malloc", "joinDone", "lockTest", "unlockWake"}
ShapeInv ==
  /\ \A n \in Node : ShapeOK(call[n])
  /\ \A n \in Node \ {cpu} : call[n].at \in Resting
  /\ call[cpu].at # "dead"
  /\ \A n \in Node \ Born : call[n].op = "none"

\* What fc says while no handler runs: the function that calls scheduler(), and
\* otherwise nothing, or a TIMER that scheduler() did not serve.
FlagOK(c, f) ==
  /\ c.op = "exit"                      => f = "PEXIT"
  /\ c.op = "yield" /\ c.at = "update"  => f = "YIELD"
  /\ c.op = "join" /\ c.at = "update"   => f = "JOIN"
  /\ c.op = "lock" /\ c.at = "update"   => f = "BLOCKED"
  /\ c.op # "exit" /\ c.at = "dispatch" => f \in {"NONE", "FIRST"}
  /\ c.op # "exit" /\ (c.at = "update" => c.op = "create") => f \in {"NONE", "FIRST", "TIMER"}
FlagInv ==
  /\ sig = "none" => FlagOK(call[cpu], fc)
  /\ sig # "none" => call[cpu].at \in Preemptible
  /\ sig = "update" => fc = "TIMER"
  /\ sig = "dispatch" => fc = "NONE" /\ ~mem_flag
  /\ mem_flag => call[cpu].at = "malloc"

\* Whoever sleeps in the join queue waits for a thread that has not exited, and its
\* block names that thread.
JoinInv ==
  /\ \A n \in Node : call[n].op = "join" =>
       <<n, call[n].arg>> \in MayJoin /\ call[n].arg \in Born
  /\ \A n \in Range(join_queue) :
       /\ call[n].op = "join" /\ call[n].at \in {"joinDone", "dispatch"}
       /\ tcb[n].join_id = call[n].arg /\ exit_list[call[n].arg] = NotExited
  /\ call[cpu].op = "join" /\ call[cpu].at \in {"joinWait", "update"} =>
       exit_list[call[cpu].arg] = NotExited
  /\ call[cpu].op = "join" /\ call[cpu].at = "update" => tcb[cpu].join_id = call[cpu].arg
  /\ call[cpu].op = "join" /\ call[cpu].at = "dispatch" => cpu \in Range(join_queue)

\* The exits recorded are those of the threads past the loop of my_pthread_exit; the
\* loop has not passed over a joiner; whoever was woken has the value of the exit.
Delivered(n) ==
  \/ exit_list[call[n].arg] = tcb[n].value_ptr
  \/ call[cpu].at = "exitWake" /\ cpu = call[n].arg /\ call[cpu].arg = tcb[n].value_ptr
ExitInv ==
  /\ \A n \in Node : exit_list[n] # NotExited <=> call[n].op = "exit" /\ call[n].at # "exitWake"
  /\ \A n \in Node : call[n].op = "exit" => n \in MayExit
  /\ call[cpu].at = "exitWake" =>
       \A k \in 1 .. Len(join_queue) :
         tcb[join_queue[k]].join_id = cpu => k <= Len(join_queue) - call[cpu].i
  /\ \A n \in Node : call[n].at = "joinDone" => n \in Range(join_queue) \/ Delivered(n)

\* A mutex is initialised no more once a thread is inside a call on it.
Touched(m) == m \in usable \/ (MaxMutexInits <= 1 /\ mutex_count > 0)
MidInv ==
  /\ usable # {} => mutex_count > 0
  /\ MaxMutexInits <= 1 => \A m \in Mutex : mutex[m].mid = 0

\* A mutex is locked by the thread it names, which is not blocked; whoever sleeps for
\* it is inside a lock call, and its block has the number of the mutex.
HoldInv ==
  /\ \A m \in Mutex : \A n \in holds[m] :
       /\ n \in Born /\ Touched(m) /\ mutex[m].locked /\ mutex[m].tid = n
       /\ call[n].op \notin {"lock", "join", "exit"}
  /\ \A m \in Mutex : mutex[m].locked => holds[m] # {}
WaitInv ==
  /\ \A n \in Node : call[n].op \in {"lock", "unlock"} => Touched(call[n].arg)
  /\ call[cpu].at = "lockTake" => ~mutex[call[cpu].arg].locked
  /\ call[cpu].op = "lock" /\ call[cpu].at \in {"lockBlock", "update"} =>
       mutex[call[cpu].arg].locked
  /\ call[cpu].op = "lock" /\ call[cpu].at = "update" =>
       tcb[cpu].mid = mutex[call[cpu].arg].mid
  /\ \A n \in Range(waiting_queue) :
       /\ call[n].op = "lock" /\ call[n].at \in {"lockTest", "dispatch"}
       /\ tcb[n].mid = mutex[call[n].arg].mid

\* Every sleeper is behind a locked mutex or a thread that is about to look at it.
WakerInv ==
  \A n \in Range(waiting_queue) :
    \/ mutex[call[n].arg].locked
    \/ \E k \in Node \ Range(waiting_queue) :
         call[k].op \in {"lock", "unlock"} /\ call[k].arg = call[n].arg

\* Before the first my_pthread_create there is no timer.
StartInv == proc = "init" => sig = "none"

OrderInv ==
  /\ StartInv /\ PlaceInv /\ RunnableInItsLevel /\ FrontInv /\ ShapeInv /\ FlagInv
  /\ JoinInv /\ ExitInv /\ MidInv /\ HoldInv /\ WaitInv /\ WakerInv

\* With the invariants of the other modules.
InOrder == TypeInv /\ IdInv /\ OrderInv

-----------------------------------------------------------------------------
(* Reading the invariant.                                                  *)

\* The thread that runs, outside the moment of the dispatch.
LEMMA Runs ==
  ASSUME InOrder, proc = "run", Point # "dispatch"
  PROVE  /\ current = cpu /\ current # NoNode /\ cpu \in Born /\ cpu \in Node
         /\ Priority \in Level /\ Queued /\ Head(running_qs[Priority]) = cpu
         /\ cpu \in Range(running_qs[Priority])
         /\ cpu \notin Range(waiting_queue) /\ cpu \notin Range(join_queue)
         /\ tcb[cpu].tid = cpu
<1>1. InFront
  BY DEF InOrder, OrderInv, FrontInv
<1>2. current = cpu /\ cpu \in Born /\ cpu \in Node /\ current # NoNode
  BY <1>1, BornFacts DEF InFront, InOrder, TypeInv, QueueInv, CountInv
<1>3. Priority \in Level /\ Queued /\ Head(running_qs[Priority]) = cpu
  BY <1>1, <1>2, PriorityType DEF InOrder, InFront, Queued
<1>4. /\ running_qs \in [Level -> Seq(Born)]
      /\ Parted(running_qs, waiting_queue, join_queue)
  BY DEF InOrder, OrderInv, PlaceInv, Hold, Holding
<1>5. cpu \in Range(running_qs[Priority])
  BY <1>3, <1>4, TailDistinct DEF Parted, Queued
<1> HIDE DEF Range
<1>6. cpu \in Members(running_qs)
  BY <1>3, <1>5, InMembers
<1>7. cpu \notin Range(waiting_queue) /\ cpu \notin Range(join_queue)
  BY <1>4, <1>6 DEF Parted
<1>8. tcb[cpu].tid = cpu
  BY <1>2 DEF InOrder, IdInv, NumberedIds
<1> QED BY <1>2, <1>3, <1>5, <1>7, <1>8

\* A step that moves the running thread to another point of the same function.
LEMMA GotoIs ==
  ASSUME TypeInv, NEW p, Goto(p)
  PROVE  /\ call'[cpu].at = p /\ call'[cpu].op = call[cpu].op
         /\ call'[cpu].arg = call[cpu].arg /\ call'[cpu].i = call[cpu].i
         /\ \A n \in Node \ {cpu} : call'[n] = call[n]
BY CallFacts DEF Goto, CallRecord

LEMMA EnterIs ==
  ASSUME TypeInv, NEW o, NEW p, NEW a, Enter(o, p, a)
  PROVE  /\ call'[cpu].at = p /\ call'[cpu].op = o
         /\ call'[cpu].arg = a /\ call'[cpu].i = 0
         /\ \A n \in Node \ {cpu} : call'[n] = call[n]
BY CallFacts DEF Enter

LEMMA ReturnIs ==
  ASSUME TypeInv, ReturnToUser
  PROVE  /\ call'[cpu].at = "user" /\ call'[cpu].op = "none"
         /\ \A n \in Node \ {cpu} : call'[n] = call[n]
BY CallFacts DEF ReturnToUser, Idle

\* Whoever has left the scheduler has exited.
LEMMA GoneExits ==
  ASSUME InOrder, proc # "init", NEW n \in Node, Gone(n)
  PROVE  call[n].op = "exit" /\ call[n].at # "exitWake"
<1>1. call \in [Node -> CallRecord] /\ call[n].op \in Ops /\ ShapeOK(call[n])
  BY DEF InOrder, TypeInv, CallInv, CallRecord, OrderInv, ShapeInv
<1>2. CASE call[n].at = "dead"
  BY <1>1, <1>2 DEF ShapeOK, Ops
<1>3. CASE n = cpu /\ current = NoNode
  <2>1. Point = "dispatch" /\ fc = "PEXIT"
    BY <1>3 DEF InOrder, OrderInv, FrontInv, InFront, TypeInv, QueueInv, Node, NoNode
  <2>2. sig = "none"
    BY <2>1 DEF InOrder, TypeInv, HandlerInv
  <2>3. call[cpu].at = "dispatch" /\ FlagOK(call[cpu], fc)
    BY <2>1, <2>2 DEF Point, InOrder, OrderInv, FlagInv
  <2> QED BY <1>1, <1>3, <2>1, <2>3 DEF FlagOK
<1> QED BY <1>2, <1>3 DEF Gone

\* Whoever has not, and is not in a level, sleeps.
LEMMA AliveStands ==
  ASSUME InOrder, proc # "init", NEW n \in Born, call[n].op # "exit" \/ call[n].at = "exitWake",
         \A l \in Level : running_qs[l] = << >>
  PROVE  n \in Range(waiting_queue) \/ n \in Range(join_queue)
<1>1. n \in Node
  BY BornFacts DEF InOrder, TypeInv, CountInv
<1>2. n \in Alive
  BY <1>1, GoneExits DEF Alive
<1>3. Standing(running_qs, waiting_queue, join_queue) = Alive
  BY DEF InOrder, OrderInv, PlaceInv, Hold, Holding
<1>4. \A l \in Level : Range(running_qs[l]) = {}
  BY DEF Range
<1> HIDE DEF Range
<1>5. n \notin Members(running_qs)
  BY <1>4, InMembers
<1> QED BY <1>2, <1>3, <1>5 DEF Standing

\* Some thread can always run: a sleeper of the waiting queue waits for one that is
\* not asleep, and of the threads that have not exited the one of least rank does
\* not sleep in the join queue.
LEMMA SomebodyRuns ==
  ASSUME Orderly, InOrder, proc = "run"
  PROVE  Occupied # {}
<1> SUFFICES ASSUME Occupied = {} PROVE FALSE
  OBVIOUS
<1>1. \A l \in Level : running_qs[l] = << >>
  BY DEF Occupied
<1>2. /\ call \in [Node -> CallRecord] /\ \A n \in Node : call[n].op \in Ops
      /\ Born \subseteq Node /\ 0 \in Born /\ nodeCount \in Nat
  BY BornFacts DEF InOrder, TypeInv, CallInv, QueueInv, CountInv, CallRecord, Born
<1>3. /\ running_qs \in [Level -> Seq(Born)] /\ waiting_queue \in Seq(Born)
      /\ join_queue \in Seq(Born)
  BY DEF InOrder, TypeInv, QueueInv
<1>4. Range(waiting_queue) \subseteq Born /\ Range(join_queue) \subseteq Born
  BY <1>3, RangeOf
<1> HIDE DEF Range
<1>5. /\ \A n \in Range(waiting_queue) : call[n].op = "lock"
      /\ \A n \in Range(join_queue) : call[n].op = "join"
  BY DEF InOrder, OrderInv, WaitInv, JoinInv
<1>6. \A n \in Born : \/ call[n].op = "exit" /\ call[n].at # "exitWake"
                      \/ n \in Range(waiting_queue) \/ n \in Range(join_queue)
  BY <1>1, AliveStands
<1>7. Range(waiting_queue) = {}
  <2> SUFFICES ASSUME NEW n \in Range(waiting_queue) PROVE FALSE
    OBVIOUS
  <2>1. n \in Node /\ call[n].arg \in Mutex
    BY <1>2, <1>4, <1>5 DEF InOrder, TypeInv, CallInv, CallOK
  <2>2. CASE mutex[call[n].arg].locked
    <3>1. PICK k \in holds[call[n].arg] : k \in Born /\ call[k].op \notin {"lock", "join", "exit"}
      BY <2>1, <2>2 DEF InOrder, OrderInv, HoldInv
    <3> QED BY <1>5, <1>6, <3>1
  <2>3. CASE \E k \in Node \ Range(waiting_queue) : call[k].op \in {"lock", "unlock"}
    <3>1. PICK k \in Node \ Range(waiting_queue) : call[k].op \in {"lock", "unlock"}
      BY <2>3
    <3>2. k \in Born
      BY <3>1 DEF InOrder, OrderInv, ShapeInv
    <3> QED BY <1>5, <1>6, <3>1, <3>2
  <2> QED BY <2>2, <2>3 DEF InOrder, OrderInv, WakerInv
<1> DEFINE Sleepers == Range(join_queue)
<1>8. PICK rank \in [Tid -> Nat] : \A a, t \in Tid : <<a, t>> \in MayJoin => rank[t] < rank[a]
  BY DEF Orderly
<1>9. 0 \in Sleepers
  <2>1. call[0].op # "exit"
    BY <1>2 DEF Orderly, InOrder, OrderInv, ExitInv
  <2> QED BY <1>2, <1>6, <1>7, <2>1
<1>10. Sleepers \subseteq Tid /\ Node = Tid
  BY <1>2, <1>4 DEF Node, Tid
<1>11. ASSUME NEW n \in Sleepers PROVE \E t \in Sleepers : rank[t] < rank[n]
  <2>1. /\ n \in Tid /\ call[n].op = "join" /\ exit_list[call[n].arg] = NotExited
        /\ <<n, call[n].arg>> \in MayJoin /\ call[n].arg \in Born /\ call[n].arg \in Tid
    BY <1>2, <1>10, <1>11 DEF InOrder, OrderInv, JoinInv
  <2>2. call[n].arg \in Sleepers
    BY <1>2, <1>6, <1>7, <2>1 DEF InOrder, OrderInv, ExitInv
  <2> QED BY <1>8, <2>1, <2>2
<1> DEFINE Ranks == {rank[n] : n \in Sleepers}
<1>12. Ranks \in SUBSET Nat /\ Ranks # {}
  BY <1>9, <1>10
<1>13. PICK r \in Ranks : \A k \in Ranks : r <= k
  <2> HIDE DEF Ranks
  <2> QED BY <1>12, SmallestElement
<1>14. PICK n \in Sleepers : rank[n] = r
  BY <1>13
<1>15. PICK t \in Sleepers : rank[t] < rank[n]
  BY <1>11, <1>14
<1>16. rank[t] \in Ranks /\ rank[t] \in Nat /\ r \in Nat
  BY <1>10, <1>12, <1>13, <1>15
<1> QED BY <1>13, <1>14, <1>15, <1>16

\* The front of the highest occupied level, if it is the current thread.
LEMMA FrontRuns ==
  ASSUME InOrder, Occupied # {}
  PROVE  /\ Top(Occupied) \in Level /\ running_qs[Top(Occupied)] # << >>
         /\ FrontIsCurrent => /\ Head(running_qs[Top(Occupied)]) = current
                              /\ Priority = Top(Occupied) /\ Queued
<1> DEFINE top == Top(Occupied)
           h == Head(running_qs[top])
<1>1. top \in Occupied /\ Occupied \subseteq Level
  <2>1. Occupied \in SUBSET Nat /\ Occupied \subseteq Level
    BY LevelFacts DEF Occupied
  <2> HIDE DEF Occupied
  <2> QED BY <2>1, TopType
<1>2. top \in Level /\ running_qs[top] # << >>
  BY <1>1 DEF Occupied
<1>3. h \in Range(running_qs[top]) /\ h \in Born
  <2> HIDE DEF top
  <2> QED BY <1>2, TailDistinct DEF InOrder, OrderInv, PlaceInv, Hold, Holding, Parted
<1> HIDE DEF top, h, Range
<1>4. tcb[h].thread_priority = top /\ tcb[h].tid = h
  BY <1>2, <1>3 DEF InOrder, OrderInv, RunnableInItsLevel, IdInv, NumberedIds
<1>5. ASSUME FrontIsCurrent PROVE h = current
  <2>1. current # NoNode /\ tcb[h].tid = tcb[current].tid
    BY <1>5 DEF FrontIsCurrent, h, top
  <2> QED BY <1>4, <2>1 DEF InOrder, IdInv, NumberedIds, TypeInv, QueueInv
<1> QED BY <1>2, <1>4, <1>5 DEF h, top, Priority, Queued, FrontIsCurrent

\* The context that the dispatch picks stands in a level, and after the step it
\* stands at the front of it.
LEMMA PickedInFront ==
  ASSUME InOrder, Dispatch
  PROVE  /\ NewContext \in Alive
         /\ \E l \in Level : /\ tcb[NewContext].thread_priority = l
                             /\ AfterPick[l] # << >> /\ Head(AfterPick[l]) = NewContext
<1> DEFINE top == Top(Occupied)
           q == running_qs[top]
           below == {l \in Occupied : l > top}
<1>1. /\ top \in Level /\ q # << >>
      /\ FrontIsCurrent => Head(q) = current /\ Priority = top /\ Queued
  BY FrontRuns DEF Dispatch
<1>2. /\ running_qs \in [Level -> Seq(Born)] /\ q \in Seq(Born)
      /\ Standing(running_qs, waiting_queue, join_queue) = Alive
  BY <1>1 DEF InOrder, OrderInv, PlaceInv, Hold, Holding
<1>3. \A l \in Level : \A n \in Range(running_qs[l]) : tcb[n].thread_priority = l /\ n \in Alive
  <2> SUFFICES ASSUME NEW l \in Level, NEW n \in Range(running_qs[l])
               PROVE  tcb[n].thread_priority = l /\ n \in Alive
    OBVIOUS
  <2> HIDE DEF Range
  <2>1. n \in Members(running_qs)
    BY InMembers
  <2> QED BY <1>2, <2>1 DEF InOrder, OrderInv, RunnableInItsLevel, Standing
<1>4. ASSUME NEW l \in Level, running_qs[l] # << >>
      PROVE  /\ Head(running_qs[l]) \in Alive
             /\ tcb[Head(running_qs[l])].thread_priority = l
  <2>1. running_qs[l] \in Seq(Born) /\ Distinct(running_qs[l])
    BY <1>2 DEF InOrder, OrderInv, PlaceInv, Hold, Holding, Parted
  <2>2. Head(running_qs[l]) \in Range(running_qs[l])
    BY <1>4, <2>1, TailDistinct
  <2> HIDE DEF Range
  <2> QED BY <1>3, <2>2
<1>5. CASE ~FrontIsCurrent
  <2>1. NewContext = Head(q) /\ AfterPick = running_qs
    BY <1>5 DEF NewContext, AfterPick
  <2> HIDE DEF top
  <2> QED BY <1>1, <1>4, <2>1
<1>6. CASE FrontIsCurrent
  <2>1. /\ AfterPick = Rotated /\ Head(q) = current /\ Priority = top
    BY <1>1, <1>6 DEF AfterPick
  <2>2. /\ Rotated[top] = Append(Tail(q), Head(q))
        /\ \A l \in Level \ {top} : Rotated[l] = running_qs[l]
    BY <1>1, <1>2, <2>1 DEF Rotated
  <2>3. /\ Len(q) \in Nat /\ Len(q) > 0 /\ Head(q) = q[1] /\ Tail(q) \in Seq(Born)
        /\ Len(Tail(q)) = Len(q) - 1 /\ Head(q) \in Born
        /\ \A i \in 1 .. Len(q) - 1 : Tail(q)[i] = q[i + 1]
    <3> HIDE DEF q
    <3> QED BY <1>1, <1>2, HeadTailProperties
  <2>4. /\ Append(Tail(q), Head(q)) # << >>
        /\ Len(q) > 1 => Head(Append(Tail(q), Head(q))) = q[2]
        /\ Len(q) = 1 => Head(Append(Tail(q), Head(q))) = Head(q)
    <3> DEFINE r == Append(Tail(q), Head(q))
    <3> HIDE DEF q
    <3>1. /\ r \in Seq(Born) /\ Len(r) = Len(q)
          /\ \A i \in 1 .. Len(q) - 1 : r[i] = q[i + 1]
          /\ r[Len(q)] = Head(q)
      BY <2>3, AppendProperties
    <3> HIDE DEF r
    <3>2. r # << >> /\ Head(r) = r[1]
      BY <2>3, <3>1
    <3>3. Len(q) > 1 => r[1] = q[2]
      BY <2>3, <3>1
    <3>4. Len(q) = 1 => r[1] = Head(q)
      BY <2>3, <3>1
    <3> QED BY <3>2, <3>3, <3>4 DEF r
  <2>5. CASE Len(q) > 1
    <3>1. NewContext = q[2]
      BY <1>6, <2>5 DEF NewContext
    <3>2. q[2] \in Range(q)
      <4> HIDE DEF q
      <4>1. q[2] \in {q[i] : i \in 1 .. Len(q)}
        BY <2>3, <2>5
      <4> QED BY <1>2, <4>1, RangeOf
    <3> HIDE DEF Range
    <3>3. q[2] \in Alive /\ tcb[q[2]].thread_priority = top
      BY <1>1, <1>3, <3>2
    <3> HIDE DEF q, top
    <3> QED BY <1>1, <2>1, <2>2, <2>4, <2>5, <3>1, <3>3
  <2>6. CASE Len(q) = 1 /\ below # {}
    <3>1. NewContext = Head(running_qs[Top(below)])
      BY <1>6, <2>6 DEF NewContext
    <3>2. Top(below) \in below
      <4>1. below \in SUBSET Nat
        BY LevelFacts DEF Occupied
      <4> HIDE DEF below
      <4> QED BY <2>6, <4>1, TopType
    <3>3. Top(below) \in Level \ {top} /\ running_qs[Top(below)] # << >>
      <4>1. \A l \in below : l \in Level /\ l > top /\ running_qs[l] # << >>
        BY DEF Occupied
      <4>2. \A l \in Level : l > top => l # top
        BY LevelFacts
      <4> HIDE DEF below, top
      <4> QED BY <3>2, <4>1, <4>2
    <3> HIDE DEF top, below
    <3> QED BY <1>4, <2>1, <2>2, <3>1, <3>3
  <2>7. CASE Len(q) = 1 /\ below = {}
    <3>1. NewContext = current
      BY <1>6, <2>7 DEF NewContext
    <3> HIDE DEF top
    <3> QED BY <1>1, <1>4, <2>1, <2>2, <2>4, <2>7, <3>1
  <2> HIDE DEF q, below
  <2>8. Len(q) > 1 \/ Len(q) = 1
    BY <2>3
  <2> QED BY <2>5, <2>6, <2>7, <2>8
<1> QED BY <1>5, <1>6

\* None of the NULL pointers is met.
LEMMA NoNull ==
  ASSUME InOrder, proc = "run"
  PROVE  ~NullDereference
<1>1. CASE Point # "dispatch"
  <2>1. current # NoNode /\ Queued
    BY <1>1, Runs
  <2> QED BY <1>1, <2>1 DEF NullDereference, Queued
<1>2. CASE Point = "dispatch"
  <2>1. Occupied # {} /\ FrontIsCurrent => running_qs[Priority] # << >>
    BY FrontRuns DEF Queued
  <2>2. current = NoNode => fc = "PEXIT"
    BY <1>2, CallFacts DEF InOrder, OrderInv, FrontInv, TypeInv, QueueInv, Node, NoNode
  <2>3. sig = "none" => call[cpu].at = "dispatch"
    BY <1>2 DEF Point
  <2> QED BY <1>2, <2>1, <2>2, <2>3 DEF NullDereference, At
<1> QED BY <1>1, <1>2

-----------------------------------------------------------------------------
(* The points of the calls, and the flags.                                 *)

\* The facts of the invariant about the call of the running thread.
LEMMA CpuFacts ==
  ASSUME Orderly, InOrder
  PROVE  /\ TypeInv /\ cpu \in Node /\ call[cpu] \in CallRecord
         /\ call[cpu].op \in Ops /\ call[cpu].at \in Points
         /\ ShapeOK(call[cpu]) /\ FlagInv /\ fc \in Flags /\ mem_flag \in BOOLEAN
         /\ sig \in {"none", "update", "dispatch"}
         /\ call[cpu].at \in Preemptible => call[cpu].at \in Resting \ {"unborn", "dead"}
BY CallFacts DEF InOrder, CallRecord, OrderInv, ShapeInv, TypeInv, DataInv, Orderly, Resting

\* A step of scheduler() that goes on to the dispatch.
LEMMA ToDispatchPoint ==
  ASSUME Orderly, InOrder, Point = "update", ToDispatch,
         ~mem_flag, ~mem_flag', cpu' = cpu, fc' \in {"NONE", "FIRST", "PEXIT"},
         fc' = "FIRST" => fc = "FIRST",
         fc' = "PEXIT" <=> fc = "PEXIT"
  PROVE  ShapeOK(call'[cpu]) /\ call'[cpu].at # "dead" /\ FlagInv'
<1>1. CASE sig = "none"
  <2>1. Goto("dispatch") /\ sig' = "none" /\ call[cpu].at = "update"
    BY <1>1 DEF ToDispatch, Point
  <2>2. /\ call'[cpu].at = "dispatch" /\ call'[cpu].op = call[cpu].op
    BY <2>1, GotoIs, CpuFacts
  <2>3. fc = "PEXIT" <=> call[cpu].op = "exit"
    BY <1>1, <2>1, CpuFacts DEF FlagInv, FlagOK, ShapeOK, Ops
  <2>4. ShapeOK(call'[cpu])
    BY <2>1, <2>2, CpuFacts DEF ShapeOK, Ops
  <2> QED BY <2>1, <2>2, <2>3, <2>4 DEF FlagInv, FlagOK
<1>2. CASE sig # "none"
  <2>1. sig = "update" /\ sig' = "dispatch" /\ call' = call /\ fc = "TIMER"
    BY <1>2, CpuFacts DEF ToDispatch, Point, FlagInv
  <2>2. call[cpu].at \in Preemptible /\ call[cpu].at # "dead"
    BY <1>2, CpuFacts DEF FlagInv
  <2> QED BY <2>1, <2>2, CpuFacts DEF FlagInv
<1> QED BY <1>1, <1>2

LEMMA PointStep ==
  ASSUME Orderly, InOrder, [Next]_vars, ~CreateFirst, ~Create, ~Dispatch
  PROVE  ShapeOK(call'[cpu]) /\ call'[cpu].at # "dead" /\ FlagInv' /\ cpu' = cpu
<1>1. /\ TypeInv /\ call[cpu].op \in Ops /\ ShapeOK(call[cpu]) /\ FlagInv /\ call[cpu].at # "dead"
  BY CpuFacts DEF InOrder, OrderInv, ShapeInv
<1>2. CASE SchedulerBusy
  <2>1. mem_flag /\ Point = "update" /\ ReturnFromScheduler
        /\ UNCHANGED <<fc, cpu, mem_flag>>
    BY <1>2 DEF SchedulerBusy
  <2>2. call[cpu].at = "malloc" /\ sig = "update" /\ fc = "TIMER"
    BY <1>1, <2>1 DEF FlagInv, Point
  <2>3. sig' = "none" /\ call' = call
    BY <2>1, <2>2 DEF ReturnFromScheduler
  <2>4. call[cpu].op = "malloc"
    BY <1>1, <2>2 DEF ShapeOK, Ops
  <2> QED BY <1>1, <2>1, <2>2, <2>3, <2>4 DEF FlagInv, FlagOK
<1>3. CASE SwitchNone
  <2>1. ~mem_flag /\ fc = "NONE" /\ Point = "update" /\ ReturnFromScheduler
        /\ UNCHANGED <<fc, cpu, mem_flag>>
    BY <1>3 DEF SwitchNone, InSwitch
  <2>2. sig = "none" /\ call[cpu].at = "update" /\ call[cpu].op = "create"
    BY <1>1, <2>1, CpuFacts DEF FlagInv, FlagOK, Point, ShapeOK, Ops
  <2>3. sig' = "none" /\ call'[cpu] = Idle
    BY <2>1, <2>2, CallFacts, <1>1 DEF ReturnFromScheduler, Resumed
  <2> QED BY <2>1, <2>3 DEF FlagInv, FlagOK, ShapeOK, Idle
<1>4. CASE SwitchFirst
  BY <1>4, ToDispatchPoint DEF SwitchFirst, InSwitch
<1>5. CASE SwitchTimer
  BY <1>5, ToDispatchPoint DEF SwitchTimer, InSwitch
<1>6. CASE SwitchYield
  BY <1>6, ToDispatchPoint DEF SwitchYield, InSwitch
<1>7. CASE SwitchExit
  BY <1>7, ToDispatchPoint DEF SwitchExit, InSwitch
<1>8. CASE SwitchJoin
  BY <1>8, ToDispatchPoint DEF SwitchJoin, InSwitch
<1>9. CASE SwitchBlocked
  BY <1>9, ToDispatchPoint DEF SwitchBlocked, InSwitch
<1>10. CASE DispatchNone \/ Fault
  BY <1>10, SomebodyRuns, NoNull DEF DispatchNone, Fault
<1>11. CASE CreateCount \/ ExitRecord \/ JoinWait \/ LockBlock
  <2>1. Goto("update") /\ UNCHANGED <<sig, cpu, mem_flag>> /\ sig = "none"
        /\ call[cpu].at \in {"createCount", "exitWake", "joinWait", "lockBlock"}
    BY <1>11 DEF CreateCount, ExitRecord, JoinWait, LockBlock, At
  <2>2. call'[cpu].at = "update" /\ call'[cpu].op = call[cpu].op
    BY <1>1, <2>1, GotoIs
  <2>3. call[cpu].op \in {"create", "exit", "join", "lock"}
    BY <1>1, <2>1 DEF ShapeOK, Ops
  <2>4. /\ call[cpu].op = "create" => fc' = fc /\ fc \in {"NONE", "FIRST", "TIMER"}
        /\ call[cpu].op = "exit" => fc' = "PEXIT"
        /\ call[cpu].op = "join" => fc' = "JOIN"
        /\ call[cpu].op = "lock" => fc' = "BLOCKED"
    BY <1>1, <1>11, <2>1, <2>3
       DEF CreateCount, ExitRecord, JoinWait, LockBlock, At, ShapeOK, FlagInv, FlagOK
  <2>5. ~mem_flag
    BY <1>1, <2>1 DEF FlagInv
  <2> QED BY <2>1, <2>2, <2>3, <2>4, <2>5 DEF FlagInv, FlagOK, ShapeOK
<1>12. CASE LockTest
  <2>1. (\E p \in {"lockBlock", "lockTake"} : Goto(p)) /\ UNCHANGED <<sig, cpu, mem_flag, fc>>
        /\ sig = "none" /\ call[cpu].at = "lockTest"
    BY <1>12 DEF LockTest, At
  <2>2. call'[cpu].at \in {"lockBlock", "lockTake"} /\ call'[cpu].op = call[cpu].op
    BY <1>1, <2>1, GotoIs
  <2>3. call[cpu].op = "lock"
    BY <1>1, <2>1 DEF ShapeOK, Ops
  <2> QED BY <1>1, <2>1, <2>2, <2>3 DEF FlagInv, FlagOK, ShapeOK
<1>13. CASE JoinReturn \/ LockTake \/ UnlockWake \/ MallocReturn
  <2>1. ReturnToUser /\ UNCHANGED <<sig, cpu, fc>> /\ sig = "none" /\ ~mem_flag'
        /\ call[cpu].at \in {"joinDone", "lockTake", "unlockWake", "malloc"}
    BY <1>1, <1>13 DEF JoinReturn, LockTake, UnlockWake, MallocReturn, At, FlagInv
  <2>2. call'[cpu].at = "user" /\ call'[cpu].op = "none"
    BY <1>1, <2>1, ReturnIs
  <2>3. call[cpu].op # "exit"
    BY <1>1, <2>1 DEF ShapeOK
  <2> QED BY <1>1, <2>1, <2>2, <2>3 DEF FlagInv, FlagOK, ShapeOK
<1>14. CASE MallocGivesUp
  BY <1>14 DEF MallocGivesUp, Orderly
<1>15. CASE MallocSwaps \/ MallocMeta
  <2>1. call' = call /\ call[cpu].at = "malloc" /\ sig = "none" /\ UNCHANGED <<sig, cpu, fc>>
    BY <1>15 DEF MallocSwaps, MallocMeta, At
  <2> QED BY <1>1, <2>1 DEF FlagInv, FlagOK
<1>16. CASE ExitWake
  <2>1. /\ call[cpu].at = "exitWake" /\ sig = "none" /\ UNCHANGED <<sig, cpu, fc, mem_flag>>
        /\ call'[cpu] = [call[cpu] EXCEPT !.i = @ + 1]
    BY <1>1, <1>16, CallFacts DEF ExitWake, At
  <2>2. call'[cpu].at = "exitWake" /\ call'[cpu].op = call[cpu].op
    BY <2>1, CpuFacts DEF CallRecord
  <2> QED BY <1>1, <2>1, <2>2 DEF FlagInv, FlagOK, ShapeOK
<1>17. CASE Yield \/ Exit \/ Join \/ Lock \/ Unlock \/ MallocEnter
  <2>1. /\ UNCHANGED <<sig, cpu>> /\ sig = "none" /\ call[cpu].at = "user"
    BY <1>17 DEF Yield, Exit, Join, Lock, Unlock, MallocEnter, InUser, At
  <2>2. fc \in {"NONE", "FIRST", "TIMER"} /\ ~mem_flag
    BY <1>1, <2>1 DEF FlagInv, FlagOK, ShapeOK
  <2>3. \/ fc' = "YIELD" /\ mem_flag' = mem_flag /\ \E a : Enter("yield", "update", a)
        \/ fc' = "PEXIT" /\ ~mem_flag' /\ \E a : Enter("exit", "exitWake", a)
        \/ fc' = fc /\ mem_flag' = mem_flag /\ \E a : Enter("join", "joinWait", a)
        \/ fc' = fc /\ mem_flag' = mem_flag /\ \E a : Enter("lock", "lockTest", a)
        \/ fc' = fc /\ mem_flag' = mem_flag /\ \E a : Enter("unlock", "unlockWake", a)
        \/ fc' = fc /\ \E a : Enter("malloc", "malloc", a)
    BY <1>17 DEF Yield, Exit, Join, Lock, Unlock, MallocEnter
  <2>4. \/ fc' = "YIELD" /\ ~mem_flag' /\ call'[cpu].op = "yield" /\ call'[cpu].at = "update"
        \/ fc' = "PEXIT" /\ ~mem_flag' /\ call'[cpu].op = "exit" /\ call'[cpu].at = "exitWake"
        \/ fc' = fc /\ ~mem_flag' /\ call'[cpu].op = "join" /\ call'[cpu].at = "joinWait"
        \/ fc' = fc /\ ~mem_flag' /\ call'[cpu].op = "lock" /\ call'[cpu].at = "lockTest"
        \/ fc' = fc /\ ~mem_flag' /\ call'[cpu].op = "unlock" /\ call'[cpu].at = "unlockWake"
        \/ fc' = fc /\ call'[cpu].op = "malloc" /\ call'[cpu].at = "malloc"
    BY <1>1, <2>2, <2>3, EnterIs
  <2> QED BY <2>1, <2>2, <2>4 DEF FlagInv, FlagOK, ShapeOK
<1>18. CASE TimerFires
  <2>1. call' = call /\ cpu' = cpu /\ mem_flag' = mem_flag /\ sig' = "update" /\ fc' = "TIMER"
        /\ call[cpu].at \in Preemptible
    BY <1>18 DEF TimerFires, Point
  <2> QED BY <1>1, <2>1 DEF FlagInv
<1>19. CASE MainReturns \/ MutexInit \/ MutexDestroy \/ Ended \/ UNCHANGED vars
  <2>1. UNCHANGED <<call, cpu, mem_flag, sig, fc>>
    BY <1>19 DEF MainReturns, MutexInit, MutexDestroy, Ended, vars
  <2> QED BY <1>1, <2>1 DEF FlagInv
<1> QED BY <1>2, <1>3, <1>4, <1>5, <1>6, <1>7, <1>8, <1>9, <1>10, <1>11, <1>12, <1>13, <1>14,
           <1>15, <1>16, <1>17, <1>18, <1>19 DEF Next, Library, Client

-----------------------------------------------------------------------------
(* What a step leaves alone.                                               *)

\* The maintenance changes nothing in a block but its priority.
LEMMA PromotedFields ==
  ASSUME NEW blocks \in [Node -> Block], NEW level, NEW n \in Node
  PROVE  /\ Promoted(blocks, level)[n].join_id = blocks[n].join_id
         /\ Promoted(blocks, level)[n].value_ptr = blocks[n].value_ptr
         /\ Promoted(blocks, level)[n].mid = blocks[n].mid
<1>1. blocks[n] \in Block
  OBVIOUS
<1>2. Promoted(blocks, level)[n] = IF n \in Range(level)
                                   THEN [blocks[n] EXCEPT !.thread_priority = 0] ELSE blocks[n]
  BY DEF Promoted
<1> HIDE DEF Range
<1> QED BY <1>1, <1>2 DEF Block

\* join_id, value_ptr and mid are written at one or two places each.
LEMMA BlocksKept ==
  ASSUME TypeInv, [Next]_vars, ~CreateFirst, ~Create, NEW n \in Node
  PROVE  /\ ~JoinWait => tcb'[n].join_id = tcb[n].join_id
         /\ ~ExitWake => tcb'[n].value_ptr = tcb[n].value_ptr
         /\ ~LockBlock /\ ~UnlockWake => tcb'[n].mid = tcb[n].mid
<1>1. tcb \in [Node -> Block] /\ tcb[n] \in Block
  BY DEF TypeInv, DataInv
<1>2. CASE \/ SchedulerBusy \/ SwitchNone \/ SwitchFirst \/ Dispatch \/ DispatchNone
           \/ CreateCount \/ ExitRecord \/ JoinReturn \/ LockTest \/ LockTake
           \/ MallocSwaps \/ MallocMeta \/ MallocReturn \/ MallocGivesUp
  BY <1>2 DEF SchedulerBusy, SwitchNone, SwitchFirst, Dispatch, DispatchNone, CreateCount,
              ExitRecord, JoinReturn, LockTest, LockTake, MallocSwaps, MallocMeta, MallocReturn,
              MallocGivesUp
<1>3. CASE \/ Yield \/ Exit \/ Join \/ MainReturns \/ MutexInit \/ Lock \/ Unlock
           \/ MutexDestroy \/ MallocEnter \/ TimerFires \/ Fault \/ Ended \/ UNCHANGED vars
  BY <1>3 DEF Yield, Exit, Join, MainReturns, MutexInit, Lock, Unlock, MutexDestroy,
              MallocEnter, TimerFires, Fault, Ended, vars
<1>4. CASE SwitchYield \/ SwitchExit \/ SwitchJoin \/ SwitchBlocked
  <2>1. \E qs : Maintain(qs, tcb)
    BY <1>4 DEF SwitchYield, SwitchExit, SwitchJoin, SwitchBlocked
  <2> QED BY <1>1, <2>1, PromotedFields DEF Maintain
<1>5. CASE SwitchTimer
  <2> DEFINE blocks == [tcb EXCEPT ![current].thread_priority = @ + 1]
  <2>1. CASE CanSink
    <3>1. /\ blocks \in [Node -> Block] /\ blocks[n].join_id = tcb[n].join_id
          /\ blocks[n].value_ptr = tcb[n].value_ptr /\ blocks[n].mid = tcb[n].mid
      <4>1. current \in Node /\ Priority \in Level /\ Priority + 1 \in Level
        BY <1>5, <2>1, PriorityType, LevelFacts DEF SwitchTimer, Queued, CanSink
      <4> QED BY <1>1, <4>1 DEF Block, Priority
    <3>2. \E qs : Maintain(qs, blocks)
      BY <1>5, <2>1 DEF SwitchTimer
    <3> HIDE DEF blocks
    <3> QED BY <3>1, <3>2, PromotedFields DEF Maintain
  <2>2. CASE ~CanSink
    <3>1. \E qs : Maintain(qs, tcb)
      BY <1>5, <2>2 DEF SwitchTimer
    <3> QED BY <1>1, <3>1, PromotedFields DEF Maintain
  <2> QED BY <2>1, <2>2
<1>6. CASE ExitWake \/ JoinWait \/ LockBlock \/ UnlockWake
  BY <1>1, <1>6 DEF ExitWake, JoinWait, LockBlock, UnlockWake, Block
<1> QED BY <1>2, <1>3, <1>4, <1>5, <1>6 DEF Next, Library, Client

\* So are the exit list, the queues of the sleepers and the count of mutexes.
LEMMA RecordsKept ==
  ASSUME [Next]_vars
  PROVE  /\ ~ExitRecord => exit_list' = exit_list
         /\ ~SwitchBlocked /\ ~UnlockWake => waiting_queue' = waiting_queue
         /\ ~SwitchJoin /\ ~ExitWake => join_queue' = join_queue
         /\ ~MutexInit => mutex_count' = mutex_count
<1>1. CASE \/ SchedulerBusy \/ SwitchNone \/ SwitchFirst \/ SwitchTimer \/ SwitchYield
           \/ SwitchExit \/ SwitchJoin \/ SwitchBlocked \/ Dispatch \/ DispatchNone
  BY <1>1 DEF SchedulerBusy, SwitchNone, SwitchFirst, SwitchTimer, SwitchYield, SwitchExit,
              SwitchJoin, SwitchBlocked, Dispatch, DispatchNone, queues, mutexes
<1>2. CASE \/ CreateCount \/ ExitWake \/ ExitRecord \/ JoinWait \/ JoinReturn
           \/ LockTest \/ LockBlock \/ LockTake \/ UnlockWake
           \/ MallocSwaps \/ MallocMeta \/ MallocReturn \/ MallocGivesUp
  BY <1>2 DEF CreateCount, ExitWake, ExitRecord, JoinWait, JoinReturn, LockTest, LockBlock,
              LockTake, UnlockWake, MallocSwaps, MallocMeta, MallocReturn, MallocGivesUp,
              queues, mutexes
<1>3. CASE \/ CreateFirst \/ Create \/ Yield \/ Exit \/ Join \/ MainReturns
           \/ MutexInit \/ Lock \/ Unlock \/ MutexDestroy \/ MallocEnter
           \/ TimerFires \/ Fault \/ Ended \/ UNCHANGED vars
  BY <1>3 DEF CreateFirst, Create, Yield, Exit, Join, MainReturns, MutexInit, Lock, Unlock,
              MutexDestroy, MallocEnter, TimerFires, Fault, Ended, vars, queues, mutexes
<1> QED BY <1>1, <1>2, <1>3 DEF Next, Library, Client

\* The running thread goes on with the function that it is in, or leaves it, unless
\* it enters one.
LEMMA CallKept ==
  ASSUME TypeInv, [Next]_vars, ~CreateFirst, ~Create, ~Yield, ~Exit, ~Join, ~Lock, ~Unlock,
         ~MallocEnter
  PROVE  \/ call'[cpu].op = "none"
         \/ call'[cpu].op = call[cpu].op /\ call'[cpu].arg = call[cpu].arg
<1>1. CASE SchedulerBusy \/ DispatchNone \/ SwitchNone \/ Dispatch
  <2>1. ReturnFromScheduler \/ Goto("dead")
    BY <1>1 DEF SchedulerBusy, SwitchNone, DispatchNone, Dispatch
  <2>2. CASE Goto("dead")
    BY <2>2, GotoIs
  <2>3. CASE ReturnFromScheduler
    <3>1. call'[cpu] \in {call[cpu], Resumed(call[cpu])}
      BY <2>3, CallFacts DEF ReturnFromScheduler
    <3> QED BY <3>1, CallFacts DEF Resumed, Idle, CallRecord
  <2> QED BY <2>1, <2>2, <2>3
<1>2. CASE \/ SwitchFirst \/ SwitchTimer \/ SwitchYield \/ SwitchExit \/ SwitchJoin
           \/ SwitchBlocked
  <2>1. Goto("dispatch") \/ call' = call
    BY <1>2 DEF SwitchFirst, SwitchTimer, SwitchYield, SwitchExit, SwitchJoin, SwitchBlocked,
                ToDispatch
  <2> QED BY <2>1, GotoIs
<1>3. CASE CreateCount \/ ExitRecord \/ JoinWait \/ LockBlock \/ LockTest
  <2>1. \E q \in Points : Goto(q)
    BY <1>3 DEF CreateCount, ExitRecord, JoinWait, LockBlock, LockTest, Points
  <2> QED BY <2>1, GotoIs
<1>4. CASE JoinReturn \/ LockTake \/ UnlockWake \/ MallocReturn \/ MallocGivesUp
  <2>1. ReturnToUser
    BY <1>4 DEF JoinReturn, LockTake, UnlockWake, MallocReturn, MallocGivesUp
  <2> QED BY <2>1, ReturnIs
<1>5. CASE ExitWake
  BY <1>5, CallFacts DEF ExitWake, CallRecord
<1>6. CASE \/ MallocSwaps \/ MallocMeta \/ MainReturns \/ MutexInit \/ MutexDestroy
           \/ TimerFires \/ Fault \/ Ended \/ UNCHANGED vars
  BY <1>6 DEF MallocSwaps, MallocMeta, MainReturns, MutexInit, MutexDestroy, TimerFires, Fault,
              Ended, vars
<1> QED BY <1>1, <1>2, <1>3, <1>4, <1>5, <1>6 DEF Next, Library, Client

-----------------------------------------------------------------------------
(* The dispatch and the creations.                                         *)

\* The thread that leaves the processor is dead or rests at a point where it can be
\* resumed.
LEMMA DispatchLeaves ==
  ASSUME Orderly, InOrder, Dispatch
  PROVE  /\ sig' = "none" /\ ~mem_flag /\ fc' \in {"NONE", "FIRST"}
         /\ call'[cpu].at \in Resting \ {"unborn"} /\ ShapeOK(call'[cpu])
         /\ call'[cpu].op = call[cpu].op \/ call'[cpu].op = "none"
         /\ call'[cpu].op = call[cpu].op => call'[cpu].arg = call[cpu].arg
         /\ call'[cpu].at = "dead" <=> fc = "PEXIT"
         /\ fc = "PEXIT" <=> current = NoNode
         /\ fc = "PEXIT" => call[cpu].op = "exit"
         /\ fc # "PEXIT" => call[cpu].op # "exit"
         /\ call'[cpu].at = "joinDone" /\ call[cpu].at # "joinDone" =>
              call[cpu].at = "dispatch" /\ call[cpu].op = "join"
<1>1. /\ TypeInv /\ call[cpu].op \in Ops /\ ShapeOK(call[cpu]) /\ FlagInv /\ call[cpu].at # "dead"
      /\ cpu \in Node /\ call[cpu] \in CallRecord
  BY CpuFacts DEF InOrder, OrderInv, ShapeInv
<1>2. /\ proc = "run" /\ Point = "dispatch"
      /\ fc' = IF fc = "PEXIT" THEN "NONE" ELSE fc
      /\ IF fc = "PEXIT" THEN Goto("dead") /\ UNCHANGED sig ELSE ReturnFromScheduler
  BY DEF Dispatch
<1>3. /\ fc = "PEXIT" => current = NoNode
      /\ fc # "PEXIT" => current = cpu /\ current # NoNode
  BY <1>1, <1>2 DEF InOrder, OrderInv, FrontInv, Node, NoNode
<1>4. CASE fc = "PEXIT"
  <2>1. sig = "none" /\ call[cpu].at = "dispatch"
    BY <1>2, <1>4 DEF Point, InOrder, TypeInv, HandlerInv
  <2>2. call[cpu].op = "exit" /\ ~mem_flag
    BY <1>1, <1>4, <2>1 DEF FlagInv, FlagOK
  <2>3. call'[cpu].at = "dead" /\ call'[cpu].op = "exit" /\ call'[cpu].arg = call[cpu].arg
    BY <1>1, <1>2, <1>4, <2>2, GotoIs
  <2> QED BY <1>2, <1>3, <1>4, <2>1, <2>2, <2>3 DEF Resting, ShapeOK
<1>5. CASE fc # "PEXIT" /\ sig = "none"
  <2>1. call[cpu].at = "dispatch" /\ call[cpu].op # "exit" /\ fc \in {"NONE", "FIRST"} /\ ~mem_flag
    BY <1>1, <1>2, <1>5 DEF Point, FlagInv, FlagOK
  <2>2. call'[cpu] = Resumed(call[cpu]) /\ sig' = "none"
    BY <1>1, <1>2, <1>5, CallFacts DEF ReturnFromScheduler
  <2>3. /\ Resumed(call[cpu]).at \in {"user", "joinDone", "lockTest"}
        /\ ShapeOK(Resumed(call[cpu]))
        /\ \/ Resumed(call[cpu]).op = "none"
           \/ Resumed(call[cpu]).op = call[cpu].op /\ Resumed(call[cpu]).arg = call[cpu].arg
        /\ Resumed(call[cpu]).at = "joinDone" => call[cpu].op = "join"
    <3>1. CASE call[cpu].op = "join"
      BY <1>1, <3>1 DEF Resumed, CallRecord, ShapeOK
    <3>2. CASE call[cpu].op = "lock"
      BY <1>1, <3>2 DEF Resumed, CallRecord, ShapeOK
    <3>3. CASE call[cpu].op \notin {"join", "lock"}
      BY <1>1, <3>3 DEF Resumed, Idle, ShapeOK
    <3> QED BY <3>1, <3>2, <3>3
  <2>4. call[cpu].op # "none"
    BY <1>1, <2>1 DEF ShapeOK
  <2> QED BY <1>2, <1>3, <1>5, <2>1, <2>2, <2>3, <2>4 DEF Resting
<1>6. CASE fc # "PEXIT" /\ sig # "none"
  <2>1. sig = "dispatch" /\ fc = "NONE" /\ ~mem_flag /\ call[cpu].at \in Preemptible
    BY <1>1, <1>2, <1>6 DEF Point, FlagInv
  <2>2. call' = call /\ sig' = "none"
    BY <1>2, <1>6 DEF ReturnFromScheduler
  <2>3. call[cpu].at \in Resting \ {"unborn", "dead"}
    BY <2>1, CpuFacts
  <2>4. call[cpu].op # "exit"
    BY <1>1, <2>3 DEF ShapeOK, Resting
  <2> QED BY <1>1, <1>2, <1>3, <1>6, <2>1, <2>2, <2>3, <2>4
<1> QED BY <1>4, <1>5, <1>6

\* The other threads keep their calls, and the set of the living stays.
LEMMA DispatchLives ==
  ASSUME Orderly, InOrder, Dispatch
  PROVE  /\ Born' = Born /\ Alive' = Alive
         /\ cpu' = NewContext /\ current' = NewContext /\ NewContext \in Alive
         /\ \A n \in Node \ {cpu} : call'[n] = call[n]
         /\ \A n \in Node : ShapeOK(call'[n]) /\ call'[n].at \in Resting
         /\ call'[cpu'].at # "dead"
<1>1. /\ ShapeOK(call'[cpu]) /\ call'[cpu].at \in Resting
      /\ call'[cpu].at = "dead" <=> current = NoNode
  BY DispatchLeaves
<1>2. /\ cpu' = NewContext /\ current' = NewContext /\ NewContext \in Alive
      /\ Born' = Born
  BY PickedInFront DEF Dispatch, births, Born
<1>3. \A n \in Node \ {cpu} : call'[n] = call[n]
  <2>1. Goto("dead") \/ ReturnFromScheduler
    BY DEF Dispatch
  <2> QED BY <2>1, GotoIs, CallFacts DEF InOrder, ReturnFromScheduler
<1>4. \A n \in Node : ShapeOK(call'[n]) /\ call'[n].at \in Resting
  BY <1>1, <1>3 DEF InOrder, OrderInv, ShapeInv
<1>5. Born \subseteq Node /\ NewContext \in Node /\ NewContext # NoNode /\ cpu \in Node
  BY <1>2, BornFacts DEF InOrder, TypeInv, CountInv, QueueInv, Alive
<1>6. \A n \in Born : Gone(n)' <=> Gone(n)
  <2> SUFFICES ASSUME NEW n \in Born PROVE Gone(n)' <=> Gone(n)
    OBVIOUS
  <2>1. Gone(n)' <=> call'[n].at = "dead"
    BY <1>2, <1>5 DEF Gone
  <2>2. CASE n = cpu
    <3>1. call[cpu].at # "dead"
      BY DEF InOrder, OrderInv, ShapeInv
    <3> QED BY <1>1, <2>1, <2>2, <3>1 DEF Gone
  <2>3. CASE n # cpu
    BY <1>3, <1>5, <2>1, <2>3 DEF Gone
  <2> QED BY <2>2, <2>3
<1>7. Alive' = Alive
  BY <1>2, <1>6 DEF Alive
<1>8. call'[cpu'].at # "dead"
  BY <1>2, <1>5, <1>6 DEF Alive, Gone
<1> QED BY <1>2, <1>3, <1>4, <1>7, <1>8

\* The effects of the two creations on the calls.
LEMMA CreateFirstIs ==
  ASSUME Orderly, InOrder, CreateFirst
  PROVE  /\ Born' = {0, 1} /\ Born = {} /\ Alive = {} /\ Alive' = {0, 1} /\ cpu = 0 /\ cpu' = 1
         /\ 0 \in Node /\ 1 \in Node
         /\ call'[0] = Idle /\ call'[1] = Idle
         /\ \A n \in Node \ {0, 1} : call'[n] = call[n]
         /\ call[cpu].op # "exit" /\ fc \in {"NONE", "FIRST", "TIMER"} /\ fc' = fc
         /\ sig = "none" /\ sig' = "none" /\ ~mem_flag' /\ current' = 1 /\ proc' = "run"
         /\ \A n \in Node : call[n].op = "none"
<1>1. 0 \in Node /\ 1 \in Node /\ nodeCount = 0 /\ proc = "init" /\ cpu = 0
  BY PthreadAssumption
     DEF PthreadAssumption, Node, CreateFirst, InOrder, TypeInv, CountInv, IdInv, MainStarts
<1>2. Born' = {0, 1} /\ Born = {}
  BY <1>1 DEF CreateFirst, Born
<1>3. /\ call'[0] = Idle /\ call'[1] = Idle
      /\ \A n \in Node \ {0, 1} : call'[n] = call[n]
  BY <1>1, CallFacts DEF CreateFirst, InOrder
<1>4. cpu' = 1 /\ current' = 1 /\ proc' = "run" /\ sig' = sig /\ fc' = fc /\ ~mem_flag'
  BY DEF CreateFirst
<1>5. Alive = {}
  BY <1>2 DEF Alive
<1>6. Alive' = {0, 1}
  BY <1>2, <1>3, <1>4 DEF Alive, Gone, Idle, NoNode
<1>7. \A n \in Node : call[n].op = "none"
  BY <1>2 DEF InOrder, OrderInv, ShapeInv
<1>8. /\ cpu \in Node /\ ShapeOK(call[cpu]) /\ call[cpu].op = "none" /\ FlagInv
      /\ sig \in {"none", "update", "dispatch"}
  BY <1>1, <1>7, CpuFacts
<1>9. sig = "none"
  BY <1>1 DEF InOrder, OrderInv, StartInv
<1>10. fc \in {"NONE", "FIRST", "TIMER"}
  BY <1>8, <1>9 DEF FlagInv, FlagOK, ShapeOK
<1> QED BY <1>1, <1>2, <1>3, <1>4, <1>5, <1>6, <1>7, <1>9, <1>10

LEMMA CreateIs ==
  ASSUME Orderly, InOrder, Create
  PROVE  /\ proc = "run" /\ sig = "none" /\ call[cpu].at = "user" /\ Point # "dispatch"
         /\ nodeCount \in Node /\ nodeCount \notin Born /\ nodeCount # cpu
         /\ Born' = Born \cup {nodeCount} /\ Alive' = Alive \cup {nodeCount}
         /\ call'[cpu].at = "createCount" /\ call'[cpu].op = "create"
         /\ call'[nodeCount] = Idle /\ call[nodeCount].op = "none"
         /\ \A n \in Node \ {cpu, nodeCount} : call'[n] = call[n]
         /\ cpu' = cpu /\ current' = current /\ sig' = sig /\ ~mem_flag' /\ fc' = fc
         /\ fc \in {"NONE", "FIRST", "TIMER"}
<1>1. proc = "run" /\ sig = "none" /\ call[cpu].at = "user" /\ Point # "dispatch" /\ current # NoNode
  BY DEF Create, InUser, At, Point
<1>2. /\ nodeCount \in Node /\ nodeCount \notin Born /\ Born' = Born \cup {nodeCount}
  BY PthreadAssumption DEF PthreadAssumption, Create, InOrder, TypeInv, CountInv, Node, Born
<1>3. cpu \in Born /\ nodeCount # cpu /\ cpu \in Node /\ Born \subseteq Node
  BY <1>1, <1>2, Runs, BornFacts DEF InOrder, TypeInv, CountInv
<1>4. call' = [call EXCEPT ![cpu] = [at |-> "createCount", op |-> "create",
                                     arg |-> nodeCount, i |-> 0],
                           ![nodeCount] = Idle]
  BY DEF Create
<1>5. /\ call'[cpu].at = "createCount" /\ call'[cpu].op = "create"
      /\ call'[nodeCount] = Idle
      /\ \A n \in Node \ {cpu, nodeCount} : call'[n] = call[n]
  BY <1>2, <1>3, <1>4, CallFacts DEF InOrder
<1>6. cpu' = cpu /\ current' = current /\ sig' = sig /\ ~mem_flag' /\ fc' = fc
  BY DEF Create
<1>7. \A n \in Born : Gone(n)' <=> Gone(n)
  BY <1>1, <1>2, <1>3, <1>5, <1>6 DEF Gone
<1>8. \A n \in Node : n = nodeCount => ~Gone(n)'
  BY <1>1, <1>5, <1>6 DEF Gone, Idle
<1>9. Alive' = Alive \cup {nodeCount}
  <2>1. \A n \in Born' : n \in Alive' <=> ~Gone(n)'
    BY DEF Alive
  <2>2. \A n \in Born : n \in Alive <=> ~Gone(n)
    BY DEF Alive
  <2>3. Alive \subseteq Born /\ Alive' \subseteq Born'
    BY DEF Alive
  <2>4. ASSUME NEW n PROVE n \in Alive' <=> n \in Alive \cup {nodeCount}
    BY <1>2, <1>7, <1>8, <2>1, <2>2, <2>3
  <2> QED BY <2>4
<1>10. call[nodeCount].op = "none"
  BY <1>2 DEF InOrder, OrderInv, ShapeInv
<1>11. fc \in {"NONE", "FIRST", "TIMER"}
  BY <1>1, CpuFacts DEF FlagInv, FlagOK, ShapeOK
<1> QED BY <1>1, <1>2, <1>3, <1>5, <1>6, <1>9, <1>10, <1>11

-----------------------------------------------------------------------------
(* The points and flags after every step.                                  *)

\* Until the first my_pthread_create nothing else happens.
LEMMA InitStutters ==
  ASSUME proc = "init", [Next]_vars, ~CreateFirst
  PROVE  UNCHANGED vars
<1>1. ~Library
  BY DEF Library, SchedulerBusy, SwitchNone, SwitchFirst, SwitchTimer, SwitchYield,
         SwitchExit, SwitchJoin, SwitchBlocked, InSwitch, Dispatch, DispatchNone,
         CreateCount, ExitWake, ExitRecord, JoinWait, JoinReturn, LockTest, LockBlock,
         LockTake, UnlockWake, MallocSwaps, MallocMeta, MallocReturn, MallocGivesUp, At
<1>2. ~(\/ Create \/ Yield \/ Exit \/ Join \/ MainReturns
        \/ MutexInit \/ Lock \/ Unlock \/ MutexDestroy \/ MallocEnter
        \/ TimerFires \/ Fault \/ Ended)
  BY DEF Create, Yield, Exit, Join, MainReturns, MutexInit, Lock,
         Unlock, MutexDestroy, MallocEnter, InUser, At, TimerFires, Fault, Ended
<1> QED BY <1>1, <1>2 DEF Next, Client

LEMMA StartsOnce ==
  ASSUME proc # "init", [Next]_vars
  PROVE  proc' # "init"
<1>1. CASE Library
  BY <1>1 DEF Library, SchedulerBusy, SwitchNone, SwitchFirst, SwitchTimer, SwitchYield,
              SwitchExit, SwitchJoin, SwitchBlocked, Dispatch, DispatchNone,
              CreateCount, ExitWake, ExitRecord, JoinWait, JoinReturn, LockTest, LockBlock,
              LockTake, UnlockWake, MallocSwaps, MallocMeta, MallocReturn, MallocGivesUp
<1>2. CASE Client
  BY <1>2 DEF Client, CreateFirst, Create, Yield, Exit, Join, MainReturns, MutexInit, Lock,
              Unlock, MutexDestroy, MallocEnter
<1>3. CASE TimerFires \/ Fault \/ Ended \/ UNCHANGED vars
  BY <1>3 DEF TimerFires, Fault, Ended, vars
<1> QED BY <1>1, <1>2, <1>3 DEF Next

LEMMA StartStep ==
  ASSUME StartInv, [Next]_vars
  PROVE  StartInv'
<1>1. CASE proc = "init" /\ ~CreateFirst
  BY <1>1, InitStutters DEF StartInv, vars
<1>2. CASE proc # "init" \/ CreateFirst
  BY <1>2, StartsOnce DEF StartInv, CreateFirst
<1> QED BY <1>1, <1>2

LEMMA ShapeStep ==
  ASSUME Orderly, InOrder, [Next]_vars
  PROVE  ShapeInv' /\ FlagInv'
<1>1. /\ \A n \in Node : ShapeOK(call[n])
      /\ \A n \in Node \ {cpu} : call[n].at \in Resting
      /\ \A n \in Node \ Born : call[n].op = "none"
      /\ cpu \in Node
  BY CpuFacts DEF InOrder, OrderInv, ShapeInv
<1>2. CASE CreateFirst
  <2>1. /\ \A n \in Node : \/ call'[n] = Idle
                           \/ call'[n] = call[n] /\ n # cpu
        /\ call'[cpu'] = Idle
    BY <1>2, CreateFirstIs
  <2>2. ShapeInv'
    BY <1>1, <1>2, <2>1, CreateFirstIs DEF ShapeInv, ShapeOK, Idle, Resting
  <2>3. FlagInv'
    BY <1>2, <2>1, CreateFirstIs DEF FlagInv, FlagOK, Idle
  <2> QED BY <2>2, <2>3
<1>3. CASE Create
  <2>1. ShapeInv'
    <3>1. /\ call'[cpu].at = "createCount" /\ call'[cpu].op = "create"
          /\ call'[nodeCount].at = "user" /\ call'[nodeCount].op = "none"
          /\ \A n \in Node \ {cpu, nodeCount} : call'[n] = call[n]
          /\ nodeCount \in Node /\ nodeCount # cpu /\ Born' = Born \cup {nodeCount} /\ cpu' = cpu
          /\ cpu \in Born
      BY <1>3, CreateIs, Runs DEF Idle
    <3>2. \A n \in Node : ShapeOK(call'[n])
      BY <1>1, <3>1 DEF ShapeOK
    <3>3. \A n \in Node \ {cpu} : call'[n].at \in Resting
      BY <1>1, <3>1 DEF Resting
    <3>4. \A n \in Node \ Born' : call'[n].op = "none"
      BY <1>1, <3>1
    <3> QED BY <3>1, <3>2, <3>3, <3>4 DEF ShapeInv
  <2>2. FlagInv'
    BY <1>3, CreateIs DEF FlagInv, FlagOK
  <2> QED BY <2>1, <2>2
<1>4. CASE Dispatch
  <2>1. cpu \in Born /\ cpu' \in Node
    BY <1>4, BornFacts, DispatchLives
       DEF Dispatch, InOrder, TypeInv, QueueInv, CountInv, Alive
  <2>2. ShapeInv'
    BY <1>1, <1>4, <2>1, DispatchLives DEF ShapeInv
  <2>3. call'[cpu'].at \in Resting \ {"dead"} /\ ShapeOK(call'[cpu'])
    BY <1>4, <2>1, DispatchLives
  <2>4. FlagOK(call'[cpu'], fc')
    BY <1>4, <2>3, DispatchLeaves DEF FlagOK, ShapeOK, Resting
  <2>5. mem_flag' = mem_flag
    BY <1>4 DEF Dispatch
  <2> QED BY <1>4, <2>2, <2>4, <2>5, DispatchLeaves DEF FlagInv
<1>5. CASE ~CreateFirst /\ ~Create /\ ~Dispatch
  <2>1. Born' = Born /\ \A n \in Node \ {cpu} : call'[n] = call[n]
    BY <1>5, TidsKept, OthersKeepCall DEF InOrder
  <2>2. ShapeOK(call'[cpu]) /\ call'[cpu].at # "dead" /\ FlagInv' /\ cpu' = cpu
    BY <1>5, PointStep
  <2>3. cpu \in Born \/ call'[cpu].op = "none"
    <3>1. CASE proc # "init"
      BY <3>1 DEF InOrder, TypeInv, QueueInv
    <3>2. CASE proc = "init"
      <4>1. UNCHANGED vars
        BY <1>5, <3>2, InitStutters
      <4>2. call[cpu].op = "none"
        BY <1>1, <3>2 DEF InOrder, TypeInv, CountInv, Born
      <4> QED BY <4>1, <4>2 DEF vars
    <3> QED BY <3>1, <3>2
  <2> QED BY <1>1, <2>1, <2>2, <2>3 DEF ShapeInv
<1> QED BY <1>2, <1>3, <1>4, <1>5

-----------------------------------------------------------------------------
(* The places of the nodes, their levels, and the front.                   *)

\* current changes at the dispatch, at an exit and at the first creation.
LEMMA CurrentKept ==
  ASSUME [Next]_vars, ~CreateFirst, ~Dispatch, ~SwitchExit
  PROVE  current' = current
<1>1. CASE Library
  BY <1>1 DEF Library, SchedulerBusy, SwitchNone, SwitchFirst, SwitchTimer, SwitchYield,
              SwitchJoin, SwitchBlocked, DispatchNone,
              CreateCount, ExitWake, ExitRecord, JoinWait, JoinReturn, LockTest, LockBlock,
              LockTake, UnlockWake, MallocSwaps, MallocMeta, MallocReturn, MallocGivesUp
<1>2. CASE Client
  BY <1>2 DEF Client, Create, Yield, Exit, Join, MainReturns, MutexInit, Lock,
              Unlock, MutexDestroy, MallocEnter
<1>3. CASE TimerFires \/ Fault \/ Ended \/ UNCHANGED vars
  BY <1>3 DEF TimerFires, Fault, Ended, vars
<1> QED BY <1>1, <1>2, <1>3 DEF Next

LEMMA AliveKept ==
  ASSUME Orderly, InOrder, [Next]_vars, ~CreateFirst, ~Create, ~Dispatch, ~SwitchExit
  PROVE  Born' = Born /\ Alive' = Alive
<1>1. Born' = Born /\ \A n \in Node \ {cpu} : call'[n] = call[n]
  BY TidsKept, OthersKeepCall DEF InOrder
<1>2. call'[cpu].at # "dead" /\ call[cpu].at # "dead" /\ cpu' = cpu /\ current' = current
  BY PointStep, CurrentKept DEF InOrder, OrderInv, ShapeInv
<1>3. Born \subseteq Node
  BY BornFacts DEF InOrder, TypeInv, CountInv
<1>4. \A n \in Born : Gone(n)' <=> Gone(n)
  BY <1>1, <1>2, <1>3 DEF Gone
<1> QED BY <1>1, <1>4 DEF Alive

\* The thread that leaves the scheduler is the one that runs.
LEMMA ExitAlive ==
  ASSUME Orderly, InOrder, SwitchExit
  PROVE  /\ Queued /\ Head(running_qs[Priority]) = cpu
         /\ Born' = Born /\ Alive' = Alive \ {cpu}
<1>1. proc = "run" /\ Point = "update" /\ current' = NoNode /\ cpu' = cpu
  BY DEF SwitchExit, InSwitch
<1>2. [Next]_vars /\ ~CreateFirst /\ ~Create /\ ~Dispatch
  BY <1>1 DEF Next, Library, Dispatch, CreateFirst, Create, InUser, At, Point
<1>3. Born' = Born /\ \A n \in Node \ {cpu} : call'[n] = call[n]
  BY <1>2, TidsKept, OthersKeepCall DEF InOrder
<1>4. Born \subseteq Node /\ cpu \in Node
  BY BornFacts DEF InOrder, TypeInv, CountInv, QueueInv
<1>5. \A n \in Born : Gone(n)' <=> Gone(n) \/ n = cpu
  BY <1>1, <1>3, <1>4 DEF Gone
<1>6. Alive' = Alive \ {cpu}
  <2>1. ASSUME NEW n PROVE n \in Alive' <=> n \in Alive \ {cpu}
    BY <1>3, <1>5 DEF Alive
  <2> QED BY <2>1
<1> QED BY <1>1, <1>3, <1>6, Runs

LEMMA PlaceStep ==
  ASSUME Orderly, InOrder, TypeInv', [Next]_vars
  PROVE  PlaceInv'
<1>1. PlaceInv' <=> HoldNext(Alive')
  BY DEF PlaceInv, Hold, HoldNext
<1>2. TypeInv /\ Hold(Alive)
  BY DEF InOrder, OrderInv, PlaceInv
<1>3. CASE CreateFirst
  BY <1>1, <1>2, <1>3, CreateFirstIs, CreateFirstHolds
<1>4. CASE Create
  BY <1>1, <1>2, <1>4, CreateIs, CreateHolds
<1>5. CASE SwitchExit
  BY <1>1, <1>2, <1>5, ExitAlive, ExitHolds
<1>6. CASE Dispatch
  BY <1>1, <1>2, <1>6, DispatchLives, DispatchHolds
<1>7. CASE ~CreateFirst /\ ~Create /\ ~SwitchExit /\ ~Dispatch
  <2>1. Born' = Born /\ Alive' = Alive
    BY <1>7, AliveKept
  <2>2. CASE SwitchTimer \/ SwitchYield \/ SwitchJoin \/ SwitchBlocked
    BY <1>1, <1>2, <2>1, <2>2, SwitchHolds
  <2>3. CASE ExitWake
    BY <1>1, <1>2, <2>1, <2>3, ExitWakeHolds
  <2>4. CASE UnlockWake
    BY <1>1, <1>2, <2>1, <2>4, UnlockWakeHolds
  <2>5. CASE UNCHANGED <<queues, nodeCount>>
    BY <1>1, <1>2, <2>1, <2>5 DEF Hold, HoldNext, queues
  <2> QED BY <1>7, <2>2, <2>3, <2>4, <2>5, QueuesAlone
<1> QED BY <1>3, <1>4, <1>5, <1>6, <1>7

\* The nodes of each level have the priority of the level.
InLevels(qs, blocks) ==
  \A l \in Level : \A n \in Range(qs[l]) : blocks[n].thread_priority = l

\* The maintenance keeps that up.
LEMMA MaintainLevels ==
  ASSUME NEW STATE B, NEW STATE qs, NEW STATE blocks, NEW w, NEW j, NEW set,
         Holding(B, qs, w, j, set), B \subseteq Node, blocks \in [Node -> Block],
         InLevels(qs, blocks), Maintain(qs, blocks)
  PROVE  InLevels(running_qs', tcb')
<1>1. CASE ~BoostDue(qs)
  BY <1>1 DEF Maintain
<1>2. CASE BoostDue(qs)
  <2> DEFINE q == Boosted(qs)[0]
  <2>1. running_qs' = Boosted(qs) /\ tcb' = Promoted(blocks, q)
    BY <1>2 DEF Maintain
  <2>2. /\ qs \in [Level -> Seq(B)] /\ Parted(qs, w, j)
    BY DEF Holding
  <2>3. /\ q = qs[0] \o qs[Lowest] /\ Boosted(qs)[Lowest] = << >>
        /\ \A l \in Level \ {0, Lowest} : Boosted(qs)[l] = qs[l]
    BY <2>2, LevelFacts DEF Boosted
  <2>4. /\ Range(q) = Range(qs[0]) \cup Range(qs[Lowest])
        /\ Range(<< >>) = {} /\ \A l \in Level : Range(qs[l]) \subseteq B
    <3>1. qs[0] \in Seq(B) /\ qs[Lowest] \in Seq(B)
      BY <2>2, LevelFacts
    <3>2. Range(<< >>) = {}
      BY DEF Range
    <3>3. \A l \in Level : Range(qs[l]) \subseteq B
      BY <2>2, RangeOf
    <3> HIDE DEF q, Range
    <3>4. Range(q) = Range(qs[0]) \cup Range(qs[Lowest])
      BY <2>3, <3>1, RangeConcatenation
    <3> QED BY <3>2, <3>3, <3>4
  <2>5. \A n \in Node : /\ n \in Range(q) => tcb'[n].thread_priority = 0
                        /\ n \notin Range(q) => tcb'[n] = blocks[n]
    <3> SUFFICES ASSUME NEW n \in Node
                 PROVE  /\ n \in Range(q) => tcb'[n].thread_priority = 0
                        /\ n \notin Range(q) => tcb'[n] = blocks[n]
      OBVIOUS
    <3> HIDE DEF q, Range
    <3>1. tcb'[n] = IF n \in Range(q) THEN [blocks[n] EXCEPT !.thread_priority = 0]
                    ELSE blocks[n]
      BY <2>1 DEF Promoted
    <3>2. blocks[n] \in Block
      OBVIOUS
    <3> QED BY <3>1, <3>2 DEF Block
  <2> HIDE DEF q, Range
  <2>6. ASSUME NEW l \in Level, NEW n \in Range(running_qs'[l])
        PROVE  tcb'[n].thread_priority = l
    <3>1. CASE l = 0
      <4>1. n \in Range(q) /\ n \in Node
        BY <2>1, <2>4, <2>6, <3>1, LevelFacts DEF q
      <4> QED BY <2>5, <3>1, <4>1
    <3>2. CASE l = Lowest
      BY <2>1, <2>3, <2>4, <2>6, <3>2
    <3>3. CASE l # 0 /\ l # Lowest
      <4>1. n \in Range(qs[l]) /\ n \in Node
        BY <2>1, <2>3, <2>4, <2>6, <3>3
      <4>2. n \notin Range(q)
        BY <2>2, <2>4, <3>3, <4>1, LevelFacts DEF Parted
      <4> QED BY <2>5, <4>1, <4>2 DEF InLevels
    <3> QED BY <3>1, <3>2, <3>3
  <2> QED BY <2>6 DEF InLevels
<1> QED BY <1>1, <1>2

\* What a rotation and a dequeue of the front leave in each level.
LEMMA RotatedLevels ==
  ASSUME InOrder, Queued, NEW l \in Level
  PROVE  /\ Range(Rotated[l]) = Range(running_qs[l])
         /\ Range(Dequeued[l]) = Range(running_qs[l]) \ {Head(running_qs[Priority])}
<1> DEFINE p == Priority
           h == Head(running_qs[p])
           t == Tail(running_qs[p])
<1>1. p \in Level /\ running_qs[p] # << >>
  BY PriorityType DEF InOrder, Queued
<1>2. /\ running_qs \in [Level -> Seq(Born)] /\ \A k \in Level : Distinct(running_qs[k])
      /\ \A k, m \in Level : Range(running_qs[k]) \cap Range(running_qs[m]) # {} => k = m
  BY DEF InOrder, OrderInv, PlaceInv, Hold, Holding, Parted
<1>3. /\ h \in Range(running_qs[p]) /\ h \in Born /\ t \in Seq(Born)
      /\ Distinct(t) /\ Range(t) = Range(running_qs[p]) \ {h}
  <2> HIDE DEF p
  <2> QED BY <1>1, <1>2, TailDistinct
<1>4. /\ Dequeued[p] = t /\ Rotated[p] = Append(t, h)
      /\ \A k \in Level \ {p} : Dequeued[k] = running_qs[k] /\ Rotated[k] = running_qs[k]
  BY <1>1, <1>2 DEF Dequeued, Rotated
<1> HIDE DEF p, h, t, Range
<1>5. Range(Append(t, h)) = Range(t) \cup {h}
  BY <1>3, AppendDistinct
<1>6. CASE l = p
  BY <1>3, <1>4, <1>5, <1>6 DEF p, h
<1>7. CASE l # p
  <2>1. h \notin Range(running_qs[l])
    BY <1>1, <1>2, <1>3, <1>7
  <2> QED BY <1>4, <1>7, <2>1 DEF p, h
<1> QED BY <1>6, <1>7

\* With one mutex every sleeper matches, so that the waiter found by
\* my_pthread_mutex_unlock is the one it wakes.
LEMMA HeadMatches ==
  ASSUME Orderly, InOrder, At("unlockWake"), waiting_queue # << >>
  PROVE  /\ Matches(call[cpu].arg) # {}
         /\ waiting_queue[Top(Matches(call[cpu].arg))] = Head(waiting_queue)
         /\ Head(waiting_queue) \in Range(waiting_queue) /\ Head(waiting_queue) \in Node
         /\ call[Head(waiting_queue)].op = "lock"
         /\ call[Head(waiting_queue)].arg = call[cpu].arg
<1> DEFINE m == call[cpu].arg
           h == Head(waiting_queue)
<1>1. waiting_queue \in Seq(Born) /\ Distinct(waiting_queue) /\ Born \subseteq Node
  BY BornFacts
     DEF InOrder, OrderInv, PlaceInv, Hold, Holding, Parted, TypeInv, CountInv
<1>2. h \in Range(waiting_queue) /\ h \in Node
  BY <1>1, TailDistinct
<1>3. Len(waiting_queue) \in Nat /\ Len(waiting_queue) > 0 /\ h = waiting_queue[1]
      /\ DOMAIN waiting_queue = 1 .. Len(waiting_queue)
  BY <1>1, HeadTailProperties, LenProperties
<1> HIDE DEF Range, h
<1>4. call[h].op = "lock" /\ tcb[h].mid = mutex[call[h].arg].mid
  BY <1>2 DEF InOrder, OrderInv, WaitInv
<1>5. m \in Mutex /\ call[h].arg \in Mutex
  BY <1>2, <1>4, AtType DEF InOrder, TypeInv, CallInv, CallOK
<1>6. call[h].arg = m
  BY <1>5 DEF Orderly
<1> HIDE DEF m
<1>7. 1 \in Matches(m)
  BY <1>3, <1>4, <1>6 DEF Matches
<1>8. Matches(m) \in SUBSET Nat /\ \A i \in Matches(m) : i >= 1
  BY <1>3 DEF Matches
<1>9. Top(Matches(m)) = 1
  <2>1. \A i \in Matches(m) : (\A k \in Matches(m) : i <= k) <=> i = 1
    BY <1>7, <1>8
  <2>2. Top(Matches(m)) \in Matches(m)
    BY <1>7, <1>8, TopType
  <2>3. \A k \in Matches(m) : Top(Matches(m)) <= k
    BY <1>7, <2>1 DEF Top
  <2> QED BY <2>1, <2>2, <2>3
<1> QED BY <1>2, <1>3, <1>4, <1>6, <1>7, <1>9 DEF m, h

\* Outside updateQueue priorities change only when a thread is woken.
LEMMA PriorityKept ==
  ASSUME TypeInv, [Next]_vars, ~CreateFirst, ~Create, ~ExitWake, ~UnlockWake,
         ~SwitchTimer, ~SwitchYield, ~SwitchExit, ~SwitchJoin, ~SwitchBlocked, NEW n \in Node
  PROVE  tcb'[n].thread_priority = tcb[n].thread_priority
<1>1. tcb \in [Node -> Block]
  BY DEF TypeInv, DataInv
<1>2. CASE \/ SchedulerBusy \/ SwitchNone \/ SwitchFirst \/ Dispatch \/ DispatchNone
           \/ CreateCount \/ ExitRecord \/ JoinReturn \/ LockTest \/ LockTake
           \/ MallocSwaps \/ MallocMeta \/ MallocReturn \/ MallocGivesUp
  BY <1>2 DEF SchedulerBusy, SwitchNone, SwitchFirst, Dispatch, DispatchNone, CreateCount,
              ExitRecord, JoinReturn, LockTest, LockTake, MallocSwaps, MallocMeta, MallocReturn,
              MallocGivesUp
<1>3. CASE \/ Yield \/ Exit \/ Join \/ MainReturns \/ MutexInit \/ Lock \/ Unlock
           \/ MutexDestroy \/ MallocEnter \/ TimerFires \/ Fault \/ Ended \/ UNCHANGED vars
  BY <1>3 DEF Yield, Exit, Join, MainReturns, MutexInit, Lock, Unlock, MutexDestroy,
              MallocEnter, TimerFires, Fault, Ended, vars
<1>4. CASE JoinWait \/ LockBlock
  BY <1>1, <1>4 DEF JoinWait, LockBlock, Block
<1> QED BY <1>2, <1>3, <1>4 DEF Next, Library, Client

\* A sleeper that is woken joins level 0 with priority 0.
LEMMA WokenLevels ==
  ASSUME InOrder, NEW n \in Node, NEW bs, n \notin Members(running_qs),
         \A k \in Node \ {n} : bs[k].thread_priority = tcb[k].thread_priority,
         bs[n].thread_priority = 0,
         NEW qs, qs = [running_qs EXCEPT ![0] = Append(@, n)]
  PROVE  InLevels(qs, bs)
<1>1. running_qs \in [Level -> Seq(Born)] /\ Born \subseteq Node
  BY BornFacts DEF InOrder, TypeInv, QueueInv, CountInv
<1>2. /\ qs[0] = Append(running_qs[0], n)
      /\ \A l \in Level \ {0} : qs[l] = running_qs[l]
  BY <1>1, LevelFacts
<1>3. \A l \in Level : Range(running_qs[l]) \subseteq Node
  BY <1>1, RangeOf
<1> HIDE DEF Range
<1>4. \A l \in Level : n \notin Range(running_qs[l])
  BY InMembers
<1>5. Range(qs[0]) = Range(running_qs[0]) \cup {n}
  <2>1. running_qs[0] \in Seq(Node)
    BY <1>1, LevelFacts, SeqMonotonic
  <2>2. Distinct(running_qs[0]) /\ n \notin Range(running_qs[0])
    BY <1>4, LevelFacts DEF InOrder, OrderInv, PlaceInv, Hold, Holding, Parted
  <2> QED BY <1>2, <2>1, <2>2, AppendDistinct
<1>6. \A l \in Level : \A k \in Range(running_qs[l]) : tcb[k].thread_priority = l
  BY DEF InOrder, OrderInv, RunnableInItsLevel
<1>7. ASSUME NEW l \in Level, NEW k \in Range(qs[l]) PROVE bs[k].thread_priority = l
  <2>1. CASE k = n
    BY <1>2, <1>4, <1>7, <2>1
  <2>2. CASE k # n
    BY <1>2, <1>3, <1>5, <1>6, <1>7, <2>2
  <2> QED BY <2>1, <2>2
<1> QED BY <1>7 DEF InLevels

LEMMA LevelStep ==
  ASSUME Orderly, InOrder, TypeInv', PlaceInv', [Next]_vars
  PROVE  RunnableInItsLevel'
<1> USE DEF RunnableInItsLevel
<1>1. /\ TypeInv /\ tcb \in [Node -> Block] /\ Born \subseteq Node /\ Hold(Alive)
      /\ InLevels(running_qs, tcb)
      /\ \A l \in Level : Range(running_qs[l]) \subseteq Born
  BY BornFacts, RangeOf
     DEF InOrder, OrderInv, PlaceInv, TypeInv, QueueInv, DataInv, CountInv, InLevels
<1>2. InLevels(running_qs', tcb') => RunnableInItsLevel'
  BY DEF InLevels
<1> HIDE DEF RunnableInItsLevel, Range
<1>3. CASE SwitchYield
  <2>1. Queued /\ Maintain(Rotated, tcb)
    BY <1>3 DEF SwitchYield
  <2>2. Holding(Born, Rotated, waiting_queue, join_queue, Alive) /\ InLevels(Rotated, tcb)
    BY <1>1, <2>1, RotateHolds, RotatedLevels DEF InLevels
  <2> QED BY <1>1, <1>2, <2>1, <2>2, MaintainLevels
<1>4. CASE SwitchJoin \/ SwitchBlocked \/ SwitchExit
  <2>1. Queued /\ Maintain(Dequeued, tcb)
    BY <1>4, ExitAlive DEF SwitchJoin, SwitchBlocked, SwitchExit, Queued
  <2>2. InLevels(Dequeued, tcb)
    BY <1>1, <2>1, RotatedLevels DEF InLevels
  <2>3. \E set : Holding(Born, Dequeued, waiting_queue, join_queue, set)
    BY <1>1, <2>1, DequeueHolds
  <2> QED BY <1>1, <1>2, <2>1, <2>2, <2>3, MaintainLevels
<1>5. CASE SwitchTimer
  <2> DEFINE qs == [Dequeued EXCEPT ![Priority + 1] = Append(@, Head(running_qs[Priority]))]
             bs == [tcb EXCEPT ![current].thread_priority = @ + 1]
  <2>1. /\ Queued /\ proc = "run" /\ Point # "dispatch"
        /\ current = cpu /\ Head(running_qs[Priority]) = cpu
        /\ Priority \in Level /\ cpu \in Born /\ cpu \in Node
    BY <1>5, Runs DEF SwitchTimer, InSwitch
  <2>2. CASE ~CanSink
    <3>1. Maintain(Rotated, tcb)
      BY <1>5, <2>2 DEF SwitchTimer
    <3>2. Holding(Born, Rotated, waiting_queue, join_queue, Alive) /\ InLevels(Rotated, tcb)
      BY <1>1, <2>1, RotateHolds, RotatedLevels DEF InLevels
    <3> QED BY <1>1, <1>2, <3>1, <3>2, MaintainLevels
  <2>3. CASE CanSink
    <3>1. Maintain(qs, bs)
      BY <1>5, <2>3 DEF SwitchTimer
    <3>2. Priority + 1 \in Level /\ Priority + 1 # Priority /\ Priority \in Nat
      BY <2>1, <2>3, LevelFacts DEF CanSink
    <3>3. /\ bs \in [Node -> Block] /\ bs[cpu].thread_priority = Priority + 1
          /\ \A n \in Node \ {cpu} : bs[n] = tcb[n]
      <4>1. tcb[cpu] \in Block /\ tcb[cpu].thread_priority = Priority
        BY <1>1, <2>1 DEF Priority
      <4> QED BY <1>1, <2>1, <3>2, <4>1 DEF Block
    <3>4. /\ cpu \in Alive /\ Holding(Born, Dequeued, waiting_queue, join_queue, Alive \ {cpu})
      BY <1>1, <2>1, DequeueHolds
    <3>5. /\ Dequeued \in [Level -> Seq(Born)] /\ qs[Priority + 1] = Append(Dequeued[Priority + 1], cpu)
          /\ \A l \in Level \ {Priority + 1} : qs[l] = Dequeued[l]
      BY <2>1, <3>2, <3>4 DEF Holding
    <3>6. Holding(Born, qs, waiting_queue, join_queue, (Alive \ {cpu}) \cup {cpu})
      <4>1. qs = [Dequeued EXCEPT ![Priority + 1] = Append(@, cpu)]
        BY <2>1
      <4> HIDE DEF qs
      <4> QED BY <2>1, <3>2, <3>4, <4>1, PutReady
    <3>7. Range(Append(Dequeued[Priority + 1], cpu)) = Range(Dequeued[Priority + 1]) \cup {cpu}
      <4>1. /\ Dequeued[Priority + 1] \in Seq(Born) /\ Distinct(Dequeued[Priority + 1])
            /\ Members(Dequeued) \subseteq Alive \ {cpu}
        BY <3>2, <3>4 DEF Holding, Parted, Standing
      <4>2. cpu \notin Range(Dequeued[Priority + 1])
        BY <3>2, <4>1, InMembers
      <4> QED BY <2>1, <4>1, <4>2, AppendDistinct
    <3> HIDE DEF qs, bs
    <3>8. ASSUME NEW l \in Level, NEW n \in Range(qs[l]) PROVE bs[n].thread_priority = l
      <4>1. Range(Dequeued[l]) = Range(running_qs[l]) \ {cpu}
        BY <2>1, RotatedLevels
      <4>2. CASE n = cpu
        <5>1. l = Priority + 1
          BY <3>5, <3>8, <4>1, <4>2
        <5> QED BY <3>3, <4>2, <5>1
      <4>3. CASE n # cpu
        <5>1. n \in Range(running_qs[l])
          BY <3>5, <3>7, <3>8, <4>1, <4>3
        <5>2. n \in Node /\ tcb[n].thread_priority = l
          BY <1>1, <5>1 DEF InLevels
        <5> QED BY <3>3, <4>3, <5>2
      <4> QED BY <4>2, <4>3
    <3>9. InLevels(qs, bs)
      BY <3>8 DEF InLevels
    <3> QED BY <1>1, <1>2, <3>1, <3>3, <3>6, <3>9, MaintainLevels
  <2> QED BY <2>2, <2>3
<1>6. CASE Dispatch
  <2>1. running_qs' \in {running_qs, Rotated} /\ tcb' = tcb /\ FrontIsCurrent => Queued
    BY <1>6, FrontRuns DEF Dispatch, AfterPick
  <2>2. running_qs' = running_qs \/ (running_qs' = Rotated /\ Queued)
    BY <1>6, <2>1, FrontRuns DEF Dispatch, AfterPick
  <2>3. tcb' = tcb
    BY <1>6 DEF Dispatch
  <2> QED BY <1>1, <1>2, <2>2, <2>3, RotatedLevels DEF InLevels
<1>7. CASE ExitWake
  <2> DEFINE n == Head(join_queue)
  <2>1. CASE Joins(n)
    <3>1. /\ tcb' = [tcb EXCEPT ![n].value_ptr = call[cpu].arg, ![n].thread_priority = 0]
          /\ running_qs' = [running_qs EXCEPT ![0] = Append(@, n)]
      BY <1>7, <2>1 DEF ExitWake
    <3>2. n \in Node /\ n \notin Members(running_qs)
      <4>1. join_queue # << >>
        BY <1>7, CallFacts DEF ExitWake, MoreJoiners, InOrder, CallRecord
      <4>2. n \in Born /\ n \in Range(join_queue)
        BY <1>1, <4>1, TakeJoining DEF Hold
      <4> QED BY <1>1, <4>2 DEF Hold, Holding, Parted
    <3> HIDE DEF n
    <3>3. tcb'[n].thread_priority = 0 /\ \A k \in Node \ {n} : tcb'[k] = tcb[k]
      <4>1. tcb[n] \in Block
        BY <1>1, <3>2
      <4> QED BY <1>1, <3>1, <3>2, <4>1 DEF Block
    <3> QED BY <1>2, <3>1, <3>2, <3>3, WokenLevels
  <2>2. CASE ~Joins(n)
    <3>1. UNCHANGED <<tcb, running_qs>>
      BY <1>7, <2>2 DEF ExitWake
    <3> QED BY <1>1, <1>2, <3>1
  <2> QED BY <2>1, <2>2
<1>8. CASE UnlockWake
  <2> DEFINE n == Head(waiting_queue)
  <2>1. CASE Matches(call[cpu].arg) = {}
    <3>1. UNCHANGED <<tcb, running_qs>>
      BY <1>8, <2>1 DEF UnlockWake
    <3> QED BY <1>1, <1>2, <3>1
  <2>2. CASE Matches(call[cpu].arg) # {}
    <3>1. waiting_queue # << >> /\ At("unlockWake")
      <4>1. waiting_queue # << >>
        BY <2>2 DEF Matches
      <4>2. At("unlockWake")
        BY <1>8 DEF UnlockWake
      <4> QED BY <4>1, <4>2
    <3>2. /\ tcb' = [tcb EXCEPT ![n].mid = -1, ![n].thread_priority = 0]
          /\ running_qs' = [running_qs EXCEPT ![0] = Append(@, n)]
      <4> DEFINE temp == waiting_queue[Top(Matches(call[cpu].arg))]
      <4>1. temp = n
        BY <3>1, HeadMatches
      <4>2. /\ tcb' = [tcb EXCEPT ![temp].mid = -1, ![temp].thread_priority = 0]
            /\ running_qs' = [running_qs EXCEPT ![0] = Append(@, n)]
        BY <1>8, <2>2 DEF UnlockWake
      <4> HIDE DEF temp, n
      <4> QED BY <4>1, <4>2
    <3>3. n \in Node /\ n \notin Members(running_qs)
      BY <1>1, <3>1, HeadMatches DEF Hold, Holding, Parted
    <3> HIDE DEF n
    <3>4. tcb'[n].thread_priority = 0 /\ \A k \in Node \ {n} : tcb'[k] = tcb[k]
      <4>1. tcb[n] \in Block
        BY <1>1, <3>3
      <4> QED BY <1>1, <3>2, <3>3, <4>1 DEF Block
    <3> QED BY <1>2, <3>2, <3>3, <3>4, WokenLevels
  <2> QED BY <2>1, <2>2
<1>9. CASE Create
  <2>1. /\ tcb' = [tcb EXCEPT ![nodeCount] = NewBlock(threadCount)]
        /\ running_qs' = [running_qs EXCEPT ![0] = Append(@, nodeCount)]
    BY <1>9 DEF Create
  <2>2. nodeCount \in Node /\ nodeCount \notin Born
    BY <1>9, CreateIs
  <2>3. nodeCount \notin Members(running_qs)
    BY <1>1, <2>2, InMembers
  <2>4. tcb'[nodeCount].thread_priority = 0 /\ \A k \in Node \ {nodeCount} : tcb'[k] = tcb[k]
    BY <1>1, <2>1, <2>2 DEF NewBlock
  <2> QED BY <1>2, <2>1, <2>2, <2>3, <2>4, WokenLevels
<1>10. CASE CreateFirst
  <2>1. /\ tcb' = [tcb EXCEPT ![0] = NewBlock(0), ![1] = NewBlock(1)]
        /\ running_qs' = [running_qs EXCEPT ![0] = <<1, 0>>]
    BY <1>10 DEF CreateFirst
  <2>2. tcb'[0].thread_priority = 0 /\ tcb'[1].thread_priority = 0 /\ Alive' = {0, 1} /\ Born = {}
    BY <1>1, <1>10, <2>1, CreateFirstIs DEF NewBlock
  <2>3. \A l \in Level : Range(running_qs[l]) = {}
    BY <1>1, <2>2
  <2>4. \A l \in Level : l # 0 => Range(running_qs'[l]) = {}
    BY <1>1, <2>1, <2>3 DEF Hold, Holding
  <2>5. Range(running_qs'[0]) \subseteq {0, 1}
    <3>1. Standing(running_qs', waiting_queue', join_queue') = {0, 1}
      BY <2>2 DEF PlaceInv, Hold, Holding
    <3>2. Range(running_qs'[0]) \subseteq Members(running_qs')
      BY LevelFacts, InMembers
    <3> QED BY <3>1, <3>2 DEF Standing
  <2> QED BY <1>2, <2>2, <2>4, <2>5 DEF InLevels
<1>11. CASE /\ ~CreateFirst /\ ~Create /\ ~ExitWake /\ ~UnlockWake /\ ~SwitchTimer /\ ~SwitchYield
            /\ ~SwitchExit /\ ~SwitchJoin /\ ~SwitchBlocked /\ ~Dispatch
  <2>1. running_qs' = running_qs
    BY <1>11, QueuesAlone DEF queues
  <2>2. \A n \in Node : tcb'[n].thread_priority = tcb[n].thread_priority
    BY <1>1, <1>11, PriorityKept
  <2> QED BY <1>1, <1>2, <2>1, <2>2 DEF InLevels
<1> QED BY <1>3, <1>4, <1>5, <1>6, <1>7, <1>8, <1>9, <1>10, <1>11

\* At the dispatch nothing else happens.
LEMMA DispatchOnly ==
  ASSUME Orderly, InOrder, [Next]_vars, proc = "run", Point = "dispatch"
  PROVE  Dispatch \/ UNCHANGED vars
<1>1. \A p : At(p) => Point = p
  BY DEF At, Point
<1>2. ~(\/ SchedulerBusy \/ SwitchNone \/ SwitchFirst \/ SwitchTimer \/ SwitchYield
        \/ SwitchExit \/ SwitchJoin \/ SwitchBlocked)
  BY DEF SchedulerBusy, SwitchNone, SwitchFirst, SwitchTimer, SwitchYield, SwitchExit,
         SwitchJoin, SwitchBlocked, InSwitch
<1>3. ~(DispatchNone \/ Fault)
  BY SomebodyRuns, NoNull DEF DispatchNone, Fault
<1>4. ~(\/ CreateCount \/ ExitWake \/ ExitRecord \/ JoinWait \/ JoinReturn
        \/ LockTest \/ LockBlock \/ LockTake \/ UnlockWake
        \/ MallocSwaps \/ MallocMeta \/ MallocReturn \/ MallocGivesUp)
  BY <1>1 DEF CreateCount, ExitWake, ExitRecord, JoinWait, JoinReturn, LockTest, LockBlock,
              LockTake, UnlockWake, MallocSwaps, MallocMeta, MallocReturn, MallocGivesUp
<1>5. ~(\/ CreateFirst \/ Create \/ Yield \/ Exit \/ Join \/ MainReturns
        \/ MutexInit \/ Lock \/ Unlock \/ MutexDestroy \/ MallocEnter)
  BY <1>1 DEF CreateFirst, Create, Yield, Exit, Join, MainReturns, MutexInit, Lock, Unlock,
              MutexDestroy, MallocEnter, InUser
<1>6. ~(TimerFires \/ Ended)
  BY DEF TimerFires, Ended, Orderly
<1> QED BY <1>2, <1>3, <1>4, <1>5, <1>6 DEF Next, Library, Client

\* Only updateQueue leads there.
LEMMA PointNext ==
  ASSUME Orderly, InOrder, [Next]_vars, proc = "run", Point # "dispatch",
         ~CreateFirst, ~Create,
         ~SwitchFirst, ~SwitchTimer, ~SwitchYield, ~SwitchExit, ~SwitchJoin, ~SwitchBlocked
  PROVE  Point' # "dispatch"
<1>1. ~Dispatch /\ cpu' = cpu /\ TypeInv
  BY PointStep DEF Dispatch, InOrder
<1>2. CASE SchedulerBusy \/ SwitchNone
  <2>1. sig' = "none" /\ Point = "update"
    BY <1>2 DEF SchedulerBusy, SwitchNone, InSwitch, ReturnFromScheduler
  <2>2. call'[cpu].at # "dispatch"
    <3>1. CASE sig = "none"
      BY <1>2, <3>1, CpuFacts, CallFacts
         DEF SchedulerBusy, SwitchNone, ReturnFromScheduler, Resumed, Idle, CallRecord
    <3>2. CASE sig # "none"
      <4>1. call' = call
        BY <1>2, <3>2 DEF SchedulerBusy, SwitchNone, ReturnFromScheduler
      <4> QED BY <3>2, <4>1, CpuFacts DEF FlagInv, Resting
    <3> QED BY <3>1, <3>2
  <2> QED BY <1>1, <2>1, <2>2 DEF Point
<1>3. CASE DispatchNone \/ Fault
  BY <1>3, SomebodyRuns, NoNull DEF DispatchNone, Fault
<1>4. CASE \/ CreateCount \/ ExitRecord \/ JoinWait \/ LockBlock \/ LockTest
  <2>1. (\E p \in Points \ {"dispatch"} : Goto(p)) /\ sig' = "none"
    BY <1>4 DEF CreateCount, ExitRecord, JoinWait, LockBlock, LockTest, Points, At
  <2> QED BY <1>1, <2>1, GotoIs DEF Point
<1>5. CASE JoinReturn \/ LockTake \/ UnlockWake \/ MallocReturn \/ MallocGivesUp
  <2>1. ReturnToUser /\ sig' = "none"
    BY <1>5 DEF JoinReturn, LockTake, UnlockWake, MallocReturn, MallocGivesUp, At
  <2> QED BY <1>1, <2>1, ReturnIs DEF Point
<1>6. CASE ExitWake
  BY <1>1, <1>6, CallFacts DEF ExitWake, At, Point, CallRecord
<1>7. CASE Yield \/ Exit \/ Join \/ Lock \/ Unlock \/ MallocEnter
  <2>1. (\E o, a : \E p \in Points \ {"dispatch"} : Enter(o, p, a)) /\ sig' = "none"
    BY <1>7 DEF Yield, Exit, Join, Lock, Unlock, MallocEnter, Points, InUser, At
  <2> QED BY <1>1, <2>1, EnterIs DEF Point
<1>8. CASE TimerFires
  BY <1>8 DEF TimerFires, Point
<1>9. CASE \/ MallocSwaps \/ MallocMeta \/ MainReturns \/ MutexInit \/ MutexDestroy
           \/ Ended \/ UNCHANGED vars
  BY <1>9 DEF MallocSwaps, MallocMeta, MainReturns, MutexInit, MutexDestroy, Ended, vars, Point
<1> QED BY <1>1, <1>2, <1>3, <1>4, <1>5, <1>6, <1>7, <1>8, <1>9 DEF Next, Library, Client

\* What is appended to a level that is not empty stays behind its front.
LEMMA FrontKept ==
  ASSUME InOrder, proc = "run", Point # "dispatch", cpu' = cpu, current' = current,
         tcb'[cpu].thread_priority = tcb[cpu].thread_priority,
         \A l \in Level : \/ running_qs'[l] = running_qs[l]
                          \/ \E n \in Node : running_qs'[l] = Append(running_qs[l], n)
  PROVE  InFront'
<1>1. /\ current = cpu /\ Priority \in Level /\ running_qs[Priority] # << >>
      /\ Head(running_qs[Priority]) = cpu
  BY Runs DEF Queued
<1>2. running_qs[Priority] \in Seq(Node)
  <2>1. running_qs[Priority] \in Seq(Born) /\ Born \subseteq Node
    BY <1>1, BornFacts DEF InOrder, TypeInv, QueueInv, CountInv
  <2> QED BY <2>1, SeqMonotonic
<1>3. Priority' = Priority
  BY <1>1 DEF Priority
<1>4. ASSUME NEW q \in Seq(Node), q # << >>, NEW n \in Node
      PROVE  Append(q, n) # << >> /\ Head(Append(q, n)) = Head(q)
  BY <1>4
<1>5. running_qs'[Priority] # << >> /\ Head(running_qs'[Priority]) = cpu
  BY <1>1, <1>2, <1>4
<1> QED BY <1>1, <1>3, <1>5 DEF InFront

\* A process that has ended does nothing.
LEMMA EndedStutters ==
  ASSUME proc # "run", proc # "init", [Next]_vars
  PROVE  UNCHANGED vars
<1>1. ~Library
  BY DEF Library, SchedulerBusy, SwitchNone, SwitchFirst, SwitchTimer, SwitchYield,
         SwitchExit, SwitchJoin, SwitchBlocked, InSwitch, Dispatch, DispatchNone,
         CreateCount, ExitWake, ExitRecord, JoinWait, JoinReturn, LockTest, LockBlock,
         LockTake, UnlockWake, MallocSwaps, MallocMeta, MallocReturn, MallocGivesUp, At
<1>2. ~(Client \/ TimerFires \/ Fault)
  BY DEF Client, CreateFirst, Create, Yield, Exit, Join, MainReturns, MutexInit, Lock,
         Unlock, MutexDestroy, MallocEnter, InUser, At, TimerFires, Fault
<1> QED BY <1>1, <1>2 DEF Next, Ended

LEMMA FrontStep ==
  ASSUME Orderly, InOrder, TypeInv', [Next]_vars
  PROVE  FrontInv'
<1>1. CASE UNCHANGED vars
  BY <1>1 DEF vars, queues, InOrder, OrderInv, FrontInv, InFront, Point, Priority
<1>2. CASE CreateFirst
  <2>1. 0 \in Node /\ 1 \in Node /\ 0 \in Level /\ tcb \in [Node -> Block]
    BY <1>2, CreateFirstIs, LevelFacts DEF InOrder, TypeInv, DataInv
  <2>2. tcb'[1].thread_priority = 0 /\ running_qs'[0] = <<1, 0>>
    BY <1>2, <2>1 DEF CreateFirst, NewBlock, InOrder, TypeInv, QueueInv
  <2>3. /\ cpu' = 1 /\ current' = 1 /\ sig' = "none" /\ call'[1].at = "user"
    BY <1>2, CreateFirstIs DEF Idle
  <2>4. InFront'
    BY <2>2, <2>3 DEF InFront, Priority
  <2>5. Point' # "dispatch"
    BY <2>3 DEF Point
  <2> QED BY <2>4, <2>5 DEF FrontInv
<1>3. CASE proc = "run" /\ Point = "dispatch" /\ Dispatch
  <2>1. /\ cpu' = NewContext /\ current' = NewContext /\ running_qs' = AfterPick /\ tcb' = tcb
        /\ cpu' \in Node
    BY <1>3 DEF Dispatch, TypeInv, QueueInv
  <2>2. InFront'
    BY <1>3, <2>1, PickedInFront DEF InFront, Priority
  <2>3. sig' = "none" /\ call'[cpu'].at \in Resting
    BY <1>3, <2>1, DispatchLives, DispatchLeaves
  <2> QED BY <2>2, <2>3 DEF FrontInv, Point, Resting
<1>4. CASE /\ proc = "run" /\ Point # "dispatch"
           /\ \/ SwitchFirst \/ SwitchTimer \/ SwitchYield
              \/ SwitchExit \/ SwitchJoin \/ SwitchBlocked
  <2>1. /\ ToDispatch /\ Point = "update" /\ cpu' = cpu /\ current = cpu /\ cpu \in Node /\ current # NoNode
    BY <1>4, Runs DEF SwitchFirst, SwitchTimer, SwitchYield, SwitchExit, SwitchJoin,
                      SwitchBlocked, InSwitch
  <2>2. Point' = "dispatch"
    <3>1. CASE sig = "none"
      <4>1. Goto("dispatch") /\ sig' = "none"
        BY <2>1, <3>1 DEF ToDispatch
      <4> QED BY <2>1, <4>1, GotoIs DEF Point, InOrder
    <3>2. CASE sig # "none"
      BY <2>1, <3>2 DEF ToDispatch, Point
    <3> QED BY <3>1, <3>2
  <2>3. \/ current' = NoNode /\ fc' = "PEXIT"
        \/ current' = current /\ fc' # "PEXIT"
    BY <1>4 DEF SwitchFirst, SwitchTimer, SwitchYield, SwitchExit, SwitchJoin,
                SwitchBlocked, InSwitch
  <2> QED BY <2>1, <2>2, <2>3 DEF FrontInv
<1>5. CASE /\ proc = "run" /\ Point # "dispatch" /\ ~CreateFirst
           /\ ~SwitchFirst /\ ~SwitchTimer /\ ~SwitchYield
           /\ ~SwitchExit /\ ~SwitchJoin /\ ~SwitchBlocked
  <2>1. /\ ~Dispatch /\ current' = current /\ cpu \in Node /\ tcb \in [Node -> Block]
        /\ running_qs \in [Level -> Seq(Born)] /\ cpu \in Born /\ Born \subseteq Node
        /\ cpu \notin Range(waiting_queue) /\ cpu \notin Range(join_queue)
    BY <1>5, CurrentKept, Runs, BornFacts
       DEF Dispatch, InOrder, TypeInv, DataInv, QueueInv, CountInv
  <2> HIDE DEF Range
  <2>2. CASE Create
    <3>1. /\ running_qs' = [running_qs EXCEPT ![0] = Append(@, nodeCount)]
          /\ tcb' = [tcb EXCEPT ![nodeCount] = NewBlock(threadCount)]
      BY <2>2 DEF Create
    <3>2. nodeCount \in Node /\ nodeCount # cpu /\ cpu' = cpu /\ Point' = "createCount"
      BY <2>2, CreateIs DEF Point
    <3>3. InFront'
      BY <1>5, <2>1, <3>1, <3>2, FrontKept
    <3> QED BY <3>2, <3>3 DEF FrontInv
  <2>3. CASE ~Create
    <3>1. Point' # "dispatch" /\ cpu' = cpu
      BY <1>5, <2>1, <2>3, PointNext, PointStep
    <3>2. CASE ExitWake
      <4> DEFINE n == Head(join_queue)
      <4>1. n \in Node /\ n # cpu
        <5>1. join_queue # << >>
          BY <3>2, CallFacts DEF ExitWake, MoreJoiners, InOrder, CallRecord
        <5>2. n \in Born /\ n \in Range(join_queue)
          BY <5>1, TakeJoining DEF InOrder, OrderInv, PlaceInv, Hold
        <5> QED BY <2>1, <5>2
      <4>2. /\ \/ running_qs' = running_qs
               \/ running_qs' = [running_qs EXCEPT ![0] = Append(@, n)]
            /\ \/ tcb' = tcb
               \/ tcb' = [tcb EXCEPT ![n].value_ptr = call[cpu].arg, ![n].thread_priority = 0]
        BY <3>2 DEF ExitWake
      <4> HIDE DEF n
      <4>3. tcb'[cpu] = tcb[cpu]
        BY <2>1, <4>1, <4>2
      <4>4. \A l \in Level : \/ running_qs'[l] = running_qs[l]
                             \/ running_qs'[l] = Append(running_qs[l], n)
        BY <2>1, <4>2
      <4>5. InFront'
        BY <1>5, <2>1, <3>1, <4>1, <4>3, <4>4, FrontKept
      <4> QED BY <3>1, <4>5 DEF FrontInv
    <3>3. CASE UnlockWake
      <4> DEFINE n == Head(waiting_queue)
                 temp == waiting_queue[Top(Matches(call[cpu].arg))]
      <4>1. CASE Matches(call[cpu].arg) = {}
        <5>1. UNCHANGED <<tcb, running_qs>>
          BY <3>3, <4>1 DEF UnlockWake
        <5>2. InFront'
          BY <1>5, <2>1, <3>1, <5>1, FrontKept
        <5> QED BY <3>1, <5>2 DEF FrontInv
      <4>2. CASE Matches(call[cpu].arg) # {}
        <5>1. waiting_queue # << >>
          BY <4>2 DEF Matches
        <5>2. At("unlockWake")
          BY <3>3 DEF UnlockWake
        <5>3. temp = n /\ n \in Node /\ n # cpu
          BY <2>1, <5>1, <5>2, HeadMatches
        <5>4. /\ tcb' = [tcb EXCEPT ![temp].mid = -1, ![temp].thread_priority = 0]
              /\ running_qs' = [running_qs EXCEPT ![0] = Append(@, n)]
          BY <3>3, <4>2 DEF UnlockWake
        <5> HIDE DEF temp, n
        <5>5. tcb'[cpu] = tcb[cpu]
          BY <2>1, <5>3, <5>4
        <5>6. \A l \in Level : \/ running_qs'[l] = running_qs[l]
                               \/ running_qs'[l] = Append(running_qs[l], n)
          BY <2>1, <5>4
        <5>7. InFront'
          BY <1>5, <2>1, <3>1, <5>3, <5>5, <5>6, FrontKept
        <5> QED BY <3>1, <5>7 DEF FrontInv
      <4> QED BY <4>1, <4>2
    <3>4. CASE ~ExitWake /\ ~UnlockWake
      <4>1. running_qs' = running_qs
        BY <1>5, <2>1, <2>3, <3>4, QueuesAlone DEF queues
      <4>2. tcb'[cpu].thread_priority = tcb[cpu].thread_priority
        BY <1>5, <2>1, <2>3, <3>4, PriorityKept DEF InOrder
      <4>3. InFront'
        BY <1>5, <2>1, <3>1, <4>1, <4>2, FrontKept
      <4> QED BY <3>1, <4>3 DEF FrontInv
    <3> QED BY <3>2, <3>3, <3>4
  <2> QED BY <2>2, <2>3
<1>6. CASE proc # "run" /\ ~CreateFirst
  <2>1. CASE proc = "init"
    BY <1>1, <1>6, <2>1, InitStutters
  <2>2. CASE proc # "init"
    BY <1>1, <1>6, <2>2, EndedStutters
  <2> QED BY <2>1, <2>2
<1> QED BY <1>1, <1>2, <1>3, <1>4, <1>5, <1>6, DispatchOnly

-----------------------------------------------------------------------------
(* Joins and exits.                                                        *)

\* The dispatch does not happen in the middle of my_pthread_exit's loop.
LEMMA DispatchPoint ==
  ASSUME Orderly, InOrder, Dispatch
  PROVE  call[cpu].at \in {"dispatch", "user", "malloc", "joinDone", "lockTest", "unlockWake"}
<1>1. Point = "dispatch"
  BY DEF Dispatch
<1> QED BY <1>1, CpuFacts DEF Point, FlagInv, Orderly

\* Whoever joins goes on to the return of its join.
LEMMA DispatchJoiner ==
  ASSUME Orderly, InOrder, Dispatch, call[cpu].op = "join"
  PROVE  call'[cpu].op = "join" /\ call'[cpu].arg = call[cpu].arg /\ call'[cpu].at = "joinDone"
<1>1. ReturnFromScheduler /\ TypeInv
  BY DispatchLeaves DEF Dispatch, InOrder
<1>2. call'[cpu].op = "join" /\ call'[cpu].arg = call[cpu].arg
  <2>1. CASE sig = "none"
    BY <1>1, <2>1, CallFacts DEF ReturnFromScheduler, Resumed, CallRecord
  <2>2. CASE sig # "none"
    BY <1>1, <2>2 DEF ReturnFromScheduler
  <2> QED BY <2>1, <2>2
<1>3. call'[cpu].at \in Resting /\ ShapeOK(call'[cpu])
  BY DispatchLeaves
<1> QED BY <1>2, <1>3 DEF ShapeOK, Resting

\* Between the entry and the return of a join or an exit, only its own steps move it.
JoinExitCalm ==
  /\ call'[cpu].op \in {"join", "exit"} => call[cpu].op = call'[cpu].op
  /\ call[cpu].op = "exit" => call'[cpu].op = "exit"
  /\ call[cpu].op \in {"join", "exit"} =>
       \/ call'[cpu] = call[cpu]
       \/ JoinReturn /\ call'[cpu].op = "none"
       \/ call[cpu].at = "update" /\ call[cpu].op = "exit" /\ call'[cpu].at = "dispatch"

LEMMA JoinExitStays ==
  ASSUME Orderly, InOrder, [Next]_vars, ~CreateFirst, ~Create, ~Dispatch, ~Join, ~JoinWait,
         ~SwitchJoin, ~Exit, ~ExitWake, ~ExitRecord
  PROVE  JoinExitCalm
<1> USE DEF JoinExitCalm
<1>1. /\ TypeInv /\ call[cpu].op \in Ops /\ ShapeOK(call[cpu]) /\ FlagInv /\ call[cpu].at # "dead"
      /\ call[cpu] \in CallRecord
  BY CpuFacts DEF InOrder, OrderInv, ShapeInv
<1>2. CASE SchedulerBusy \/ SwitchNone
  <2>1. CASE sig # "none"
    <3>1. call' = call
      BY <1>2, <2>1 DEF SchedulerBusy, SwitchNone, ReturnFromScheduler
    <3> QED BY <3>1
  <2>2. CASE sig = "none"
    <3>1. call[cpu].at = "update" /\ ~mem_flag /\ fc = "NONE"
      BY <1>1, <1>2, <2>2 DEF SchedulerBusy, SwitchNone, InSwitch, Point, FlagInv
    <3>2. call[cpu].op \notin {"join", "exit"}
      BY <1>1, <2>2, <3>1 DEF FlagInv, FlagOK
    <3>3. call'[cpu] = Resumed(call[cpu])
      BY <1>1, <1>2, <2>2, CallFacts DEF SchedulerBusy, SwitchNone, ReturnFromScheduler
    <3>4. Resumed(call[cpu]).op \notin {"join", "exit"}
      BY <1>1, <3>2 DEF Resumed, Idle, CallRecord
    <3> QED BY <3>2, <3>3, <3>4
  <2> QED BY <2>1, <2>2
<1>3. CASE SwitchFirst \/ SwitchTimer \/ SwitchYield \/ SwitchBlocked \/ SwitchExit
  <2>1. CASE sig # "none"
    <3>1. call' = call
      BY <1>3, <2>1 DEF SwitchFirst, SwitchTimer, SwitchYield, SwitchBlocked, SwitchExit, ToDispatch
    <3> QED BY <3>1
  <2>2. CASE sig = "none"
    <3>1. Goto("dispatch") /\ call[cpu].at = "update" /\ fc # "JOIN" /\ (SwitchExit <=> fc = "PEXIT")
      BY <1>3, <2>2 DEF SwitchFirst, SwitchTimer, SwitchYield, SwitchBlocked, SwitchExit,
                        ToDispatch, InSwitch, Point
    <3>2. call'[cpu].at = "dispatch" /\ call'[cpu].op = call[cpu].op
      BY <1>1, <3>1, GotoIs
    <3>3. call[cpu].op # "join"
      BY <1>1, <2>2, <3>1 DEF FlagInv, FlagOK
    <3> QED BY <3>1, <3>2, <3>3
  <2> QED BY <2>1, <2>2
<1>4. CASE DispatchNone \/ Fault
  BY <1>4, SomebodyRuns, NoNull DEF DispatchNone, Fault
<1>5. CASE CreateCount \/ LockBlock \/ LockTest
  <2>1. (\E q \in Points : Goto(q)) /\ call[cpu].at \in {"createCount", "lockBlock", "lockTest"}
    BY <1>5 DEF CreateCount, LockBlock, LockTest, Points, At
  <2>2. call'[cpu].op = call[cpu].op
    BY <1>1, <2>1, GotoIs
  <2> QED BY <1>1, <2>1, <2>2 DEF ShapeOK
<1>6. CASE JoinReturn \/ LockTake \/ UnlockWake \/ MallocReturn \/ MallocGivesUp
  <2>1. ReturnToUser /\ call[cpu].at \in {"joinDone", "lockTake", "unlockWake", "malloc"}
    BY <1>6 DEF JoinReturn, LockTake, UnlockWake, MallocReturn, MallocGivesUp, At
  <2>2. call'[cpu].op = "none"
    BY <1>1, <2>1, ReturnIs
  <2>3. CASE JoinReturn
    BY <1>1, <2>1, <2>2, <2>3 DEF ShapeOK, JoinReturn, At
  <2>4. CASE ~JoinReturn
    <3>1. call[cpu].at # "joinDone"
      BY <1>6, <2>4 DEF LockTake, UnlockWake, MallocReturn, MallocGivesUp, At
    <3>2. call[cpu].op \notin {"join", "exit"}
      BY <1>1, <2>1, <3>1 DEF ShapeOK
    <3> QED BY <2>2, <3>2
  <2> QED BY <2>3, <2>4
<1>7. CASE Yield \/ Lock \/ Unlock \/ MallocEnter
  <2>1. (\E o \in {"yield", "lock", "unlock", "malloc"} : \E p, a : Enter(o, p, a))
        /\ call[cpu].at = "user"
    BY <1>7 DEF Yield, Lock, Unlock, MallocEnter, InUser, At
  <2>2. call'[cpu].op \in {"yield", "lock", "unlock", "malloc"}
    BY <1>1, <2>1, EnterIs
  <2> QED BY <1>1, <2>1, <2>2 DEF ShapeOK
<1>8. CASE \/ MallocSwaps \/ MallocMeta \/ MainReturns \/ MutexInit \/ MutexDestroy
           \/ TimerFires \/ Ended \/ UNCHANGED vars
  BY <1>8 DEF MallocSwaps, MallocMeta, MainReturns, MutexInit, MutexDestroy, TimerFires, Ended, vars
<1> QED BY <1>2, <1>3, <1>4, <1>5, <1>6, <1>7, <1>8 DEF Next, Library, Client

\* What the joins and the exits rest on.
LEMMA JoinTypes ==
  ASSUME InOrder
  PROVE  /\ TypeInv /\ JoinInv /\ ExitInv /\ ShapeInv
         /\ Node = Tid /\ Born \subseteq Node /\ cpu \in Node
         /\ Range(join_queue) \subseteq Node /\ join_queue \in Seq(Born)
         /\ \A n \in Node : /\ call[n].op = "join" => call[n].arg \in Node
                            /\ tcb[n].value_ptr # NotExited /\ call[n] \in CallRecord
                            /\ ShapeOK(call[n]) /\ call[n].op \in Ops
<1>1. /\ TypeInv /\ JoinInv /\ ExitInv /\ ShapeInv /\ Node = Tid /\ Born \subseteq Node /\ cpu \in Node
      /\ join_queue \in Seq(Born)
  BY BornFacts DEF InOrder, OrderInv, TypeInv, CountInv, QueueInv, Node, Tid
<1>2. Range(join_queue) \subseteq Node
  BY <1>1, RangeOf
<1> HIDE DEF Range
<1>3. ASSUME NEW n \in Node
      PROVE  /\ call[n].op = "join" => call[n].arg \in Node
             /\ tcb[n].value_ptr # NotExited /\ call[n] \in CallRecord
             /\ ShapeOK(call[n]) /\ call[n].op \in Ops
  <2>1. call[n] \in CallRecord /\ CallOK(call[n]) /\ tcb[n] \in Block /\ ShapeOK(call[n])
    BY <1>1 DEF TypeInv, CallInv, DataInv, ShapeInv
  <2>2. tcb[n].value_ptr \in Value
    BY <2>1 DEF Block
  <2> QED BY <1>1, <2>1, <2>2 DEF CallRecord, CallOK, Value, Tid, Null, NotExited
<1> QED BY <1>1, <1>2, <1>3

LEMMA JoinExitRest ==
  ASSUME Orderly, InOrder, [Next]_vars, ~CreateFirst, ~Create, ~Dispatch, ~Join, ~JoinWait,
         ~SwitchJoin, ~Exit, ~ExitWake, ~ExitRecord
  PROVE  JoinInv' /\ ExitInv'
<1>1. /\ TypeInv /\ JoinInv /\ ExitInv /\ cpu \in Node /\ Range(join_queue) \subseteq Node
      /\ join_queue \in Seq(Born) /\ Born \subseteq Node
      /\ \A n \in Node : call[n] \in CallRecord /\ ShapeOK(call[n]) /\ call[n].op \in Ops
  BY JoinTypes
<1>2. /\ Born' = Born /\ cpu' = cpu /\ \A n \in Node \ {cpu} : call'[n] = call[n]
      /\ exit_list' = exit_list /\ join_queue' = join_queue
      /\ ShapeOK(call'[cpu])
  BY <1>1, TidsKept, OthersKeepCall, PointStep, RecordsKept
<1>3. \A n \in Node : tcb'[n].join_id = tcb[n].join_id /\ tcb'[n].value_ptr = tcb[n].value_ptr
  BY <1>1, BlocksKept
<1>4. JoinExitCalm
  BY JoinExitStays
<1> HIDE DEF Range
<1>5. /\ call'[cpu].at = "exitWake" => call'[cpu].op = "exit" /\ call'[cpu] = call[cpu]
      /\ call'[cpu].op = "join" => call'[cpu] = call[cpu]
      /\ call[cpu].at = "exitWake" => call'[cpu] = call[cpu]
      /\ call'[cpu].op = "exit" <=> call[cpu].op = "exit"
      /\ call'[cpu].op = "exit" => (call'[cpu].at # "exitWake" <=> call[cpu].at # "exitWake")
      /\ call'[cpu].at = "joinDone" => call'[cpu].op = "join"
  <2>1. /\ call[cpu].at = "exitWake" => call[cpu].op = "exit"
        /\ call'[cpu].at = "exitWake" => call'[cpu].op = "exit"
        /\ call'[cpu].at = "joinDone" => call'[cpu].op = "join"
    <3>1. call'[cpu].op \in Ops
      BY <1>1, TypeStep DEF TypeInv, CallInv, CallRecord
    <3> QED BY <1>1, <1>2, <3>1 DEF ShapeOK, Ops
  <2>2. call[cpu].op = "exit" => ~JoinReturn
    BY <1>1 DEF ShapeOK, JoinReturn, At
  <2>3. call[cpu].op = "exit" \/ call'[cpu].op = "exit" =>
          /\ call[cpu].op = "exit" /\ call'[cpu].op = "exit"
          /\ \/ call'[cpu] = call[cpu]
             \/ call[cpu].at = "update" /\ call'[cpu].at = "dispatch"
    BY <1>4, <2>2 DEF JoinExitCalm
  <2>4. call'[cpu].op = "join" => call'[cpu] = call[cpu]
    BY <1>4 DEF JoinExitCalm
  <2> QED BY <2>1, <2>3, <2>4
<1>6. JoinInv'
  <2>1. \A n \in Node : call'[n].op = "join" => call'[n] = call[n]
    BY <1>2, <1>5
  <2>2. \A n \in Node : call'[n].op = "join" => <<n, call'[n].arg>> \in MayJoin /\ call'[n].arg \in Born
    BY <1>1, <2>1 DEF JoinInv
  <2>3. ASSUME NEW n \in Range(join_queue) PROVE call'[n] = call[n]
    <3>1. call[n].op = "join" /\ n \in Node
      BY <1>1 DEF JoinInv
    <3>2. CASE n # cpu
      BY <1>2, <3>1, <3>2
    <3>3. CASE n = cpu
      <4>1. ~JoinReturn
        BY <3>3, Runs DEF JoinReturn, At, Point
      <4> QED BY <1>4, <3>1, <3>3, <4>1 DEF JoinExitCalm
    <3> QED BY <3>2, <3>3
  <2> QED BY <1>1, <1>2, <1>3, <1>5, <2>2, <2>3 DEF JoinInv
<1>7. ExitInv'
  <2>1. ASSUME NEW n \in Node
        PROVE  /\ exit_list'[n] # NotExited <=> call'[n].op = "exit" /\ call'[n].at # "exitWake"
               /\ call'[n].op = "exit" => n \in MayExit
    BY <1>1, <1>2, <1>5 DEF ExitInv
  <2>2. call'[cpu'].at = "exitWake" =>
          \A k \in 1 .. Len(join_queue') :
            tcb'[join_queue'[k]].join_id = cpu' => k <= Len(join_queue') - call'[cpu'].i
    <3> SUFFICES ASSUME call'[cpu].at = "exitWake", NEW k \in 1 .. Len(join_queue),
                        tcb'[join_queue[k]].join_id = cpu
                 PROVE  k <= Len(join_queue) - call'[cpu].i
      BY <1>2
    <3>1. join_queue[k] \in Node
      BY <1>1
    <3>2. call'[cpu] = call[cpu] /\ call[cpu].at = "exitWake" /\ tcb[join_queue[k]].join_id = cpu
      BY <1>3, <1>5, <3>1
    <3> QED BY <1>1, <3>2 DEF ExitInv
  <2>3. ASSUME NEW n \in Node, call'[n].at = "joinDone"
        PROVE  n \in Range(join_queue') \/ Delivered(n)'
    <3>1. call'[n] = call[n]
      BY <1>2, <1>5, <2>3
    <3> QED BY <1>1, <1>2, <1>3, <1>5, <2>3, <3>1 DEF ExitInv, Delivered
  <2> QED BY <2>1, <2>2, <2>3 DEF ExitInv
<1> QED BY <1>6, <1>7

LEMMA JoinExitBirths ==
  ASSUME Orderly, InOrder, CreateFirst \/ Create
  PROVE  JoinInv' /\ ExitInv'
<1>1. /\ TypeInv /\ JoinInv /\ ExitInv /\ cpu \in Node /\ Range(join_queue) \subseteq Node
      /\ join_queue \in Seq(Born) /\ Born \subseteq Node
      /\ \A n \in Node : call[n] \in CallRecord /\ ShapeOK(call[n]) /\ call[n].op \in Ops
  BY JoinTypes
<1>2. exit_list' = exit_list /\ join_queue' = join_queue /\ Range(join_queue) \subseteq Born
  BY <1>1, RangeOf DEF CreateFirst, Create
<1> HIDE DEF Range
<1>3. CASE CreateFirst
  <2>1. /\ cpu' = 1 /\ 1 \in Node /\ call'[1].at = "user"
        /\ \A n \in Node : call'[n].op = "none" /\ call'[n].at # "joinDone" /\ call[n].op = "none"
    <3>1. \A n \in Node : (call'[n] = call[n] \/ call'[n] = Idle) /\ call[n].op = "none"
      BY <1>3, CreateFirstIs
    <3>2. \A n \in Node : call[n].at # "joinDone"
      BY <1>1, <3>1 DEF ShapeOK
    <3> QED BY <1>3, <3>1, <3>2, CreateFirstIs DEF Idle
  <2>2. Range(join_queue) = {}
    BY <1>2, <1>3, CreateFirstIs
  <2>3. JoinInv'
    BY <1>2, <2>1, <2>2 DEF JoinInv
  <2>4. ExitInv'
    BY <1>1, <1>2, <2>1 DEF ExitInv
  <2> QED BY <2>3, <2>4
<1>4. CASE Create
  <2>1. /\ cpu' = cpu /\ nodeCount \in Node /\ nodeCount \notin Born /\ nodeCount # cpu
        /\ call'[cpu].at = "createCount" /\ call'[cpu].op = "create"
        /\ call'[nodeCount].at = "user" /\ call'[nodeCount].op = "none"
        /\ call[cpu].at = "user" /\ call[nodeCount].op = "none"
        /\ \A n \in Node \ {cpu, nodeCount} : call'[n] = call[n]
        /\ Born \subseteq Born'
    BY <1>4, CreateIs DEF Idle
  <2>2. \A n \in Node \ {nodeCount} : tcb'[n] = tcb[n]
    BY <1>1, <1>4, <2>1 DEF Create, TypeInv, DataInv
  <2>3. call[cpu].op = "none"
    BY <1>1, <2>1 DEF ShapeOK, Ops
  <2>4. \A n \in Range(join_queue) : n \in Node \ {cpu, nodeCount}
    BY <1>1, <1>2, <2>1, <2>3 DEF JoinInv
  <2>5. JoinInv'
    BY <1>1, <1>2, <2>1, <2>2, <2>4 DEF JoinInv
  <2>6. ASSUME NEW n \in Node
        PROVE  /\ exit_list'[n] # NotExited <=> call'[n].op = "exit" /\ call'[n].at # "exitWake"
               /\ call'[n].op = "exit" => n \in MayExit
    BY <1>1, <1>2, <2>1, <2>3 DEF ExitInv
  <2>7. ASSUME NEW n \in Node, call'[n].at = "joinDone"
        PROVE  n \in Range(join_queue') \/ Delivered(n)'
    <3>1. n \in Node \ {cpu, nodeCount}
      BY <2>1, <2>7
    <3> QED BY <1>1, <1>2, <2>1, <2>2, <2>7, <3>1 DEF ExitInv, Delivered
  <2> QED BY <2>1, <2>5, <2>6, <2>7 DEF ExitInv
<1> QED BY <1>3, <1>4

LEMMA JoinExitDispatch ==
  ASSUME Orderly, InOrder, Dispatch
  PROVE  JoinInv' /\ ExitInv'
<1>1. /\ TypeInv /\ JoinInv /\ ExitInv /\ cpu \in Node /\ Range(join_queue) \subseteq Node
      /\ \A n \in Node : call[n] \in CallRecord /\ ShapeOK(call[n]) /\ call[n].op \in Ops
  BY JoinTypes
<1>2. /\ exit_list' = exit_list /\ join_queue' = join_queue /\ tcb' = tcb /\ Born' = Born
      /\ cpu' \in Node
  BY <1>1, BornFacts, DispatchLives DEF Dispatch, Alive, TypeInv, CountInv
<1> HIDE DEF Range
<1>3. /\ \A n \in Node \ {cpu} : call'[n] = call[n]
      /\ \A n \in Node : ShapeOK(call'[n]) /\ call'[n].at \in Resting
  BY DispatchLives
<1>4. /\ call[cpu].at # "exitWake"
      /\ call[cpu].op = "join" =>
           call'[cpu].op = "join" /\ call'[cpu].arg = call[cpu].arg /\ call'[cpu].at = "joinDone"
      /\ call'[cpu].op \in {"join", "exit"} => call'[cpu].op = call[cpu].op
      /\ call[cpu].op = "exit" => call'[cpu].op = "exit"
  <2>1. call[cpu].op = "exit" => call'[cpu].op = "exit"
    <3>1. call[cpu].op = "exit" => call'[cpu].at = "dead"
      BY DispatchLeaves
    <3>2. call'[cpu].at = "dead" => Goto("dead")
      BY DispatchLeaves DEF Dispatch
    <3> QED BY <1>1, <3>1, <3>2, GotoIs
  <2> QED BY <2>1, DispatchLeaves, DispatchPoint, DispatchJoiner
<1>5. JoinInv'
  <2>1. \A n \in Node : /\ call[n].op = "join" => call'[n].op = "join" /\ call'[n].arg = call[n].arg
                        /\ call'[n].op = "join" => call[n].op = "join" /\ call'[n].at = "joinDone"
    BY <1>3, <1>4 DEF ShapeOK, Resting
  <2>2. call'[cpu'].at \notin {"joinWait", "update", "dispatch"}
    BY <1>2, <1>3 DEF Resting
  <2> QED BY <1>1, <1>2, <2>1, <2>2 DEF JoinInv
<1>6. ExitInv'
  <2>1. \A n \in Node : call'[n].op = "exit" <=> call[n].op = "exit"
    BY <1>3, <1>4
  <2>2. \A n \in Node : call[n].op = "exit" => (call'[n].at # "exitWake" <=> call[n].at # "exitWake")
    BY <1>3, <1>4 DEF Resting
  <2>3. call'[cpu'].at # "exitWake"
    BY <1>2, <1>3 DEF Resting
  <2>4. ASSUME NEW n \in Node, call'[n].at = "joinDone"
        PROVE  n \in Range(join_queue') \/ Delivered(n)'
    <3>1. CASE n = cpu /\ call[cpu].at # "joinDone"
      <4>1. call[cpu].at = "dispatch" /\ call[cpu].op = "join"
        BY <2>4, <3>1, DispatchLeaves
      <4> QED BY <1>1, <1>2, <3>1, <4>1 DEF JoinInv
    <3>2. CASE n # cpu \/ call[cpu].at = "joinDone"
      <4>1. call[n].at = "joinDone" /\ call'[n].arg = call[n].arg
        <5>1. CASE n # cpu
          BY <1>3, <2>4, <5>1
        <5>2. CASE n = cpu
          <6>1. call[cpu].op = "join"
            BY <1>1, <3>2, <5>2 DEF ShapeOK, Ops
          <6> QED BY <1>4, <3>2, <5>2, <6>1
        <5> QED BY <5>1, <5>2
      <4>2. n \in Range(join_queue) \/ exit_list[call[n].arg] = tcb[n].value_ptr
        BY <1>1, <1>4, <4>1 DEF ExitInv, Delivered
      <4> QED BY <1>2, <4>1, <4>2 DEF Delivered
    <3> QED BY <3>1, <3>2
  <2> QED BY <1>1, <1>2, <2>1, <2>2, <2>3, <2>4 DEF ExitInv
<1> QED BY <1>5, <1>6

\* The running thread is the current one, its id is its number, and the other calls
\* stay as they are.
LEMMA JoinExitFrame ==
  ASSUME Orderly, InOrder, Next, Join \/ JoinWait \/ SwitchJoin \/ Exit \/ ExitWake \/ ExitRecord
  PROVE  /\ Born' = Born /\ cpu' = cpu /\ \A n \in Node \ {cpu} : call'[n] = call[n]
         /\ current = cpu /\ tcb[cpu].tid = cpu /\ Queued
         /\ Head(running_qs[Priority]) = cpu /\ cpu \notin Range(join_queue)
<1>1. proc = "run" /\ Point # "dispatch" /\ ~CreateFirst /\ ~Dispatch
  <2>1. proc = "run" /\ Point # "dispatch"
    BY DEF Join, JoinWait, SwitchJoin, Exit, ExitWake, ExitRecord, InUser, At, InSwitch, Point
  <2> QED BY <2>1 DEF CreateFirst, Dispatch
<1>2. ~Create
  <2>1. CASE Join \/ Exit
    <3>1. \E o \in {"join", "exit"} : \E q, a : Enter(o, q, a)
      BY <2>1 DEF Join, Exit
    <3>2. call'[cpu].op # "create"
      BY <3>1, EnterIs DEF InOrder
    <3> QED BY <3>2, CreateIs
  <2>2. CASE JoinWait \/ SwitchJoin \/ ExitWake \/ ExitRecord
    <3>1. Point # "user"
      BY <2>2 DEF JoinWait, SwitchJoin, ExitWake, ExitRecord, At, InSwitch, Point
    <3> QED BY <3>1, CreateIs DEF Point
  <2> QED BY <2>1, <2>2
<1> HIDE DEF Range
<1> QED BY <1>1, <1>2, Runs, PointStep, TidsKept, OthersKeepCall DEF InOrder

LEMMA JoinExitEnter ==
  ASSUME Orderly, InOrder, Next, Join \/ Exit
  PROVE  JoinInv' /\ ExitInv'
<1>1. /\ TypeInv /\ JoinInv /\ ExitInv /\ cpu \in Node /\ Range(join_queue) \subseteq Node
      /\ join_queue \in Seq(Born) /\ Born \subseteq Node /\ Node = Tid
      /\ \A n \in Node : call[n] \in CallRecord /\ ShapeOK(call[n]) /\ call[n].op \in Ops
  BY JoinTypes
<1>2. /\ Born' = Born /\ cpu' = cpu /\ \A n \in Node \ {cpu} : call'[n] = call[n]
      /\ tcb[current].tid = cpu /\ cpu \notin Range(join_queue)
  BY JoinExitFrame
<1>3. /\ exit_list' = exit_list /\ join_queue' = join_queue /\ tcb' = tcb
      /\ call[cpu].at = "user" /\ call[cpu].op = "none"
  <2>1. /\ exit_list' = exit_list /\ join_queue' = join_queue /\ tcb' = tcb
        /\ call[cpu].at = "user"
    BY DEF Join, Exit, queues, InUser, At
  <2> QED BY <1>1, <2>1 DEF ShapeOK, Ops
<1>4. ASSUME NEW n \in Node, call'[n].at = "joinDone", call'[cpu].at # "joinDone"
      PROVE  n \in Range(join_queue') \/ Delivered(n)'
  BY <1>1, <1>2, <1>3, <1>4 DEF ExitInv, Delivered
<1> HIDE DEF Range
<1>5. CASE Join
  <2>1. PICK t \in Tid : /\ <<cpu, t>> \in MayJoin /\ t < threadCount /\ exit_list[t] = NotExited
                         /\ Enter("join", "joinWait", t)
    BY <1>2, <1>5 DEF Join
  <2>2. /\ call'[cpu].op = "join" /\ call'[cpu].at = "joinWait" /\ call'[cpu].arg = t
    BY <1>1, <2>1, EnterIs
  <2>3. t \in Born
    <3>1. proc = "run"
      BY <1>5 DEF Join, InUser, At
    <3>2. t < nodeCount
      BY <1>1, <2>1, <3>1, CreatorsFinite DEF TypeInv, CountInv, Tid
    <3> QED BY <1>1, <2>1, <3>2 DEF Born, Tid, TypeInv, CountInv
  <2>4. JoinInv'
    BY <1>1, <1>2, <1>3, <2>1, <2>2, <2>3 DEF JoinInv
  <2>5. ASSUME NEW n \in Node
        PROVE  /\ exit_list'[n] # NotExited <=> call'[n].op = "exit" /\ call'[n].at # "exitWake"
               /\ call'[n].op = "exit" => n \in MayExit
    BY <1>1, <1>2, <1>3, <2>2 DEF ExitInv
  <2> QED BY <1>2, <1>4, <2>2, <2>4, <2>5 DEF ExitInv
<1>6. CASE Exit
  <2>1. cpu \in MayExit /\ \E v : Enter("exit", "exitWake", v)
    BY <1>2, <1>6 DEF Exit
  <2>2. call'[cpu].op = "exit" /\ call'[cpu].at = "exitWake" /\ call'[cpu].i = 0
    BY <1>1, <2>1, EnterIs
  <2>3. JoinInv'
    BY <1>1, <1>2, <1>3, <2>2 DEF JoinInv
  <2>4. ASSUME NEW n \in Node
        PROVE  /\ exit_list'[n] # NotExited <=> call'[n].op = "exit" /\ call'[n].at # "exitWake"
               /\ call'[n].op = "exit" => n \in MayExit
    BY <1>1, <1>2, <1>3, <2>1, <2>2 DEF ExitInv
  <2>5. \A k \in 1 .. Len(join_queue') : k <= Len(join_queue') - call'[cpu].i
    BY <1>1, <1>3, <2>2, LenProperties
  <2> QED BY <1>2, <1>4, <2>2, <2>3, <2>4, <2>5 DEF ExitInv
<1> QED BY <1>5, <1>6

LEMMA JoinSleeps ==
  ASSUME Orderly, InOrder, Next, JoinWait \/ SwitchJoin
  PROVE  JoinInv' /\ ExitInv'
<1>1. /\ TypeInv /\ JoinInv /\ ExitInv /\ cpu \in Node /\ Range(join_queue) \subseteq Node
      /\ join_queue \in Seq(Born) /\ Born \subseteq Node /\ FlagInv
      /\ \A n \in Node : call[n] \in CallRecord /\ ShapeOK(call[n]) /\ call[n].op \in Ops
  BY JoinTypes DEF InOrder, OrderInv
<1>2. /\ Born' = Born /\ cpu' = cpu /\ \A n \in Node \ {cpu} : call'[n] = call[n]
      /\ current = cpu /\ cpu \notin Range(join_queue) /\ Head(running_qs[Priority]) = cpu
      /\ cpu \in Born
  BY JoinExitFrame, PriorityType, <1>1 DEF Queued
<1>3. exit_list' = exit_list
  BY DEF JoinWait, SwitchJoin
<1>4. /\ ~CreateFirst /\ ~Create /\ ~ExitWake
  BY DEF JoinWait, SwitchJoin, CreateFirst, Create, ExitWake, InUser, At, InSwitch, Point
<1>5. \A n \in Node : tcb'[n].value_ptr = tcb[n].value_ptr
  BY <1>1, <1>4, BlocksKept
<1> HIDE DEF Range
<1>6. ASSUME call'[cpu].op = "join", call[cpu].op = "join", call[cpu].at # "joinDone",
             call[cpu].at # "exitWake", call'[cpu].at \notin {"joinDone", "exitWake"},
             Range(join_queue) \subseteq Range(join_queue')
      PROVE  ExitInv'
  <2>1. ASSUME NEW n \in Node
        PROVE  /\ exit_list'[n] # NotExited <=> call'[n].op = "exit" /\ call'[n].at # "exitWake"
               /\ call'[n].op = "exit" => n \in MayExit
    BY <1>1, <1>2, <1>3, <1>6 DEF ExitInv
  <2>2. ASSUME NEW n \in Node, call'[n].at = "joinDone"
        PROVE  n \in Range(join_queue') \/ Delivered(n)'
    BY <1>1, <1>2, <1>3, <1>5, <1>6, <2>2 DEF ExitInv, Delivered
  <2> QED BY <1>2, <1>6, <2>1, <2>2 DEF ExitInv
<1>7. CASE JoinWait
  <2>1. Goto("update") /\ call[cpu].at = "joinWait" /\ join_queue' = join_queue
        /\ tcb' = [tcb EXCEPT ![current].join_id = call[cpu].arg]
    BY <1>7 DEF JoinWait, At, queues
  <2>2. call'[cpu].at = "update" /\ call'[cpu].op = call[cpu].op /\ call'[cpu].arg = call[cpu].arg
    BY <1>1, <2>1, GotoIs
  <2>3. call[cpu].op = "join"
    BY <1>1, <2>1 DEF ShapeOK, Ops
  <2>4. tcb'[cpu].join_id = call[cpu].arg /\ \A n \in Node \ {cpu} : tcb'[n] = tcb[n]
    <3>1. tcb \in [Node -> Block] /\ tcb[cpu] \in Block
      BY <1>1 DEF TypeInv, DataInv
    <3> QED BY <1>1, <1>2, <2>1, <3>1 DEF Block
  <2>5. \A n \in Range(join_queue') :
          /\ call'[n].op = "join" /\ call'[n].at \in {"joinDone", "dispatch"}
          /\ tcb'[n].join_id = call'[n].arg /\ exit_list'[call'[n].arg] = NotExited
    <3>1. \A n \in Range(join_queue) : call'[n] = call[n] /\ tcb'[n] = tcb[n]
      BY <1>1, <1>2, <2>4
    <3> QED BY <1>1, <1>3, <2>1, <3>1 DEF JoinInv
  <2>6. \A n \in Node : call'[n].op = "join" =>
          <<n, call'[n].arg>> \in MayJoin /\ call'[n].arg \in Born
    BY <1>1, <1>2, <2>2 DEF JoinInv
  <2>7. exit_list'[call'[cpu].arg] = NotExited /\ tcb'[cpu].join_id = call'[cpu].arg
    BY <1>1, <1>3, <2>1, <2>2, <2>3, <2>4 DEF JoinInv
  <2>8. JoinInv'
    BY <1>2, <2>2, <2>5, <2>6, <2>7 DEF JoinInv
  <2> QED BY <1>6, <2>1, <2>2, <2>3, <2>8
<1>8. CASE SwitchJoin
  <2>1. sig = "none" /\ call[cpu].at = "update" /\ fc = "JOIN"
    BY <1>1, <1>8 DEF SwitchJoin, InSwitch, FlagInv, Point
  <2>2. call[cpu].op = "join"
    BY <1>1, <2>1 DEF FlagInv, FlagOK, ShapeOK, Ops
  <2>3. Goto("dispatch") /\ join_queue' = Append(join_queue, cpu)
    BY <1>2, <1>8, <2>1 DEF SwitchJoin, ToDispatch
  <2>4. call'[cpu].at = "dispatch" /\ call'[cpu].op = call[cpu].op /\ call'[cpu].arg = call[cpu].arg
    BY <1>1, <2>3, GotoIs
  <2>5. Range(join_queue') = Range(join_queue) \cup {cpu}
    <3>1. Distinct(join_queue)
      BY DEF InOrder, OrderInv, PlaceInv, Hold, Holding, Parted
    <3> QED BY <1>1, <1>2, <2>3, <3>1, AppendDistinct
  <2>6. \A n \in Node : tcb'[n].join_id = tcb[n].join_id
    <3>1. ~JoinWait
      BY <2>1 DEF JoinWait, At
    <3> QED BY <1>1, <1>4, <3>1, BlocksKept
  <2>7. \A n \in Range(join_queue') :
          /\ call'[n].op = "join" /\ call'[n].at \in {"joinDone", "dispatch"}
          /\ tcb'[n].join_id = call'[n].arg /\ exit_list'[call'[n].arg] = NotExited
    <3> SUFFICES ASSUME NEW n \in Range(join_queue')
                 PROVE  /\ call'[n].op = "join" /\ call'[n].at \in {"joinDone", "dispatch"}
                        /\ tcb'[n].join_id = call'[n].arg /\ exit_list'[call'[n].arg] = NotExited
      OBVIOUS
    <3>1. CASE n = cpu
      BY <1>1, <1>3, <2>1, <2>2, <2>4, <2>6, <3>1 DEF JoinInv
    <3>2. CASE n # cpu
      BY <1>1, <1>2, <1>3, <2>5, <2>6, <3>2 DEF JoinInv
    <3> QED BY <3>1, <3>2
  <2>8. JoinInv'
    BY <1>1, <1>2, <2>2, <2>4, <2>5, <2>7 DEF JoinInv
  <2> QED BY <1>6, <2>1, <2>2, <2>4, <2>5, <2>8
<1> QED BY <1>7, <1>8

LEMMA ExitLoop ==
  ASSUME Orderly, InOrder, Next, ExitWake
  PROVE  JoinInv' /\ ExitInv'
<1> DEFINE h == Head(join_queue)
           q == join_queue
<1>1. /\ TypeInv /\ JoinInv /\ ExitInv /\ cpu \in Node /\ Node = Tid
      /\ q \in Seq(Born) /\ Born \subseteq Node
      /\ \A n \in Node : call[n] \in CallRecord /\ ShapeOK(call[n]) /\ call[n].op \in Ops
                         /\ (call[n].op = "join" => call[n].arg \in Node)
  BY JoinTypes
<1>2. /\ Born' = Born /\ cpu' = cpu /\ \A n \in Node \ {cpu} : call'[n] = call[n]
      /\ tcb[current].tid = cpu /\ cpu \notin Range(q) /\ Distinct(q)
  BY JoinExitFrame DEF InOrder, OrderInv, PlaceInv, Hold, Holding, Parted
<1>3. /\ exit_list' = exit_list /\ call[cpu].at = "exitWake" /\ call[cpu].i < Len(q)
      /\ call' = [call EXCEPT ![cpu].i = @ + 1]
  BY DEF ExitWake, MoreJoiners, At
<1>4. /\ call'[cpu].at = "exitWake" /\ call'[cpu].op = call[cpu].op /\ call'[cpu].arg = call[cpu].arg
      /\ call'[cpu].i = call[cpu].i + 1 /\ call[cpu].i \in Nat /\ call[cpu].op = "exit"
  <2>1. call'[cpu] = [call[cpu] EXCEPT !.i = @ + 1] /\ call[cpu] \in CallRecord
    BY <1>1, <1>3 DEF TypeInv, CallInv
  <2>2. call[cpu].op = "exit"
    BY <1>1, <1>3 DEF ShapeOK, Ops
  <2> QED BY <1>3, <2>1, <2>2 DEF CallRecord
<1>5. /\ q # << >> /\ Len(q) \in Nat /\ Len(q) > 0 /\ h = q[1] /\ h \in Range(q) /\ h \in Node
      /\ Tail(q) \in Seq(Born) /\ Distinct(Tail(q)) /\ Range(Tail(q)) = Range(q) \ {h}
      /\ Len(Tail(q)) = Len(q) - 1 /\ \A k \in 1 .. Len(q) - 1 : Tail(q)[k] = q[k + 1]
      /\ h \in Born
  <2>1. Len(q) \in Nat /\ Len(q) > 0 /\ q # << >>
    BY <1>1, <1>3, <1>4
  <2> QED BY <1>1, <1>2, <2>1, TailDistinct, HeadTailProperties
<1>6. \A n \in Node \ {cpu} : call'[n] = call[n]
  BY <1>2
<1>7. /\ \A n \in Node : tcb'[n].join_id = tcb[n].join_id
      /\ \A n \in Node : n # h => tcb'[n].value_ptr = tcb[n].value_ptr
      /\ Joins(h) => tcb'[h].value_ptr = call[cpu].arg
      /\ ~Joins(h) => tcb' = tcb
  <2>1. /\ Joins(h) => tcb' = [tcb EXCEPT ![h].value_ptr = call[cpu].arg, ![h].thread_priority = 0]
        /\ ~Joins(h) => tcb' = tcb
    BY DEF ExitWake
  <2>2. tcb \in [Node -> Block] /\ tcb[h] \in Block
    BY <1>1, <1>5 DEF TypeInv, DataInv
  <2> HIDE DEF h
  <2> QED BY <1>5, <2>1, <2>2 DEF Block
<1>8. /\ Joins(h) => join_queue' = Tail(q)
      /\ ~Joins(h) => join_queue' = Append(Tail(q), h)
  BY DEF ExitWake
<1>9. Joins(h) <=> tcb[h].join_id = cpu
  BY <1>2 DEF Joins
<1> HIDE DEF Range, h
<1>10. /\ Joins(h) => Range(join_queue') = Range(q) \ {h}
       /\ ~Joins(h) => Range(join_queue') = Range(q)
  <2> DEFINE t == Tail(q)
  <2>1. t \in Seq(Born) /\ Distinct(t) /\ Range(t) = Range(q) \ {h} /\ h \in Born /\ h \in Range(q)
    BY <1>5
  <2> HIDE DEF t, q
  <2>2. Range(Append(t, h)) = Range(t) \cup {h}
    BY <2>1, AppendDistinct
  <2>3. Range(Append(t, h)) = Range(q)
    BY <2>1, <2>2
  <2> QED BY <1>8, <2>1, <2>3 DEF t
<1>11. Range(q) \subseteq Node /\ \A n \in Range(q) : n # cpu /\ call'[n] = call[n]
  <2>1. Range(q) \subseteq Born
    BY <1>1, RangeOf
  <2> QED BY <1>1, <1>2, <2>1
<1> HIDE DEF q
<1>12. JoinInv'
  <2>1. \A n \in Node : call'[n].op = "join" => <<n, call'[n].arg>> \in MayJoin /\ call'[n].arg \in Born
    BY <1>1, <1>2, <1>4 DEF JoinInv
  <2>2. \A n \in Range(join_queue') :
          /\ call'[n].op = "join" /\ call'[n].at \in {"joinDone", "dispatch"}
          /\ tcb'[n].join_id = call'[n].arg /\ exit_list'[call'[n].arg] = NotExited
    BY <1>1, <1>3, <1>7, <1>10, <1>11 DEF JoinInv, q
  <2> QED BY <1>2, <1>4, <2>1, <2>2 DEF JoinInv
<1>13. \A n \in Node : /\ exit_list'[n] # NotExited <=> call'[n].op = "exit" /\ call'[n].at # "exitWake"
                       /\ call'[n].op = "exit" => n \in MayExit
  BY <1>1, <1>2, <1>3, <1>4 DEF ExitInv
<1>14. \A k \in 1 .. Len(join_queue') :
         tcb'[join_queue'[k]].join_id = cpu => k <= Len(join_queue') - call'[cpu].i
  <2> SUFFICES ASSUME NEW k \in 1 .. Len(join_queue'), tcb'[join_queue'[k]].join_id = cpu
               PROVE  k <= Len(join_queue') - call'[cpu].i
    OBVIOUS
  <2>1. \A j \in 1 .. Len(q) : tcb[q[j]].join_id = cpu => j <= Len(q) - call[cpu].i
    BY <1>1, <1>3 DEF ExitInv, q
  <2>2. CASE Joins(h)
    <3>1. k \in 1 .. Len(q) - 1 /\ join_queue'[k] = q[k + 1] /\ k + 1 \in 1 .. Len(q)
      BY <1>5, <1>8, <2>2
    <3>2. q[k + 1] \in Range(q) /\ q[k + 1] \in Node /\ h \in Range(q)
      <4>1. q[k + 1] \in Range(q)
        BY <1>1, <3>1, RangeOf
      <4> QED BY <1>5, <1>11, <4>1
    <3>3. tcb[q[k + 1]].join_id = cpu /\ tcb[h].join_id = cpu
      BY <1>7, <1>9, <2>2, <3>1, <3>2
    <3>4. <<h, cpu>> \in MayJoin /\ <<q[k + 1], cpu>> \in MayJoin
      BY <1>1, <1>11, <3>2, <3>3 DEF JoinInv, q
    <3>5. h = q[k + 1]
      BY <1>1, <1>5, <3>2, <3>4 DEF Orderly
    <3>6. \A i, j \in 1 .. Len(q) : q[i] = q[j] => i = j
      BY <1>2 DEF Distinct
    <3>7. q[1] = q[k + 1] /\ 1 \in 1 .. Len(q) /\ k + 1 # 1
      BY <1>5, <3>1, <3>5
    <3> QED BY <3>1, <3>6, <3>7
  <2>3. CASE ~Joins(h)
    <3> DEFINE t == Tail(q)
    <3>0. /\ t \in Seq(Born) /\ h \in Born /\ Len(t) = Len(q) - 1 /\ Len(q) \in Nat /\ h \in Node
          /\ \A j \in 1 .. Len(q) - 1 : t[j] = q[j + 1]
          /\ join_queue' = Append(t, h)
      BY <1>5, <1>8, <2>3
    <3> HIDE DEF t
    <3>1. /\ Len(join_queue') = Len(q) /\ k \in 1 .. Len(q)
          /\ k < Len(q) => join_queue'[k] = q[k + 1]
          /\ k = Len(q) => join_queue'[k] = h
      <4>1. /\ Len(Append(t, h)) = Len(t) + 1
            /\ \A j \in 1 .. Len(t) : Append(t, h)[j] = t[j]
            /\ Append(t, h)[Len(t) + 1] = h
        BY <3>0, AppendProperties
      <4>2. Len(join_queue') = Len(q) /\ k \in 1 .. Len(q)
        BY <3>0, <4>1
      <4>3. k < Len(q) => k \in 1 .. Len(t) /\ k \in 1 .. Len(q) - 1
        BY <3>0, <4>2
      <4> QED BY <3>0, <4>1, <4>2, <4>3
    <3>2. k # Len(q)
      BY <1>7, <1>9, <2>3, <3>0, <3>1
    <3>3. k + 1 \in 1 .. Len(q) /\ join_queue'[k] = q[k + 1]
      BY <3>0, <3>1, <3>2
    <3>4. k + 1 <= Len(q) - call[cpu].i
      BY <1>7, <2>1, <2>3, <3>3
    <3> QED BY <1>4, <3>0, <3>1, <3>4
  <2> QED BY <2>2, <2>3
<1>15. ASSUME NEW n \in Node, call'[n].at = "joinDone"
       PROVE  n \in Range(join_queue') \/ Delivered(n)'
  <2>1. n # cpu /\ call'[n] = call[n] /\ call[n].at = "joinDone"
    BY <1>4, <1>6, <1>15
  <2>2. CASE n = h /\ Joins(h)
    <3>1. call[h].arg = cpu /\ tcb'[h].value_ptr = call[cpu].arg
      BY <1>1, <1>5, <1>7, <1>9, <2>2 DEF JoinInv, q
    <3> QED BY <1>2, <1>4, <2>1, <2>2, <3>1 DEF Delivered
  <2>3. CASE ~(n = h /\ Joins(h))
    <3>1. tcb'[n].value_ptr = tcb[n].value_ptr
      BY <1>7, <2>3
    <3>2. n \in Range(q) \/ Delivered(n)
      BY <1>1, <2>1 DEF ExitInv, q
    <3>3. CASE n \in Range(q)
      BY <1>10, <2>3, <3>3
    <3>4. CASE Delivered(n)
      BY <1>2, <1>3, <1>4, <2>1, <3>1, <3>4 DEF Delivered
    <3> QED BY <3>2, <3>3, <3>4
  <2> QED BY <2>2, <2>3
<1>16. ExitInv'
  BY <1>2, <1>13, <1>14, <1>15 DEF ExitInv
<1> QED BY <1>12, <1>16

LEMMA ExitRecorded ==
  ASSUME Orderly, InOrder, Next, ExitRecord
  PROVE  JoinInv' /\ ExitInv'
<1>1. /\ TypeInv /\ JoinInv /\ ExitInv /\ cpu \in Node /\ Node = Tid
      /\ join_queue \in Seq(Born) /\ Born \subseteq Node /\ Range(join_queue) \subseteq Node
      /\ \A n \in Node : call[n] \in CallRecord /\ ShapeOK(call[n]) /\ call[n].op \in Ops
                         /\ (call[n].op = "join" => call[n].arg \in Node)
                         /\ tcb[n].value_ptr # NotExited
  BY JoinTypes
<1>2. /\ Born' = Born /\ cpu' = cpu /\ \A n \in Node \ {cpu} : call'[n] = call[n]
      /\ tcb[current].tid = cpu /\ cpu \notin Range(join_queue)
  BY JoinExitFrame
<1>3. /\ exit_list' = [exit_list EXCEPT ![cpu] = call[cpu].arg]
      /\ call[cpu].at = "exitWake" /\ ~(call[cpu].i < Len(join_queue))
      /\ join_queue' = join_queue /\ tcb' = tcb /\ Goto("update")
  BY <1>2 DEF ExitRecord, MoreJoiners, At, queues
<1>4. /\ call'[cpu].at = "update" /\ call'[cpu].op = call[cpu].op /\ call'[cpu].arg = call[cpu].arg
      /\ call[cpu].op = "exit"
  BY <1>1, <1>3, GotoIs DEF ShapeOK, Ops
<1>5. call[cpu].arg # NotExited
  <2>1. CallOK(call[cpu])
    BY <1>1 DEF TypeInv, CallInv
  <2> QED BY <1>4, <2>1 DEF CallOK, Value, Tid, Null, NotExited
<1>6. exit_list'[cpu] = call[cpu].arg /\ \A n \in Node \ {cpu} : exit_list'[n] = exit_list[n]
  BY <1>1, <1>3 DEF TypeInv, DataInv
<1>7. ASSUME NEW n \in Range(join_queue) PROVE call[n].arg # cpu
  <2>1. PICK k \in 1 .. Len(join_queue) : n = join_queue[k]
    BY <1>1, RangeOf
  <2>2. call[cpu].i \in Nat /\ Len(join_queue) \in Nat
    BY <1>1 DEF CallRecord
  <2>3. tcb[n].join_id # cpu
    BY <1>1, <1>3, <2>1, <2>2 DEF ExitInv
  <2> HIDE DEF Range
  <2> QED BY <1>1, <2>3 DEF JoinInv
<1> HIDE DEF Range
<1>8. JoinInv'
  <2>1. \A n \in Node : call'[n].op = "join" => <<n, call'[n].arg>> \in MayJoin /\ call'[n].arg \in Born
    BY <1>1, <1>2, <1>4 DEF JoinInv
  <2>2. \A n \in Range(join_queue) :
          /\ call'[n].op = "join" /\ call'[n].at \in {"joinDone", "dispatch"}
          /\ tcb'[n].join_id = call'[n].arg /\ exit_list'[call'[n].arg] = NotExited
    BY <1>1, <1>2, <1>3, <1>6, <1>7 DEF JoinInv
  <2> QED BY <1>2, <1>3, <1>4, <2>1, <2>2 DEF JoinInv
<1>9. \A n \in Node : /\ exit_list'[n] # NotExited <=> call'[n].op = "exit" /\ call'[n].at # "exitWake"
                      /\ call'[n].op = "exit" => n \in MayExit
  BY <1>1, <1>2, <1>4, <1>5, <1>6 DEF ExitInv
<1>10. ASSUME NEW n \in Node, call'[n].at = "joinDone"
       PROVE  n \in Range(join_queue') \/ Delivered(n)'
  <2>1. n # cpu /\ call'[n] = call[n] /\ call[n].at = "joinDone" /\ call[n].arg \in Node
    <3>1. n # cpu /\ call'[n] = call[n] /\ call[n].at = "joinDone"
      BY <1>2, <1>4, <1>10
    <3>2. call[n].op = "join"
      BY <1>1, <3>1 DEF ShapeOK, Ops
    <3> QED BY <1>1, <3>1, <3>2
  <2>2. CASE n \in Range(join_queue)
    BY <1>3, <2>2
  <2>3. CASE exit_list[call[n].arg] = tcb[n].value_ptr
    <3>1. call[n].arg # cpu
      BY <1>1, <1>3, <2>3 DEF ExitInv
    <3> QED BY <1>3, <1>6, <2>1, <2>3, <3>1 DEF Delivered
  <2>4. CASE cpu = call[n].arg /\ call[cpu].arg = tcb[n].value_ptr
    BY <1>3, <1>6, <2>1, <2>4 DEF Delivered
  <2> QED BY <1>1, <2>1, <2>2, <2>3, <2>4 DEF ExitInv, Delivered
<1>11. ExitInv'
  BY <1>2, <1>4, <1>9, <1>10 DEF ExitInv
<1> QED BY <1>8, <1>11

LEMMA JoinStep ==
  ASSUME Orderly, InOrder, [Next]_vars
  PROVE  JoinInv' /\ ExitInv'
<1>1. CASE UNCHANGED vars /\ ~Next
  <2>1. /\ ~CreateFirst /\ ~Create /\ ~Dispatch /\ ~Join /\ ~JoinWait
        /\ ~SwitchJoin /\ ~Exit /\ ~ExitWake /\ ~ExitRecord
    BY <1>1 DEF Next, Library, Client
  <2> QED BY <2>1, JoinExitRest
<1>2. CASE Next
  BY <1>2, JoinExitRest, JoinExitBirths, JoinExitDispatch, JoinExitEnter, JoinSleeps, ExitLoop,
     ExitRecorded
<1> QED BY <1>1, <1>2

-----------------------------------------------------------------------------
(* Mutexes.                                                                *)

MutexInv == HoldInv /\ WaitInv /\ WakerInv

\* What the steps of the mutexes rest on.
LEMMA MutexTypes ==
  ASSUME Orderly, InOrder
  PROVE  /\ TypeInv /\ HoldInv /\ WaitInv /\ WakerInv /\ MidInv /\ FlagInv
         /\ Born \subseteq Node /\ cpu \in Node
         /\ Range(waiting_queue) \subseteq Node /\ waiting_queue \in Seq(Born)
         /\ holds \in [Mutex -> SUBSET Node] /\ mutex \in [Mutex -> MutexState]
         /\ \A n \in Node : /\ call[n].op \in {"lock", "unlock"} => call[n].arg \in Mutex
                            /\ call[n] \in CallRecord /\ ShapeOK(call[n]) /\ call[n].op \in Ops
         /\ \A m, k \in Mutex : m = k
<1>1. /\ TypeInv /\ HoldInv /\ WaitInv /\ WakerInv /\ MidInv /\ FlagInv
      /\ Born \subseteq Node /\ cpu \in Node /\ waiting_queue \in Seq(Born)
      /\ holds \in [Mutex -> SUBSET Node] /\ mutex \in [Mutex -> MutexState]
      /\ \A m, k \in Mutex : m = k
  BY BornFacts DEF InOrder, OrderInv, TypeInv, CountInv, QueueInv, DataInv, Orderly
<1>2. Range(waiting_queue) \subseteq Node
  BY <1>1, RangeOf
<1> HIDE DEF Range
<1>3. ASSUME NEW n \in Node
      PROVE  /\ call[n].op \in {"lock", "unlock"} => call[n].arg \in Mutex
             /\ call[n] \in CallRecord /\ ShapeOK(call[n]) /\ call[n].op \in Ops
  <2>1. call[n] \in CallRecord /\ CallOK(call[n]) /\ ShapeOK(call[n])
    BY <1>1 DEF TypeInv, CallInv, InOrder, OrderInv, ShapeInv
  <2> QED BY <2>1 DEF CallRecord, CallOK
<1> QED BY <1>1, <1>2, <1>3

\* A thread inside a lock or unlock call stays there but for the steps of that call.
LEMMA LockStays ==
  ASSUME Orderly, InOrder, [Next]_vars, ~CreateFirst, ~Create, ~Dispatch, ~Lock, ~LockTest,
         ~LockBlock, ~LockTake, ~Unlock, ~UnlockWake, ~SwitchBlocked
  PROVE  call[cpu].op \in {"lock", "unlock"} \/ call'[cpu].op \in {"lock", "unlock"} =>
           call'[cpu] = call[cpu]
<1>1. /\ TypeInv /\ call[cpu].op \in Ops /\ ShapeOK(call[cpu]) /\ FlagInv
      /\ call[cpu] \in CallRecord
  BY CpuFacts DEF InOrder, OrderInv, ShapeInv
<1>2. CASE SchedulerBusy \/ SwitchNone
  <2>1. CASE sig # "none"
    BY <1>2, <2>1 DEF SchedulerBusy, SwitchNone, ReturnFromScheduler
  <2>2. CASE sig = "none"
    <3>1. call[cpu].at = "update" /\ ~mem_flag /\ fc = "NONE"
      BY <1>1, <1>2, <2>2 DEF SchedulerBusy, SwitchNone, InSwitch, Point, FlagInv
    <3>2. call[cpu].op \notin {"lock", "unlock"}
      BY <1>1, <2>2, <3>1 DEF FlagInv, FlagOK, ShapeOK
    <3>3. call'[cpu] = Resumed(call[cpu])
      BY <1>1, <1>2, <2>2, CallFacts DEF SchedulerBusy, SwitchNone, ReturnFromScheduler
    <3>4. Resumed(call[cpu]).op \notin {"lock", "unlock"}
      BY <1>1, <3>2 DEF Resumed, Idle, CallRecord
    <3> QED BY <3>2, <3>3, <3>4
  <2> QED BY <2>1, <2>2
<1>3. CASE SwitchFirst \/ SwitchTimer \/ SwitchYield \/ SwitchJoin \/ SwitchExit
  <2>1. CASE sig # "none"
    BY <1>3, <2>1 DEF SwitchFirst, SwitchTimer, SwitchYield, SwitchJoin, SwitchExit, ToDispatch
  <2>2. CASE sig = "none"
    <3>1. Goto("dispatch") /\ call[cpu].at = "update" /\ fc # "BLOCKED"
      BY <1>3, <2>2 DEF SwitchFirst, SwitchTimer, SwitchYield, SwitchJoin, SwitchExit,
                        ToDispatch, InSwitch, Point
    <3>2. call'[cpu].op = call[cpu].op
      BY <1>1, <3>1, GotoIs
    <3>3. call[cpu].op \notin {"lock", "unlock"}
      BY <1>1, <2>2, <3>1 DEF FlagInv, FlagOK, ShapeOK
    <3> QED BY <3>2, <3>3
  <2> QED BY <2>1, <2>2
<1>4. CASE DispatchNone \/ Fault
  BY <1>4, SomebodyRuns, NoNull DEF DispatchNone, Fault
<1>5. CASE CreateCount \/ ExitRecord \/ JoinWait
  <2>1. (\E q \in Points : Goto(q)) /\ call[cpu].at \in {"createCount", "exitWake", "joinWait"}
    BY <1>5 DEF CreateCount, ExitRecord, JoinWait, Points, At
  <2>2. call'[cpu].op = call[cpu].op
    BY <1>1, <2>1, GotoIs
  <2> QED BY <1>1, <2>1, <2>2 DEF ShapeOK
<1>6. CASE JoinReturn \/ MallocReturn \/ MallocGivesUp
  <2>1. ReturnToUser /\ call[cpu].at \in {"joinDone", "malloc"}
    BY <1>6 DEF JoinReturn, MallocReturn, MallocGivesUp, At
  <2>2. call'[cpu].op = "none"
    BY <1>1, <2>1, ReturnIs
  <2> QED BY <1>1, <2>1, <2>2 DEF ShapeOK
<1>7. CASE ExitWake
  <2>1. call[cpu].at = "exitWake" /\ call'[cpu] = [call[cpu] EXCEPT !.i = @ + 1]
    BY <1>1, <1>7, CallFacts DEF ExitWake, At
  <2>2. call[cpu].op = "exit"
    BY <1>1, <2>1 DEF ShapeOK, Ops
  <2> QED BY <1>1, <2>1, <2>2 DEF CallRecord
<1>8. CASE Yield \/ Exit \/ Join \/ MallocEnter
  <2>1. (\E o \in {"yield", "exit", "join", "malloc"} : \E p, a : Enter(o, p, a))
        /\ call[cpu].at = "user"
    BY <1>8 DEF Yield, Exit, Join, MallocEnter, InUser, At
  <2>2. call'[cpu].op \in {"yield", "exit", "join", "malloc"}
    BY <1>1, <2>1, EnterIs
  <2> QED BY <1>1, <2>1, <2>2 DEF ShapeOK
<1>9. CASE \/ MallocSwaps \/ MallocMeta \/ MainReturns \/ MutexInit \/ MutexDestroy
           \/ TimerFires \/ Ended \/ UNCHANGED vars
  BY <1>9 DEF MallocSwaps, MallocMeta, MainReturns, MutexInit, MutexDestroy, TimerFires, Ended, vars
<1> QED BY <1>2, <1>3, <1>4, <1>5, <1>6, <1>7, <1>8, <1>9 DEF Next, Library, Client

\* Whoever joins or exits has entered just now, or had done so before.
LEMMA HolderCalls ==
  ASSUME Orderly, InOrder, [Next]_vars, ~CreateFirst, ~Create, ~Dispatch,
         call'[cpu].op \in {"join", "exit"}
  PROVE  call[cpu].op = call'[cpu].op \/ Join \/ Exit
<1>1. TypeInv
  BY DEF InOrder
<1>2. CASE Yield \/ Lock \/ Unlock \/ MallocEnter
  <2>1. \E o \in {"yield", "lock", "unlock", "malloc"} : \E p, a : Enter(o, p, a)
    BY <1>2 DEF Yield, Lock, Unlock, MallocEnter
  <2> QED BY <1>1, <2>1, EnterIs
<1> QED BY <1>1, <1>2, CallKept

\* The steps that touch neither a mutex nor its waiters.
LEMMA MutexRest ==
  ASSUME Orderly, InOrder, [Next]_vars, ~CreateFirst, ~Create, ~Dispatch, ~MutexInit, ~Lock,
         ~LockTest, ~LockBlock, ~LockTake, ~Unlock, ~UnlockWake, ~MutexDestroy, ~SwitchBlocked
  PROVE  MutexInv'
<1>1. /\ TypeInv /\ HoldInv /\ WaitInv /\ WakerInv /\ cpu \in Node
      /\ Range(waiting_queue) \subseteq Node /\ holds \in [Mutex -> SUBSET Node]
      /\ \A n \in Node : call[n] \in CallRecord /\ ShapeOK(call[n]) /\ call[n].op \in Ops
  BY MutexTypes
<1>2. /\ Born' = Born /\ cpu' = cpu /\ \A n \in Node \ {cpu} : call'[n] = call[n]
      /\ waiting_queue' = waiting_queue /\ mutex_count' = mutex_count
      /\ mutex' = mutex /\ holds' = holds /\ usable' = usable
      /\ ShapeOK(call'[cpu]) /\ call'[cpu].op \in Ops
  <2>1. call'[cpu].op \in Ops
    BY <1>1, TypeStep DEF TypeInv, CallInv, CallRecord
  <2> QED BY <1>1, <2>1, TidsKept, OthersKeepCall, PointStep, RecordsKept, MutexesKept
<1>3. \A n \in Node : tcb'[n].mid = tcb[n].mid
  BY <1>1, BlocksKept
<1> HIDE DEF Range
<1>4. /\ call[cpu].op \in {"lock", "unlock"} => call'[cpu] = call[cpu]
      /\ call'[cpu].op \in {"lock", "unlock"} => call'[cpu] = call[cpu]
  BY LockStays
<1>5. \A m \in Mutex : cpu \in holds[m] => call'[cpu].op \notin {"lock", "join", "exit"}
  <2> SUFFICES ASSUME NEW m \in Mutex, cpu \in holds[m]
               PROVE  call'[cpu].op \notin {"lock", "join", "exit"}
    OBVIOUS
  <2>1. call[cpu].op \notin {"lock", "join", "exit"}
    BY <1>1 DEF HoldInv
  <2>2. ~Join /\ ~Exit
    BY DEF Join, Exit, HoldsNothing
  <2> QED BY <1>4, <2>1, <2>2, HolderCalls
<1>6. HoldInv'
  <2>1. \A m : Touched(m)' <=> Touched(m)
    BY <1>2 DEF Touched
  <2>2. ASSUME NEW m \in Mutex, NEW n \in holds[m]
        PROVE  n \in Born /\ Touched(m) /\ mutex[m].locked /\ mutex[m].tid = n
               /\ call'[n].op \notin {"lock", "join", "exit"}
    <3>1. n \in Node
      BY <1>1
    <3> QED BY <1>1, <1>2, <1>5, <3>1 DEF HoldInv
  <2>3. \A m \in Mutex : mutex[m].locked => holds[m] # {}
    BY <1>1 DEF HoldInv
  <2> QED BY <1>2, <2>1, <2>2, <2>3 DEF HoldInv
<1>7. \A n \in Node : call[n].op \in {"lock", "unlock"} \/ call'[n].op \in {"lock", "unlock"} =>
                        call'[n] = call[n]
  BY <1>2, <1>4
<1>8. WaitInv'
  <2>1. \A n \in Node : call'[n].op \in {"lock", "unlock"} => Touched(call[n].arg)'
    BY <1>1, <1>2, <1>7 DEF WaitInv, Touched
  <2>2. call'[cpu].at = "lockTake" => ~mutex'[call'[cpu].arg].locked
    BY <1>1, <1>2, <1>4 DEF WaitInv, ShapeOK, Ops
  <2>3. call'[cpu].op = "lock" =>
          /\ call'[cpu].at \in {"lockBlock", "update"} => mutex'[call'[cpu].arg].locked
          /\ call'[cpu].at = "update" => tcb'[cpu].mid = mutex'[call'[cpu].arg].mid
    BY <1>1, <1>2, <1>3, <1>4 DEF WaitInv
  <2>4. \A n \in Range(waiting_queue) :
          /\ call'[n].op = "lock" /\ call'[n].at \in {"lockTest", "dispatch"}
          /\ tcb'[n].mid = mutex'[call'[n].arg].mid
    BY <1>1, <1>2, <1>3, <1>7 DEF WaitInv
  <2> QED BY <1>2, <2>1, <2>2, <2>3, <2>4 DEF WaitInv
<1>9. WakerInv'
  <2>1. \A n \in Range(waiting_queue) : call'[n] = call[n]
    BY <1>1, <1>7 DEF WaitInv
  <2>2. ASSUME NEW n \in Range(waiting_queue)
        PROVE  \/ mutex[call'[n].arg].locked
               \/ \E k \in Node \ Range(waiting_queue) :
                    call'[k].op \in {"lock", "unlock"} /\ call'[k].arg = call'[n].arg
    <3>1. CASE mutex[call[n].arg].locked
      BY <2>1, <3>1
    <3>2. CASE ~mutex[call[n].arg].locked
      <4>1. PICK k \in Node \ Range(waiting_queue) :
                   call[k].op \in {"lock", "unlock"} /\ call[k].arg = call[n].arg
        BY <1>1, <3>2 DEF WakerInv
      <4> QED BY <1>7, <2>1, <4>1
    <3> QED BY <3>1, <3>2
  <2> QED BY <1>2, <2>2 DEF WakerInv
<1> QED BY <1>6, <1>8, <1>9 DEF MutexInv

LEMMA MutexBirths ==
  ASSUME Orderly, InOrder, CreateFirst \/ Create
  PROVE  MutexInv'
<1>1. /\ TypeInv /\ HoldInv /\ WaitInv /\ WakerInv /\ cpu \in Node /\ Born \subseteq Node
      /\ waiting_queue \in Seq(Born) /\ holds \in [Mutex -> SUBSET Node]
      /\ \A n \in Node : call[n] \in CallRecord /\ ShapeOK(call[n]) /\ call[n].op \in Ops
  BY MutexTypes
<1>2. /\ waiting_queue' = waiting_queue /\ Range(waiting_queue) \subseteq Born
      /\ mutex' = mutex /\ holds' = holds /\ usable' = usable /\ mutex_count' = mutex_count
  BY <1>1, RangeOf DEF CreateFirst, Create, mutexes
<1> HIDE DEF Range
<1>3. \A m : Touched(m)' <=> Touched(m)
  BY <1>2 DEF Touched
<1>4. CASE CreateFirst
  <2>1. \A n \in Node : call'[n].op = "none"
    <3>1. \A n \in Node : call'[n] = call[n] \/ call'[n] = Idle
      BY <1>4, CreateFirstIs
    <3> QED BY <1>4, <3>1, CreateFirstIs DEF Idle
  <2>2. /\ Range(waiting_queue) = {} /\ \A m \in Mutex : holds[m] = {}
        /\ cpu' = 1 /\ 1 \in Node /\ call'[1].at = "user"
    BY <1>1, <1>2, <1>4, CreateFirstIs DEF HoldInv, Idle
  <2> QED BY <1>1, <1>2, <2>1, <2>2 DEF MutexInv, HoldInv, WaitInv, WakerInv
<1>5. CASE Create
  <2>1. /\ cpu' = cpu /\ nodeCount \in Node /\ nodeCount \notin Born /\ nodeCount # cpu
        /\ call'[cpu].at = "createCount" /\ call'[cpu].op = "create"
        /\ call'[nodeCount].at = "user" /\ call'[nodeCount].op = "none"
        /\ call[cpu].at = "user" /\ call[nodeCount].op = "none"
        /\ \A n \in Node \ {cpu, nodeCount} : call'[n] = call[n]
        /\ Born \subseteq Born'
    BY <1>5, CreateIs DEF Idle
  <2>2. \A n \in Node \ {nodeCount} : tcb'[n] = tcb[n]
    BY <1>1, <1>5, <2>1 DEF Create, TypeInv, DataInv
  <2>3. call[cpu].op = "none"
    BY <1>1, <2>1 DEF ShapeOK, Ops
  <2>4. \A n \in Range(waiting_queue) : n \in Node \ {cpu, nodeCount}
    BY <1>1, <1>2, <2>1, <2>3 DEF WaitInv
  <2>5. HoldInv'
    BY <1>1, <1>2, <1>3, <2>1, <2>3 DEF HoldInv
  <2>6. WaitInv'
    <3>1. \A n \in Node : call'[n].op \in {"lock", "unlock"} => call'[n] = call[n]
      BY <2>1
    <3>2. \A n \in Node : call'[n].op \in {"lock", "unlock"} => Touched(call[n].arg)'
      BY <1>1, <1>3, <3>1 DEF WaitInv
    <3>3. \A n \in Range(waiting_queue) :
            /\ call'[n].op = "lock" /\ call'[n].at \in {"lockTest", "dispatch"}
            /\ tcb'[n].mid = mutex'[call'[n].arg].mid
      BY <1>1, <1>2, <2>1, <2>2, <2>4 DEF WaitInv
    <3> QED BY <1>2, <2>1, <3>1, <3>2, <3>3 DEF WaitInv
  <2>7. WakerInv'
    BY <1>1, <1>2, <2>1, <2>3, <2>4 DEF WakerInv
  <2> QED BY <2>5, <2>6, <2>7 DEF MutexInv
<1> QED BY <1>4, <1>5

LEMMA MutexDispatch ==
  ASSUME Orderly, InOrder, Dispatch
  PROVE  MutexInv'
<1>1. /\ TypeInv /\ HoldInv /\ WaitInv /\ WakerInv /\ cpu \in Node /\ Born \subseteq Node
      /\ Range(waiting_queue) \subseteq Node /\ holds \in [Mutex -> SUBSET Node]
      /\ \A n \in Node : call[n] \in CallRecord /\ ShapeOK(call[n]) /\ call[n].op \in Ops
  BY MutexTypes
<1>2. /\ waiting_queue' = waiting_queue /\ tcb' = tcb /\ Born' = Born /\ cpu' \in Node
      /\ mutex' = mutex /\ holds' = holds /\ usable' = usable /\ mutex_count' = mutex_count
  BY <1>1, DispatchLives DEF Dispatch, mutexes, Alive
<1> HIDE DEF Range
<1>3. /\ \A n \in Node \ {cpu} : call'[n] = call[n]
      /\ \A n \in Node : ShapeOK(call'[n]) /\ call'[n].at \in Resting
      /\ call'[cpu].op = call[cpu].op \/ call'[cpu].op = "none"
      /\ call'[cpu].op = call[cpu].op => call'[cpu].arg = call[cpu].arg
  BY DispatchLives, DispatchLeaves
<1>4. call[cpu].op \in {"lock", "unlock"} => call'[cpu].op = call[cpu].op
  <2> SUFFICES ASSUME call[cpu].op \in {"lock", "unlock"} PROVE call'[cpu].op = call[cpu].op
    OBVIOUS
  <2>1. ReturnFromScheduler
    BY DispatchLeaves DEF Dispatch
  <2>2. CASE sig = "none"
    <3>1. call[cpu].at = "dispatch"
      BY <2>2 DEF Dispatch, Point
    <3>2. call[cpu].op = "lock"
      BY <1>1, <3>1 DEF ShapeOK
    <3> QED BY <1>1, <2>1, <2>2, <3>2, CallFacts DEF ReturnFromScheduler, Resumed, CallRecord
  <2>3. CASE sig # "none"
    BY <2>1, <2>3 DEF ReturnFromScheduler
  <2> QED BY <2>2, <2>3
<1>5. \A n \in Node : /\ call[n].op \in {"lock", "unlock"} => call'[n].op = call[n].op
                      /\ call'[n].op \in {"lock", "unlock", "join", "exit"} =>
                           call'[n].op = call[n].op /\ call'[n].arg = call[n].arg
  BY <1>3, <1>4
<1>6. \A m : Touched(m)' <=> Touched(m)
  BY <1>2 DEF Touched
<1>7. HoldInv'
  <2>1. ASSUME NEW m \in Mutex, NEW n \in holds[m]
        PROVE  n \in Born /\ Touched(m) /\ mutex[m].locked /\ mutex[m].tid = n
               /\ call'[n].op \notin {"lock", "join", "exit"}
    <3>1. n \in Node
      BY <1>1
    <3> QED BY <1>1, <1>5, <3>1 DEF HoldInv
  <2>2. \A m \in Mutex : mutex[m].locked => holds[m] # {}
    BY <1>1 DEF HoldInv
  <2> QED BY <1>2, <1>6, <2>1, <2>2 DEF HoldInv
<1>8. WaitInv'
  <2>1. \A n \in Node : call'[n].op \in {"lock", "unlock"} => Touched(call[n].arg)'
    BY <1>1, <1>5, <1>6 DEF WaitInv
  <2>2. call'[cpu'].at \notin {"lockTake", "lockBlock", "update"}
    BY <1>2, <1>3 DEF Resting
  <2>3. \A n \in Range(waiting_queue) :
          /\ call'[n].op = "lock" /\ call'[n].at \in {"lockTest", "dispatch"}
          /\ tcb'[n].mid = mutex'[call'[n].arg].mid
    <3>1. \A n \in Range(waiting_queue) : call'[n].op = "lock" /\ call'[n].arg = call[n].arg
      BY <1>1, <1>5 DEF WaitInv
    <3>2. \A n \in Range(waiting_queue) : call'[n].at = "lockTest"
      BY <1>1, <1>3, <3>1 DEF ShapeOK, Resting
    <3> QED BY <1>1, <1>2, <3>1, <3>2 DEF WaitInv
  <2> QED BY <1>2, <1>5, <2>1, <2>2, <2>3 DEF WaitInv
<1>9. WakerInv'
  BY <1>1, <1>2, <1>5 DEF WakerInv, WaitInv
<1> QED BY <1>7, <1>8, <1>9 DEF MutexInv

\* The running thread takes one of the steps of a mutex.
LEMMA MutexFrame ==
  ASSUME Orderly, InOrder, Next, \/ Lock \/ LockTest \/ LockBlock \/ LockTake \/ Unlock
                                 \/ UnlockWake \/ SwitchBlocked
  PROVE  /\ Born' = Born /\ cpu' = cpu /\ \A n \in Node \ {cpu} : call'[n] = call[n]
         /\ current = cpu /\ tcb[cpu].tid = cpu /\ Queued /\ cpu \in Born
         /\ Head(running_qs[Priority]) = cpu /\ cpu \notin Range(waiting_queue)
<1>1. proc = "run" /\ Point # "dispatch" /\ ~CreateFirst /\ ~Dispatch
  <2>1. proc = "run" /\ Point # "dispatch"
    BY DEF Lock, LockTest, LockBlock, LockTake, Unlock, UnlockWake, SwitchBlocked, InUser, At,
           InSwitch, Point
  <2> QED BY <2>1 DEF CreateFirst, Dispatch
<1>2. ~Create
  <2>1. CASE Lock \/ Unlock
    <3>1. \E o \in {"lock", "unlock"} : \E q, a : Enter(o, q, a)
      BY <2>1 DEF Lock, Unlock
    <3>2. call'[cpu].op # "create"
      BY <3>1, EnterIs DEF InOrder
    <3> QED BY <3>2, CreateIs
  <2>2. CASE LockTest \/ LockBlock \/ LockTake \/ UnlockWake \/ SwitchBlocked
    <3>1. Point # "user"
      BY <2>2 DEF LockTest, LockBlock, LockTake, UnlockWake, SwitchBlocked, At, InSwitch, Point
    <3> QED BY <3>1, CreateIs DEF Point
  <2> QED BY <2>1, <2>2
<1> HIDE DEF Range
<1> QED BY <1>1, <1>2, Runs, PointStep, TidsKept, OthersKeepCall DEF InOrder

\* my_pthread_mutex_lock up to the wait for the mutex.
LEMMA LockEnters ==
  ASSUME Orderly, InOrder, Next, Lock \/ LockTest \/ LockBlock
  PROVE  MutexInv'
<1>1. /\ TypeInv /\ HoldInv /\ WaitInv /\ WakerInv /\ cpu \in Node
      /\ Range(waiting_queue) \subseteq Node /\ holds \in [Mutex -> SUBSET Node]
      /\ \A n \in Node : /\ call[n] \in CallRecord /\ ShapeOK(call[n]) /\ call[n].op \in Ops
                         /\ call[n].op \in {"lock", "unlock"} => call[n].arg \in Mutex
      /\ \A m, k \in Mutex : m = k
  BY MutexTypes
<1>2. /\ Born' = Born /\ cpu' = cpu /\ \A n \in Node \ {cpu} : call'[n] = call[n]
      /\ current = cpu /\ cpu \notin Range(waiting_queue)
  BY MutexFrame
<1>3. /\ waiting_queue' = waiting_queue
      /\ mutex' = mutex /\ holds' = holds /\ usable' = usable /\ mutex_count' = mutex_count
  BY DEF Lock, LockTest, LockBlock, queues, mutexes
<1> HIDE DEF Range
<1>4. \A n \in Node \ {cpu} : tcb'[n] = tcb[n]
  BY <1>1, <1>2 DEF Lock, LockTest, LockBlock, TypeInv, DataInv
<1>5. \E m \in Mutex :
        /\ call'[cpu].op = "lock" /\ call'[cpu].arg = m /\ Touched(m) /\ cpu \notin holds[m]
        /\ \/ call'[cpu].at = "lockTest" /\ call[cpu].op = "none"
           \/ /\ call[cpu].op = "lock" /\ call[cpu].arg = m
              /\ \/ call'[cpu].at = "lockBlock" /\ mutex[m].locked
                 \/ call'[cpu].at = "lockTake" /\ ~mutex[m].locked
                 \/ call'[cpu].at = "update" /\ mutex[m].locked /\ tcb'[cpu].mid = mutex[m].mid
  <2>1. CASE Lock
    <3>1. PICK m \in usable : cpu \notin holds[m] /\ Enter("lock", "lockTest", m)
      BY <2>1 DEF Lock
    <3>2. call[cpu].at = "user"
      BY <2>1 DEF Lock, InUser, At
    <3>3. call[cpu].op = "none" /\ m \in Mutex
      BY <1>1, <3>1, <3>2 DEF ShapeOK, Ops, TypeInv, DataInv
    <3> QED BY <1>1, <3>1, <3>3, EnterIs DEF Touched
  <2>2. CASE LockTest \/ LockBlock
    <3> DEFINE m == call[cpu].arg
    <3>1. call[cpu].at \in {"lockTest", "lockBlock"}
      BY <2>2 DEF LockTest, LockBlock, At
    <3>2. call[cpu].op = "lock"
      BY <1>1, <3>1 DEF ShapeOK, Ops
    <3>3. m \in Mutex /\ Touched(m) /\ cpu \notin holds[m]
      BY <1>1, <3>2 DEF WaitInv, HoldInv
    <3>4. CASE LockTest
      <4>1. IF mutex[m].locked THEN Goto("lockBlock") ELSE Goto("lockTake")
        BY <3>4 DEF LockTest
      <4> QED BY <1>1, <3>2, <3>3, <4>1, GotoIs
    <3>5. CASE LockBlock
      <4>1. /\ Goto("update") /\ call[cpu].at = "lockBlock"
            /\ tcb' = [tcb EXCEPT ![current].mid = mutex[m].mid]
        BY <3>5 DEF LockBlock, At
      <4>2. tcb'[cpu].mid = mutex[m].mid
        <5>1. tcb \in [Node -> Block] /\ tcb[cpu] \in Block
          BY <1>1 DEF TypeInv, DataInv
        <5> QED BY <1>1, <1>2, <4>1, <5>1 DEF Block
      <4>3. mutex[m].locked
        BY <1>1, <3>2, <4>1 DEF WaitInv
      <4> QED BY <1>1, <3>2, <3>3, <4>1, <4>2, <4>3, GotoIs
    <3> QED BY <2>2, <3>4, <3>5
  <2> QED BY <2>1, <2>2
<1>6. PICK m \in Mutex :
        /\ call'[cpu].op = "lock" /\ call'[cpu].arg = m /\ Touched(m) /\ cpu \notin holds[m]
        /\ \/ call'[cpu].at = "lockTest" /\ call[cpu].op = "none"
           \/ /\ call[cpu].op = "lock" /\ call[cpu].arg = m
              /\ \/ call'[cpu].at = "lockBlock" /\ mutex[m].locked
                 \/ call'[cpu].at = "lockTake" /\ ~mutex[m].locked
                 \/ call'[cpu].at = "update" /\ mutex[m].locked /\ tcb'[cpu].mid = mutex[m].mid
  BY <1>5
<1>7. \A k : Touched(k)' <=> Touched(k)
  BY <1>3 DEF Touched
<1>8. HoldInv'
  <2>1. ASSUME NEW k \in Mutex, NEW n \in holds[k]
        PROVE  n \in Born /\ Touched(k) /\ mutex[k].locked /\ mutex[k].tid = n
               /\ call'[n].op \notin {"lock", "join", "exit"}
    <3>1. n \in Node \ {cpu}
      BY <1>1, <1>6
    <3> QED BY <1>1, <1>2, <3>1 DEF HoldInv
  <2>2. \A k \in Mutex : mutex[k].locked => holds[k] # {}
    BY <1>1 DEF HoldInv
  <2> QED BY <1>2, <1>3, <1>7, <2>1, <2>2 DEF HoldInv
<1>9. WaitInv'
  <2>1. \A n \in Node : call'[n].op \in {"lock", "unlock"} =>
                          \E k \in Mutex : call'[n].arg = k /\ Touched(k)
    BY <1>1, <1>2, <1>6 DEF WaitInv
  <2>2. \A n \in Range(waiting_queue) :
          /\ call'[n].op = "lock" /\ call'[n].at \in {"lockTest", "dispatch"}
          /\ tcb'[n].mid = mutex'[call'[n].arg].mid
    BY <1>1, <1>2, <1>3, <1>4 DEF WaitInv
  <2> QED BY <1>2, <1>3, <1>6, <1>7, <2>1, <2>2 DEF WaitInv
<1>10. WakerInv'
  <2>1. \A n \in Range(waiting_queue) : call'[n] = call[n]
    BY <1>1, <1>2
  <2>2. \A k \in Node \ Range(waiting_queue) : call[k].op \in {"lock", "unlock"} =>
          call'[k].op \in {"lock", "unlock"} /\ call'[k].arg = call[k].arg
    BY <1>2, <1>6
  <2> QED BY <1>1, <1>2, <1>3, <2>1, <2>2 DEF WakerInv
<1> QED BY <1>8, <1>9, <1>10 DEF MutexInv

\* The lock is taken: nobody had it.
LEMMA LockTakes ==
  ASSUME Orderly, InOrder, Next, LockTake
  PROVE  MutexInv'
<1> DEFINE m == call[cpu].arg
<1>1. /\ TypeInv /\ HoldInv /\ WaitInv /\ WakerInv /\ cpu \in Node
      /\ Range(waiting_queue) \subseteq Node /\ holds \in [Mutex -> SUBSET Node]
      /\ mutex \in [Mutex -> MutexState]
      /\ \A n \in Node : /\ call[n] \in CallRecord /\ ShapeOK(call[n]) /\ call[n].op \in Ops
                         /\ call[n].op \in {"lock", "unlock"} => call[n].arg \in Mutex
      /\ \A a, b \in Mutex : a = b
  BY MutexTypes
<1>2. /\ Born' = Born /\ cpu' = cpu /\ \A n \in Node \ {cpu} : call'[n] = call[n]
      /\ current = cpu /\ tcb[cpu].tid = cpu /\ cpu \notin Range(waiting_queue) /\ cpu \in Born
  BY MutexFrame
<1>3. /\ waiting_queue' = waiting_queue /\ tcb' = tcb /\ usable' = usable
      /\ mutex_count' = mutex_count /\ ReturnToUser /\ call[cpu].at = "lockTake"
      /\ mutex' = [mutex EXCEPT ![m].locked = TRUE, ![m].tid = tcb[current].tid,
                                ![m].ready_waiting = FALSE]
      /\ holds' = [holds EXCEPT ![m] = @ \cup {cpu}]
  BY DEF LockTake, queues, At
<1> HIDE DEF Range, m
<1>4. /\ call[cpu].op = "lock" /\ m \in Mutex /\ Touched(m) /\ ~mutex[m].locked
      /\ holds[m] = {} /\ call'[cpu].at = "user" /\ call'[cpu].op = "none"
  <2>1. call[cpu].op = "lock"
    BY <1>1, <1>3 DEF ShapeOK, Ops
  <2>2. m \in Mutex /\ Touched(m) /\ ~mutex[m].locked
    BY <1>1, <1>3, <2>1 DEF WaitInv, m
  <2>3. holds[m] = {}
    BY <1>1, <2>2 DEF HoldInv
  <2> QED BY <1>1, <1>3, <2>1, <2>2, <2>3, ReturnIs
<1>5. mutex'[m].locked /\ mutex'[m].tid = cpu /\ mutex'[m].mid = mutex[m].mid
  <2>1. mutex[m] \in MutexState
    BY <1>1, <1>4
  <2>2. mutex'[m] = [mutex[m] EXCEPT !.locked = TRUE, !.tid = cpu, !.ready_waiting = FALSE]
    BY <1>1, <1>2, <1>3, <1>4
  <2> QED BY <2>1, <2>2 DEF MutexState
<1>6. holds'[m] = {cpu}
  BY <1>1, <1>3, <1>4
<1>7. \A k : Touched(k)' <=> Touched(k)
  BY <1>3 DEF Touched
<1>8. HoldInv'
  BY <1>1, <1>2, <1>4, <1>5, <1>6, <1>7 DEF HoldInv
<1>9. WaitInv'
  <2>1. \A n \in Node : call'[n].op \in {"lock", "unlock"} =>
                          \E k \in Mutex : call'[n].arg = k /\ Touched(k)
    BY <1>1, <1>2, <1>4 DEF WaitInv
  <2>2. \A n \in Range(waiting_queue) :
          /\ call'[n].op = "lock" /\ call'[n].at \in {"lockTest", "dispatch"}
          /\ tcb'[n].mid = mutex'[call'[n].arg].mid
    BY <1>1, <1>2, <1>3, <1>4, <1>5 DEF WaitInv
  <2> QED BY <1>2, <1>3, <1>4,  <1>7, <2>1, <2>2 DEF WaitInv
<1>10. WakerInv'
  <2>1. ASSUME NEW n \in Range(waiting_queue) PROVE mutex'[call'[n].arg].locked
    <3>1. n \in Node \ {cpu} /\ call'[n] = call[n] /\ call[n].op = "lock"
      BY <1>1, <1>2 DEF WaitInv
    <3>2. call[n].arg = m
      BY <1>1, <1>4, <3>1
    <3> QED BY <1>5, <3>1, <3>2
  <2> QED BY <1>3, <2>1 DEF WakerInv
<1> QED BY <1>8, <1>9, <1>10 DEF MutexInv

\* The lock is released by the thread that has it, which goes on to wake a sleeper.
LEMMA LockReleased ==
  ASSUME Orderly, InOrder, Next, Unlock
  PROVE  MutexInv'
<1>1. /\ TypeInv /\ HoldInv /\ WaitInv /\ WakerInv /\ cpu \in Node
      /\ Range(waiting_queue) \subseteq Node /\ holds \in [Mutex -> SUBSET Node]
      /\ mutex \in [Mutex -> MutexState]
      /\ \A n \in Node : /\ call[n] \in CallRecord /\ ShapeOK(call[n]) /\ call[n].op \in Ops
                         /\ call[n].op \in {"lock", "unlock"} => call[n].arg \in Mutex
      /\ \A a, b \in Mutex : a = b
  BY MutexTypes
<1>2. /\ Born' = Born /\ cpu' = cpu /\ \A n \in Node \ {cpu} : call'[n] = call[n]
      /\ current = cpu /\ tcb[cpu].tid = cpu /\ cpu \notin Range(waiting_queue) /\ cpu \in Born
  BY MutexFrame
<1>3. /\ waiting_queue' = waiting_queue /\ tcb' = tcb /\ usable' = usable
      /\ mutex_count' = mutex_count
  BY DEF Unlock, queues
<1>4. PICK m \in usable :
        /\ mutex[m].locked /\ mutex[m].tid = tcb[current].tid
        /\ mutex' = [mutex EXCEPT ![m].locked = FALSE, ![m].tid = -1]
        /\ holds' = [holds EXCEPT ![m] = @ \ {cpu}]
        /\ Enter("unlock", "unlockWake", m)
  BY DEF Unlock
<1> HIDE DEF Range
<1>5. /\ m \in Mutex /\ Touched(m) /\ holds[m] \subseteq {cpu}
      /\ call'[cpu].at = "unlockWake" /\ call'[cpu].op = "unlock" /\ call'[cpu].arg = m
  <2>1. m \in Mutex /\ Touched(m)
    BY <1>1, <1>4 DEF TypeInv, DataInv, Touched
  <2>2. holds[m] \subseteq {cpu}
    BY <1>1, <1>2, <1>4, <2>1 DEF HoldInv
  <2> QED BY <1>1, <1>4, <2>1, <2>2, EnterIs
<1>6. ~mutex'[m].locked /\ mutex'[m].mid = mutex[m].mid
  <2>1. mutex[m] \in MutexState
    BY <1>1, <1>5
  <2>2. mutex'[m] = [mutex[m] EXCEPT !.locked = FALSE, !.tid = -1]
    BY <1>1, <1>4, <1>5
  <2> QED BY <2>1, <2>2 DEF MutexState
<1>7. holds'[m] = {}
  BY <1>1, <1>4, <1>5
<1>8. \A k : Touched(k)' <=> Touched(k)
  BY <1>3 DEF Touched
<1>9. HoldInv'
  BY <1>1, <1>5, <1>6, <1>7 DEF HoldInv
<1>10. WaitInv'
  <2>1. \A n \in Node : call'[n].op \in {"lock", "unlock"} =>
                          \E k \in Mutex : call'[n].arg = k /\ Touched(k)
    BY <1>1, <1>2, <1>5 DEF WaitInv
  <2>2. \A n \in Range(waiting_queue) :
          /\ call'[n].op = "lock" /\ call'[n].at \in {"lockTest", "dispatch"}
          /\ tcb'[n].mid = mutex'[call'[n].arg].mid
    BY <1>1, <1>2, <1>3, <1>5, <1>6 DEF WaitInv
  <2> QED BY <1>2, <1>3, <1>5,  <1>8, <2>1, <2>2 DEF WaitInv
<1>11. WakerInv'
  <2>1. ASSUME NEW n \in Range(waiting_queue) PROVE call'[cpu].arg = call'[n].arg
    <3>1. n \in Node \ {cpu} /\ call'[n] = call[n] /\ call[n].op = "lock"
      BY <1>1, <1>2 DEF WaitInv
    <3> QED BY <1>1, <1>5, <3>1
  <2> QED BY <1>1, <1>2, <1>3, <1>5, <2>1 DEF WakerInv
<1> QED BY <1>9, <1>10, <1>11 DEF MutexInv

\* The sleeper at the head of the waiting queue becomes runnable: it is the one that
\* looks at the mutex next.
LEMMA LockWakes ==
  ASSUME Orderly, InOrder, Next, UnlockWake
  PROVE  MutexInv'
<1> DEFINE m == call[cpu].arg
           h == Head(waiting_queue)
<1>1. /\ TypeInv /\ HoldInv /\ WaitInv /\ WakerInv /\ cpu \in Node
      /\ Range(waiting_queue) \subseteq Node /\ holds \in [Mutex -> SUBSET Node]
      /\ mutex \in [Mutex -> MutexState] /\ waiting_queue \in Seq(Born)
      /\ \A n \in Node : /\ call[n] \in CallRecord /\ ShapeOK(call[n]) /\ call[n].op \in Ops
                         /\ call[n].op \in {"lock", "unlock"} => call[n].arg \in Mutex
      /\ \A a, b \in Mutex : a = b
  BY MutexTypes
<1>2. /\ Born' = Born /\ cpu' = cpu /\ \A n \in Node \ {cpu} : call'[n] = call[n]
      /\ current = cpu /\ cpu \notin Range(waiting_queue) /\ cpu \in Born
  BY MutexFrame
<1>3. /\ usable' = usable /\ mutex_count' = mutex_count /\ holds' = holds
      /\ ReturnToUser /\ At("unlockWake")
  BY DEF UnlockWake
<1>4. /\ call[cpu].op = "unlock" /\ m \in Mutex
      /\ call'[cpu].at = "user" /\ call'[cpu].op = "none"
  <2>1. call[cpu].at = "unlockWake"
    BY <1>3 DEF At
  <2>2. call[cpu].op = "unlock"
    BY <1>1, <2>1 DEF ShapeOK, Ops
  <2> QED BY <1>1, <1>3, <2>2, ReturnIs
<1>5. \A k : Touched(k)' <=> Touched(k)
  BY <1>3 DEF Touched
<1> HIDE DEF Range
<1>6. /\ \A k \in Mutex : /\ mutex'[k].locked = mutex[k].locked /\ mutex'[k].tid = mutex[k].tid
                          /\ mutex'[k].mid = mutex[k].mid
      /\ \/ waiting_queue = << >> /\ waiting_queue' = waiting_queue /\ tcb' = tcb
         \/ /\ h \in Range(waiting_queue) /\ call[h].op = "lock" /\ call[h].arg = m
            /\ Range(waiting_queue') = Range(waiting_queue) \ {h}
            /\ \A n \in Node \ {h} : tcb'[n].mid = tcb[n].mid
  <2>1. CASE waiting_queue = << >>
    <3>1. DOMAIN waiting_queue = {}
      BY <2>1
    <3>2. Matches(m) = {}
      BY <3>1 DEF Matches
    <3>3. UNCHANGED <<tcb, mutex, waiting_queue>>
      BY <3>2 DEF UnlockWake, m
    <3> QED BY <2>1, <3>3
  <2>2. CASE waiting_queue # << >>
    <3> DEFINE temp == waiting_queue[Top(Matches(m))]
    <3>1. /\ Matches(m) # {} /\ temp = h /\ h \in Range(waiting_queue) /\ h \in Node
          /\ call[h].op = "lock" /\ call[h].arg = m
      BY <1>3, <2>2, HeadMatches
    <3>2. /\ tcb' = [tcb EXCEPT ![temp].mid = -1, ![temp].thread_priority = 0]
          /\ mutex' = [mutex EXCEPT ![m].ready_waiting = TRUE]
          /\ waiting_queue' = Tail(waiting_queue)
      BY <3>1 DEF UnlockWake, m
    <3> HIDE DEF temp, m, h
    <3>3. \A n \in Node \ {h} : tcb'[n].mid = tcb[n].mid
      <4>1. tcb \in [Node -> Block]
        BY <1>1 DEF TypeInv, DataInv
      <4> QED BY <3>1, <3>2, <4>1
    <3>4. \A k \in Mutex : /\ mutex'[k].locked = mutex[k].locked
                           /\ mutex'[k].tid = mutex[k].tid /\ mutex'[k].mid = mutex[k].mid
      <4>1. \A k \in Mutex : mutex[k] \in MutexState
        BY <1>1
      <4> QED BY <1>1, <3>2, <4>1 DEF MutexState
    <3>5. Distinct(waiting_queue)
      BY DEF InOrder, OrderInv, PlaceInv, Hold, Holding, Parted
    <3>6. Range(Tail(waiting_queue)) = Range(waiting_queue) \ {h}
      BY <1>1, <2>2, <3>5, TailDistinct DEF h
    <3> QED BY <3>1, <3>2, <3>3, <3>4, <3>6
  <2> QED BY <2>1, <2>2
<1> HIDE DEF m, h
<1>7. Range(waiting_queue') \subseteq Range(waiting_queue)
  BY <1>6
<1>8. HoldInv'
  <2>1. ASSUME NEW k \in Mutex, NEW n \in holds[k]
        PROVE  n \in Born /\ Touched(k) /\ mutex'[k].locked /\ mutex'[k].tid = n
               /\ call'[n].op \notin {"lock", "join", "exit"}
    <3>1. n \in Node
      BY <1>1
    <3> QED BY <1>1, <1>2, <1>4, <1>6, <3>1 DEF HoldInv
  <2>2. \A k \in Mutex : mutex'[k].locked => holds[k] # {}
    BY <1>1, <1>6 DEF HoldInv
  <2> QED BY <1>2, <1>3, <1>5, <2>1, <2>2 DEF HoldInv
<1>9. WaitInv'
  <2>1. \A n \in Node : call'[n].op \in {"lock", "unlock"} =>
                          \E k \in Mutex : call'[n].arg = k /\ Touched(k)
    BY <1>1, <1>2, <1>4 DEF WaitInv
  <2>2. ASSUME NEW n \in Range(waiting_queue')
        PROVE  /\ call'[n].op = "lock" /\ call'[n].at \in {"lockTest", "dispatch"}
               /\ tcb'[n].mid = mutex'[call'[n].arg].mid
    <3>1. n \in Range(waiting_queue) /\ n \in Node \ {cpu}
      BY <1>1, <1>2, <1>7, <2>2
    <3>2. /\ call[n].op = "lock" /\ call[n].at \in {"lockTest", "dispatch"}
          /\ tcb[n].mid = mutex[call[n].arg].mid /\ call[n].arg \in Mutex /\ call'[n] = call[n]
      BY <1>1, <1>2, <3>1 DEF WaitInv
    <3>3. tcb'[n].mid = tcb[n].mid
      BY <1>6, <2>2, <3>1
    <3> QED BY <1>6, <3>2, <3>3
  <2> QED BY <1>2, <1>4, <1>5, <2>1, <2>2 DEF WaitInv
<1>10. WakerInv'
  <2>1. ASSUME NEW n \in Range(waiting_queue')
        PROVE  \E k \in Node \ Range(waiting_queue') :
                 call'[k].op \in {"lock", "unlock"} /\ call'[k].arg = call'[n].arg
    <3>1. n \in Range(waiting_queue) /\ n \in Node \ {cpu}
      BY <1>1, <1>2, <1>7, <2>1
    <3>2. call'[n].arg = m
      BY <1>1, <1>2, <1>4, <3>1 DEF WaitInv
    <3>3. waiting_queue # << >>
      <4>1. n \in {waiting_queue[i] : i \in 1 .. Len(waiting_queue)}
        BY <1>1, <3>1, RangeOf
      <4> QED BY <4>1
    <3>4. /\ h \in Node \ {cpu} /\ h \notin Range(waiting_queue')
          /\ call[h].op = "lock" /\ call[h].arg = m
      BY <1>1, <1>2, <1>6, <3>3
    <3> QED BY <1>2, <3>2, <3>4
  <2> QED BY <2>1 DEF WakerInv
<1> QED BY <1>8, <1>9, <1>10 DEF MutexInv

\* The running thread goes to sleep, behind a mutex that is locked.
LEMMA LockSleeps ==
  ASSUME Orderly, InOrder, Next, SwitchBlocked
  PROVE  MutexInv'
<1>1. /\ TypeInv /\ HoldInv /\ WaitInv /\ WakerInv /\ FlagInv /\ cpu \in Node
      /\ Range(waiting_queue) \subseteq Node /\ holds \in [Mutex -> SUBSET Node]
      /\ waiting_queue \in Seq(Born)
      /\ \A n \in Node : /\ call[n] \in CallRecord /\ ShapeOK(call[n]) /\ call[n].op \in Ops
                         /\ call[n].op \in {"lock", "unlock"} => call[n].arg \in Mutex
      /\ \A a, b \in Mutex : a = b
  BY MutexTypes
<1>2. /\ Born' = Born /\ cpu' = cpu /\ \A n \in Node \ {cpu} : call'[n] = call[n]
      /\ Head(running_qs[Priority]) = cpu /\ cpu \notin Range(waiting_queue) /\ cpu \in Born
  BY MutexFrame
<1>3. /\ mutex' = mutex /\ holds' = holds /\ usable' = usable /\ mutex_count' = mutex_count
      /\ waiting_queue' = Append(waiting_queue, cpu) /\ ToDispatch
      /\ Point = "update" /\ fc = "BLOCKED"
  BY <1>2 DEF SwitchBlocked, mutexes, InSwitch
<1>4. Distinct(waiting_queue)
  BY DEF InOrder, OrderInv, PlaceInv, Hold, Holding, Parted
<1> HIDE DEF Range
<1>5. Range(waiting_queue') = Range(waiting_queue) \cup {cpu}
  BY <1>1, <1>2, <1>3, <1>4, AppendDistinct
<1>6. sig = "none" /\ call[cpu].at = "update" /\ call[cpu].op = "lock"
  <2>1. sig = "none"
    BY <1>1, <1>3 DEF FlagInv, Point
  <2>2. call[cpu].at = "update"
    BY <1>3, <2>1 DEF Point
  <2> QED BY <1>1, <1>3, <2>1, <2>2 DEF FlagInv, FlagOK, ShapeOK, Ops
<1>7. call'[cpu].at = "dispatch" /\ call'[cpu].op = "lock" /\ call'[cpu].arg = call[cpu].arg
  BY <1>1, <1>3, <1>6, GotoIs DEF ToDispatch
<1>8. /\ mutex[call[cpu].arg].locked /\ tcb[cpu].mid = mutex[call[cpu].arg].mid
      /\ call[cpu].arg \in Mutex
  BY <1>1, <1>6 DEF WaitInv
<1>9. \A n \in Node : tcb'[n].mid = tcb[n].mid
  <2>1. ~CreateFirst /\ ~LockBlock /\ ~UnlockWake
    BY <1>3, <1>6 DEF SwitchBlocked, InSwitch, CreateFirst, LockBlock, UnlockWake, At
  <2>2. ~Create
    BY <1>6, CreateIs
  <2> QED BY <1>1, <2>1, <2>2, BlocksKept
<1>10. \A k : Touched(k)' <=> Touched(k)
  BY <1>3 DEF Touched
<1>11. HoldInv'
  <2>1. ASSUME NEW k \in Mutex, NEW n \in holds[k]
        PROVE  n \in Born /\ Touched(k) /\ mutex[k].locked /\ mutex[k].tid = n
               /\ call'[n].op \notin {"lock", "join", "exit"}
    <3>1. n \in Node
      BY <1>1
    <3> QED BY <1>1, <1>2, <1>6, <3>1 DEF HoldInv
  <2>2. \A k \in Mutex : mutex[k].locked => holds[k] # {}
    BY <1>1 DEF HoldInv
  <2> QED BY <1>2, <1>3, <1>10, <2>1, <2>2 DEF HoldInv
<1>12. WaitInv'
  <2>1. \A n \in Node : call'[n].op \in {"lock", "unlock"} =>
                          \E k \in Mutex : call'[n].arg = k /\ Touched(k)
    BY <1>1, <1>2, <1>6, <1>7, <1>8 DEF WaitInv
  <2>2. ASSUME NEW n \in Range(waiting_queue')
        PROVE  /\ call'[n].op = "lock" /\ call'[n].at \in {"lockTest", "dispatch"}
               /\ tcb'[n].mid = mutex'[call'[n].arg].mid
    <3>1. CASE n = cpu
      BY <1>1, <1>3, <1>7, <1>8, <1>9, <3>1
    <3>2. CASE n # cpu
      <4>1. n \in Range(waiting_queue) /\ n \in Node
        BY <1>1, <1>5, <2>2, <3>2
      <4> QED BY <1>1, <1>2, <1>3, <1>9, <3>2, <4>1 DEF WaitInv
    <3> QED BY <3>1, <3>2
  <2> QED BY <1>2, <1>7, <1>10, <2>1, <2>2 DEF WaitInv
<1>13. WakerInv'
  <2>1. ASSUME NEW n \in Range(waiting_queue') PROVE mutex'[call'[n].arg].locked
    <3>1. n \in Node
      BY <1>1, <1>5
    <3>2. call'[n].arg \in Mutex
      BY <1>1, <1>2, <1>5, <1>7, <1>8, <3>1 DEF WaitInv
    <3>3. call'[n].arg = call[cpu].arg
      BY <1>1, <1>8, <3>2
    <3> QED BY <1>3, <1>8, <3>3
  <2> QED BY <2>1 DEF WakerInv
<1> QED BY <1>11, <1>12, <1>13 DEF MutexInv

\* A mutex that is initialised is one that no call is inside.
LEMMA MutexStarts ==
  ASSUME Orderly, InOrder, MutexInit
  PROVE  MutexInv' /\ MidInv'
<1>1. /\ TypeInv /\ HoldInv /\ WaitInv /\ WakerInv /\ MidInv /\ cpu \in Node
      /\ Range(waiting_queue) \subseteq Node /\ holds \in [Mutex -> SUBSET Node]
      /\ mutex \in [Mutex -> MutexState]
      /\ \A n \in Node : /\ call[n] \in CallRecord /\ ShapeOK(call[n]) /\ call[n].op \in Ops
                         /\ call[n].op \in {"lock", "unlock"} => call[n].arg \in Mutex
      /\ \A a, b \in Mutex : a = b
  BY MutexTypes
<1>2. PICK m \in Mutex \ usable :
        /\ mutex' = [mutex EXCEPT ![m] = [mid |-> mutex_count, locked |-> FALSE,
                                          tid |-> -1, ready_waiting |-> FALSE]]
        /\ usable' = usable \cup {m}
  BY DEF MutexInit
<1>3. /\ mutex_count < MaxMutexInits /\ mutex_count' = mutex_count + 1
      /\ call' = call /\ cpu' = cpu /\ holds' = holds /\ tcb' = tcb /\ Born' = Born
      /\ waiting_queue' = waiting_queue
      /\ mutex_count \in Nat /\ MaxMutexInits \in Nat
  BY <1>1, PthreadAssumption
     DEF MutexInit, queues, births, Born, TypeInv, DataInv, PthreadAssumption
<1> HIDE DEF Range
<1>4. ~Touched(m)
  BY <1>2, <1>3 DEF Touched
<1>5. /\ \A n \in Node : call[n].op \notin {"lock", "unlock"}
      /\ holds[m] = {} /\ Range(waiting_queue) = {}
  <2>1. \A n \in Node : call[n].op \notin {"lock", "unlock"}
    <3>1. \A k \in Mutex : ~Touched(k)
      BY <1>1, <1>2, <1>4
    <3> QED BY <1>1, <3>1 DEF WaitInv
  <2>2. holds[m] = {}
    BY <1>2, <1>4, <1>1 DEF HoldInv
  <2>3. Range(waiting_queue) = {}
    BY <1>1, <2>1 DEF WaitInv
  <2> QED BY <2>1, <2>2, <2>3
<1>6. \A k \in Mutex : holds[k] = {}
  BY <1>1, <1>2, <1>5
<1>7. /\ \A k \in Mutex : ~mutex'[k].locked
      /\ MaxMutexInits <= 1 => \A k \in Mutex : mutex'[k].mid = 0
  <2>1. \A k \in Mutex : mutex'[k] = [mid |-> mutex_count, locked |-> FALSE,
                                      tid |-> -1, ready_waiting |-> FALSE]
    BY <1>1, <1>2
  <2>2. MaxMutexInits <= 1 => mutex_count = 0
    BY <1>3
  <2> QED BY <2>1, <2>2
<1>8. HoldInv'
  BY <1>3, <1>6, <1>7 DEF HoldInv
<1>9. WaitInv'
  <2>1. call[cpu].op # "lock" /\ call[cpu].at # "lockTake"
    BY <1>1, <1>5 DEF ShapeOK, Ops
  <2> QED BY <1>3, <1>5, <2>1 DEF WaitInv
<1>10. WakerInv'
  BY <1>3, <1>5 DEF WakerInv
<1>11. MidInv'
  BY <1>3, <1>7 DEF MidInv
<1> QED BY <1>8, <1>9, <1>10, <1>11 DEF MutexInv

\* A mutex that is destroyed is not locked, and either no call is inside or the
\* mutex is never initialised again.
LEMMA MutexEnds ==
  ASSUME Orderly, InOrder, MutexDestroy
  PROVE  MutexInv' /\ MidInv'
<1>1. /\ TypeInv /\ HoldInv /\ WaitInv /\ WakerInv /\ MidInv /\ cpu \in Node
      /\ Range(waiting_queue) \subseteq Node /\ holds \in [Mutex -> SUBSET Node]
      /\ \A n \in Node : /\ call[n] \in CallRecord /\ ShapeOK(call[n]) /\ call[n].op \in Ops
                         /\ call[n].op \in {"lock", "unlock"} => call[n].arg \in Mutex
      /\ \A a, b \in Mutex : a = b
  BY MutexTypes
<1>2. PICK m \in usable : /\ "destroyInUse" \in Calls \/ ~InUse(m)
                          /\ DestroyAllowed(m) /\ usable' = usable \ {m}
  BY DEF MutexDestroy
<1>3. /\ mutex' = mutex /\ mutex_count' = mutex_count
      /\ call' = call /\ cpu' = cpu /\ holds' = holds /\ tcb' = tcb /\ Born' = Born
      /\ waiting_queue' = waiting_queue
  BY DEF MutexDestroy, queues, births, Born
<1> HIDE DEF Range
<1>4. m \in Mutex /\ ~mutex[m].locked
  BY <1>1, <1>2 DEF TypeInv, DataInv, DestroyAllowed
<1>5. \A k \in Mutex : ~mutex[k].locked /\ holds[k] = {}
  BY <1>1, <1>4 DEF HoldInv
<1>6. \A n \in Node : call[n].op \in {"lock", "unlock"} => Touched(call[n].arg)'
  <2>1. CASE "destroyInUse" \in Calls
    <3>1. MaxMutexInits <= 1 /\ mutex_count > 0
      BY <1>1, <1>2, <2>1 DEF Orderly, MidInv
    <3> QED BY <1>3, <3>1 DEF Touched
  <2>2. CASE ~InUse(m)
    BY <1>1, <1>4, <2>2 DEF InUse
  <2> QED BY <1>2, <2>1, <2>2
<1>7. HoldInv'
  BY <1>3, <1>5 DEF HoldInv
<1>8. WaitInv'
  BY <1>1, <1>3, <1>6 DEF WaitInv
<1>9. WakerInv'
  BY <1>1, <1>3 DEF WakerInv
<1>10. MidInv'
  BY <1>1, <1>2, <1>3 DEF MidInv
<1> QED BY <1>7, <1>8, <1>9, <1>10 DEF MutexInv

\* A mutex gets its number when it is initialised and keeps it.
LEMMA MidKept ==
  ASSUME Orderly, InOrder, [Next]_vars, ~MutexInit, ~MutexDestroy
  PROVE  MidInv'
<1>1. /\ mutex \in [Mutex -> MutexState] /\ MidInv
      /\ \A k \in Mutex : mutex[k] \in MutexState
  BY MutexTypes
<1>2. mutex_count' = mutex_count
  BY RecordsKept
<1>3. usable' = usable /\ \A k \in Mutex : mutex'[k].mid = mutex[k].mid
  <2>1. CASE ~LockTake /\ ~Unlock /\ ~UnlockWake
    BY <2>1, MutexesKept
  <2>2. CASE LockTake
    <3>1. /\ usable' = usable
          /\ mutex' = [mutex EXCEPT ![call[cpu].arg].locked = TRUE,
                                    ![call[cpu].arg].tid = tcb[current].tid,
                                    ![call[cpu].arg].ready_waiting = FALSE]
      BY <2>2 DEF LockTake
    <3> QED BY <1>1, <3>1 DEF MutexState
  <2>3. CASE Unlock
    <3>1. /\ usable' = usable
          /\ \E m \in usable : mutex' = [mutex EXCEPT ![m].locked = FALSE, ![m].tid = -1]
      BY <2>3 DEF Unlock
    <3> QED BY <1>1, <3>1 DEF MutexState
  <2>4. CASE UnlockWake
    <3>1. /\ usable' = usable
          /\ \/ mutex' = mutex
             \/ mutex' = [mutex EXCEPT ![call[cpu].arg].ready_waiting = TRUE]
      BY <2>4 DEF UnlockWake
    <3> QED BY <1>1, <3>1 DEF MutexState
  <2> QED BY <2>1, <2>2, <2>3, <2>4
<1> QED BY <1>1, <1>2, <1>3 DEF MidInv

LEMMA MutexStep ==
  ASSUME Orderly, InOrder, [Next]_vars
  PROVE  MutexInv' /\ MidInv'
<1>1. CASE UNCHANGED vars /\ ~Next
  <2>1. /\ ~CreateFirst /\ ~Create /\ ~Dispatch /\ ~MutexInit /\ ~Lock /\ ~LockTest
        /\ ~LockBlock /\ ~LockTake /\ ~Unlock /\ ~UnlockWake /\ ~MutexDestroy /\ ~SwitchBlocked
    BY <1>1 DEF Next, Library, Client
  <2> QED BY <2>1, MutexRest, MidKept
<1>2. CASE Next
  <2>1. CASE MutexInit \/ MutexDestroy
    BY <2>1, MutexStarts, MutexEnds
  <2>2. CASE ~MutexInit /\ ~MutexDestroy
    <3>1. MidInv'
      BY <2>2, MidKept
    <3>2. MutexInv'
      BY <1>2, <2>2, MutexRest, MutexBirths, MutexDispatch, LockEnters, LockTakes,
         LockReleased, LockWakes, LockSleeps
    <3> QED BY <3>1, <3>2
  <2> QED BY <2>1, <2>2
<1> QED BY <1>1, <1>2

-----------------------------------------------------------------------------
(* The invariant.                                                          *)

LEMMA OrderInit == Init => OrderInv
<1> SUFFICES ASSUME Init PROVE OrderInv
  OBVIOUS
<1>1. /\ running_qs = [l \in Level |-> << >>] /\ waiting_queue = << >> /\ join_queue = << >>
      /\ mutex = [m \in Mutex |-> [mid |-> 0, locked |-> FALSE, tid |-> -1,
                                   ready_waiting |-> FALSE]]
      /\ exit_list = [t \in Tid |-> NotExited] /\ holds = [m \in Mutex |-> {}]
      /\ usable = {} /\ proc = "init" /\ sig = "none" /\ fc = "FIRST" /\ mem_flag = FALSE
      /\ Tid = Node
  BY DEF Init, Tid, Node
<1>2. Hold({}) /\ Born = {}
  BY EmptyQueuesHold
<1>3. /\ call = [n \in Node |-> IF n = 0 THEN Idle ELSE [Idle EXCEPT !.at = "unborn"]]
      /\ cpu = 0
  BY DEF Init
<1>4. /\ \A n \in Node : call[n].op = "none" /\ call[n].at \in {"user", "unborn"}
      /\ cpu \in Node /\ call[cpu].at = "user" /\ call[cpu].op = "none"
  BY <1>3, PthreadAssumption DEF PthreadAssumption, Node, Idle
<1>5. Range(waiting_queue) = {} /\ Range(join_queue) = {}
      /\ \A l \in Level : Range(running_qs[l]) = {}
  BY <1>1 DEF Range
<1> HIDE DEF Range
<1>6. StartInv /\ FrontInv
  BY <1>1 DEF StartInv, FrontInv
<1>7. PlaceInv
  <2>1. Alive = {}
    BY <1>2 DEF Alive
  <2> QED BY <1>2, <2>1 DEF PlaceInv
<1>8. RunnableInItsLevel
  BY <1>5 DEF RunnableInItsLevel
<1>9. ShapeInv /\ FlagInv
  BY <1>1, <1>4 DEF ShapeInv, ShapeOK, Resting, FlagInv, FlagOK
<1>10. JoinInv /\ ExitInv
  BY <1>1, <1>4, <1>5 DEF JoinInv, ExitInv
<1>11. MidInv /\ HoldInv /\ WaitInv /\ WakerInv
  BY <1>1, <1>4, <1>5 DEF MidInv, HoldInv, WaitInv, WakerInv
<1> QED BY <1>6, <1>7, <1>8, <1>9, <1>10, <1>11 DEF OrderInv

LEMMA OrderStep ==
  ASSUME Orderly, InOrder, [Next]_vars
  PROVE  InOrder'
<1>1. TypeInv /\ IdInv /\ StartInv
  BY DEF InOrder, OrderInv
<1>2. TypeInv'
  BY <1>1, TypeStep
<1>3. IdInv'
  BY <1>1, IdStep DEF Orderly
<1>4. StartInv' /\ PlaceInv'
  BY <1>1, <1>2, StartStep, PlaceStep
<1>5. RunnableInItsLevel' /\ FrontInv'
  BY <1>2, <1>4, LevelStep, FrontStep
<1>6. ShapeInv' /\ FlagInv' /\ JoinInv' /\ ExitInv'
  BY ShapeStep, JoinStep
<1>7. MidInv' /\ HoldInv' /\ WaitInv' /\ WakerInv'
  BY MutexStep DEF MutexInv
<1> QED BY <1>2, <1>3, <1>4, <1>5, <1>6, <1>7 DEF InOrder, OrderInv

LEMMA OrderAlways == ASSUME Orderly PROVE Spec => []InOrder
<1>1. Init => InOrder
  BY TypeInit, IdInit, OrderInit DEF InOrder
<1>2. InOrder /\ [Next]_vars => InOrder'
  BY OrderStep
<1> QED BY <1>1, <1>2, PTL DEF Spec

-----------------------------------------------------------------------------
(* What it implies.                                                        *)

\* OneQueueEach: across every dequeue, rotation, sinking and boost of updateQueue, the
\* loop of my_pthread_exit and the wake-up of my_pthread_mutex_unlock, a thread that
\* lives stands in exactly one queue and one that exited in none.
THEOREM OneQueueEachHolds ==
  ASSUME Orderly
  PROVE  Spec => []OneQueueEach
<1>1. InOrder => OneQueueEach
  <2> SUFFICES ASSUME InOrder, NEW n \in Born
               PROVE  Cardinality(Slots(n)) = IF Gone(n) THEN 0 ELSE 1
    BY DEF OneQueueEach, Born
  <2>1. Hold(Alive) /\ (n \in Alive <=> ~Gone(n))
    BY DEF InOrder, OrderInv, PlaceInv, Alive
  <2> QED BY <2>1, OneSlot
<1> QED BY <1>1, OrderAlways, PTL

\* RunnableInItsLevel: the level that updateQueue looks up by thread_priority is the
\* one the thread stands in, after every sinking, boost and wake-up.
THEOREM RunnableInItsLevelHolds ==
  ASSUME Orderly
  PROVE  Spec => []RunnableInItsLevel
<1>1. InOrder => RunnableInItsLevel
  BY DEF InOrder, OrderInv
<1> QED BY <1>1, OrderAlways, PTL

\* RunningIsFront: the thread that runs its own code is current and stands at the front
\* of its level, so that updateQueue moves the thread it means.
THEOREM RunningIsFrontHolds ==
  ASSUME Orderly
  PROVE  Spec => []RunningIsFront
<1>1. InOrder => RunningIsFront
  <2> SUFFICES ASSUME InOrder, At("user") PROVE InFront
    BY DEF RunningIsFront, InFront
  <2>1. proc # "init" /\ Point # "dispatch"
    BY DEF At, Point
  <2> QED BY <2>1 DEF InOrder, OrderInv, FrontInv
<1> QED BY <1>1, OrderAlways, PTL

\* Only Fault ends the process in a fault.
LEMMA FaultOnly ==
  ASSUME [Next]_vars, ~Fault, proc # "fault"
  PROVE  proc' # "fault"
<1>1. CASE Library
  BY <1>1 DEF Library, SchedulerBusy, SwitchNone, SwitchFirst, SwitchTimer, SwitchYield,
              SwitchExit, SwitchJoin, SwitchBlocked, InSwitch, Dispatch, DispatchNone,
              CreateCount, ExitWake, ExitRecord, JoinWait, JoinReturn, LockTest, LockBlock,
              LockTake, UnlockWake, MallocSwaps, MallocMeta, MallocReturn, MallocGivesUp
<1>2. CASE Client
  BY <1>2 DEF Client, CreateFirst, Create, Yield, Exit, Join, MainReturns, MutexInit, Lock,
              Unlock, MutexDestroy, MallocEnter
<1>3. CASE TimerFires \/ Ended \/ UNCHANGED vars
  BY <1>3 DEF TimerFires, Ended, vars
<1> QED BY <1>1, <1>2, <1>3 DEF Next

\* NoFault: scheduler(), the queue operations and the library calls never follow a
\* NULL current thread or an empty queue.
THEOREM NoFaultHolds ==
  ASSUME Orderly
  PROVE  Spec => []NoFault
<1>1. Init => NoFault
  BY DEF Init, NoFault
<1>2. InOrder /\ NoFault /\ [Next]_vars => NoFault'
  BY NoNull, FaultOnly DEF Fault, NoFault
<1> QED BY <1>1, <1>2, OrderAlways, PTL DEF Spec

\* JoinSound: my_pthread_join returns only after its target has exited, with the value
\* of that exit, however the exit's loop over join_queue and the switches interleave.
THEOREM JoinSoundHolds ==
  ASSUME Orderly
  PROVE  Spec => []JoinSound
<1>1. InOrder => JoinSound
  <2> SUFFICES ASSUME InOrder, At("joinDone")
               PROVE  exit_list[call[cpu].arg] = tcb[cpu].value_ptr
    BY DEF JoinSound
  <2>1. proc = "run" /\ Point # "dispatch" /\ call[cpu].at = "joinDone"
    BY DEF At, Point
  <2> HIDE DEF Range
  <2>2. cpu \in Node /\ cpu \notin Range(join_queue)
    BY <2>1, Runs
  <2>3. Delivered(cpu)
    BY <2>1, <2>2 DEF InOrder, OrderInv, ExitInv
  <2> QED BY <2>1, <2>3 DEF Delivered
<1> QED BY <1>1, OrderAlways, PTL

\* NoForgottenJoiner: no thread sleeps in join_queue for one whose exit is recorded.
THEOREM NoForgottenJoinerHolds ==
  ASSUME Orderly
  PROVE  Spec => []NoForgottenJoiner
<1>1. InOrder => NoForgottenJoiner
  BY DEF InOrder, OrderInv, JoinInv, NoForgottenJoiner
<1> QED BY <1>1, OrderAlways, PTL

\* ExitedStopsRunning: after my_pthread_exit the thread is not scheduled again.
THEOREM ExitedStopsRunningHolds ==
  ASSUME Orderly
  PROVE  Spec => []ExitedStopsRunning
<1>1. InOrder => ExitedStopsRunning
  <2> SUFFICES ASSUME InOrder, At("user") PROVE exit_list[tcb[cpu].tid] = NotExited
    BY DEF ExitedStopsRunning
  <2>1. proc = "run" /\ Point # "dispatch" /\ call[cpu].at = "user"
    BY DEF At, Point
  <2>2. cpu \in Node /\ tcb[cpu].tid = cpu
    BY <2>1, Runs
  <2>3. call[cpu].op # "exit"
    BY <2>1, <2>2 DEF InOrder, OrderInv, ShapeInv, ShapeOK
  <2> QED BY <2>2, <2>3 DEF InOrder, OrderInv, ExitInv
<1> QED BY <1>1, OrderAlways, PTL

\* NoForgottenWaiter: a sleeper of waiting_queue is behind a locked mutex or behind a
\* thread that is awake inside a call on it.
THEOREM NoForgottenWaiterHolds ==
  ASSUME Orderly
  PROVE  Spec => []NoForgottenWaiter
<1>1. InOrder => NoForgottenWaiter
  BY DEF InOrder, OrderInv, WakerInv, NoForgottenWaiter
<1> QED BY <1>1, OrderAlways, PTL

\* DestroyedAtRest: the checks of my_pthread_mutex_destroy keep the mutex alive while a
\* thread holds it or sleeps for it, even if others are about to lock it.
THEOREM DestroyedAtRestHolds ==
  ASSUME Orderly
  PROVE  Spec => DestroyedAtRest
<1> DEFINE AtRest == \A m \in usable \ usable' :
             holds[m] = {} /\ \A n \in Range(waiting_queue) : call[n].arg # m
<1>1. InOrder /\ [Next]_vars => [AtRest]_vars
  <2> SUFFICES ASSUME InOrder, [Next]_vars, NEW m \in usable \ usable'
               PROVE  holds[m] = {} /\ \A n \in Range(waiting_queue) : call[n].arg # m
    OBVIOUS
  <2>1. /\ HoldInv /\ WaitInv /\ waiting_queue \in Seq(Born) /\ m \in Mutex
    BY MutexTypes DEF TypeInv, DataInv
  <2>2. MutexDestroy
    <3>1. CASE LockTake \/ Unlock \/ UnlockWake \/ MutexInit
      BY <3>1 DEF LockTake, Unlock, UnlockWake, MutexInit
    <3>2. CASE ~LockTake /\ ~Unlock /\ ~UnlockWake /\ ~MutexInit /\ ~MutexDestroy
      BY <3>2, MutexesKept
    <3> QED BY <3>1, <3>2
  <2>3. ~mutex[m].locked /\ Matches(m) = {}
    BY <2>2 DEF MutexDestroy, DestroyAllowed
  <2>4. holds[m] = {}
    BY <2>1, <2>3 DEF HoldInv
  <2>5. ASSUME NEW n \in Range(waiting_queue), call[n].arg = m PROVE FALSE
    <3>1. tcb[n].mid = mutex[m].mid
      BY <2>1, <2>5 DEF WaitInv
    <3>2. PICK i \in DOMAIN waiting_queue : waiting_queue[i] = n
      BY DEF Range
    <3>3. i \in Matches(m)
      BY <3>1, <3>2 DEF Matches
    <3> QED BY <2>3, <3>3
  <2> QED BY <2>4, <2>5
<1> QED BY <1>1, OrderAlways, PTL DEF Spec, DestroyedAtRest

===============================================================================

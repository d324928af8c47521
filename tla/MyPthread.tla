------------------------------- MODULE MyPthread -------------------------------
(***************************************************************************)
(* The user-level thread library of my_pthread.c: thread creation, yield,  *)
(* exit and join, mutexes, and the multi-level feedback scheduler that     *)
(* SIGALRM or a library call enters.                                       *)
(*                                                                         *)
(* One thread has the processor (cpu).  A library call is cut into steps   *)
(* at the program points between which a SIGALRM makes a difference; the   *)
(* points at which the signal may arrive are the constant Preemptible, so  *)
(* that a configuration says which race windows it opens.  scheduler() is  *)
(* two steps, updateQueue() (point "update") and the choice of the next    *)
(* context (point "dispatch"); the same steps serve the signal handler,    *)
(* whose position is sig.                                                  *)
(*                                                                         *)
(* The linked queues are sequences of context nodes.  A NULL pointer that  *)
(* the code would dereference ends the process: proc becomes "fault".      *)
(***************************************************************************)
EXTENDS Integers, Sequences, FiniteSets, Functions

CONSTANTS
  NumPriorities,  \* NUM_PRIORITIES: the levels of running_qs
  MaintCycle,     \* MAINT_CYCLE: dispatches between two boosts of the lowest level
  MaxThreads,     \* bound: context nodes ever created, main's included
  Mutex,          \* the client's mutex objects
  MaxMutexInits,  \* bound: calls of my_pthread_mutex_init
  Calls,          \* the kinds of library call that the client makes
  MayJoin,        \* pairs <<joiner tid, target tid>> that the client joins
  MayExit,        \* tids that may end by my_pthread_exit or by returning
  Preemptible     \* program points at which SIGALRM may arrive

Node   == 0 .. MaxThreads - 1      \* context nodes, in creation order; 0 is main's
Tid    == 0 .. MaxThreads - 1
Level  == 0 .. NumPriorities - 1
Lowest == NumPriorities - 1

NoNode    == -1                    \* current = NULL
Null      == -1                    \* a NULL value_ptr
NotExited == -2                    \* no exit_node carries this tid
Value     == Tid \cup {Null}       \* exit values; a thread's own value is its tid

Points == {"unborn", "user", "createCount", "malloc", "joinWait", "joinDone",
           "exitWake", "lockTest", "lockBlock", "lockTake", "unlockWake",
           "update", "dispatch", "dead"}
Ops    == {"none", "create", "yield", "exit", "join", "lock", "unlock", "malloc"}
Flags  == {"NONE", "TIMER", "YIELD", "PEXIT", "JOIN", "FIRST", "BLOCKED"}

ASSUME PthreadAssumption ==
  /\ NumPriorities \in Nat /\ NumPriorities > 1
  /\ MaintCycle \in Nat
  /\ MaxThreads \in Nat /\ MaxThreads > 1
  /\ MaxMutexInits \in Nat
  /\ Preemptible \subseteq Points

VARIABLES
  running_qs, waiting_queue, join_queue,   \* the queues, as sequences of nodes
  tcb,              \* [Node -> thread control block]
  exit_list,        \* [Tid -> value of its latest exit_node, or NotExited]
  mutex,            \* [Mutex -> the fields of my_pthread_mutex_t]
  mutex_count,
  current,          \* the global context pointer
  fc,               \* the global flag that says why scheduler() was called
  maintenanceCount,
  mem_flag,         \* the memory manager is at work: do not switch
  threadCount,      \* the next thread id
  nodeCount,        \* the number of context nodes created
  cpu,              \* the node whose stack the processor runs on
  sig,              \* where the SIGALRM handler is: "none", "update", "dispatch"
  call,             \* [Node -> the library call the thread is in]
  holds,            \* [Mutex -> the nodes whose last lock call returned]
  usable,           \* the mutexes initialised and not destroyed since
  proc              \* "init" (firstThread is 1), "run", "exited", "fault"

queues  == <<running_qs, waiting_queue, join_queue>>
mutexes == <<mutex, mutex_count, holds, usable>>
births  == <<threadCount, nodeCount>>
vars    == <<queues, mutexes, births, tcb, exit_list, current, fc,
             maintenanceCount, mem_flag, cpu, sig, call, proc>>

Block == [tid : Tid, thread_priority : Level, join_id : Tid \cup {-1},
          value_ptr : Value, mid : (0 .. MaxMutexInits) \cup {-1}]
NewBlock(id) == [tid |-> id, thread_priority |-> 0, join_id |-> -1,
                 value_ptr |-> Null, mid |-> -1]

MutexState == [mid : 0 .. MaxMutexInits, locked : BOOLEAN,
               tid : Tid \cup {-1}, ready_waiting : BOOLEAN]

\* A library call: the point reached, the function, its operand (a tid, a node,
\* a value or a mutex) and the loop counter of my_pthread_exit.
Idle == [at |-> "user", op |-> "none", arg |-> -1, i |-> 0]
Operand == Value \cup Mutex

-----------------------------------------------------------------------------
(* The program before the first my_pthread_create.                         *)

Init ==
  /\ running_qs = [l \in Level |-> << >>]
  /\ waiting_queue = << >>
  /\ join_queue = << >>
  /\ tcb = [n \in Node |-> NewBlock(0)]
  /\ exit_list = [t \in Tid |-> NotExited]
  /\ mutex = [m \in Mutex |-> [mid |-> 0, locked |-> FALSE, tid |-> -1,
                               ready_waiting |-> FALSE]]
  /\ mutex_count = 0
  /\ current = NoNode
  /\ fc = "FIRST"
  /\ maintenanceCount = 0
  /\ mem_flag = FALSE
  /\ threadCount = 1
  /\ nodeCount = 0
  /\ cpu = 0
  /\ sig = "none"
  /\ call = [n \in Node |-> IF n = 0 THEN Idle ELSE [Idle EXCEPT !.at = "unborn"]]
  /\ holds = [m \in Mutex |-> {}]
  /\ usable = {}
  /\ proc = "init"

\* The program point of the running thread, or of the handler on top of it.
Point == IF sig = "none" THEN call[cpu].at ELSE sig

At(p) == proc = "run" /\ sig = "none" /\ call[cpu].at = p

\* The client is in its own code and may call the library.
InUser(kind) == kind \in Calls /\ At("user") /\ current # NoNode

Priority == tcb[current].thread_priority

HoldsNothing(n) == \A m \in Mutex : n \notin holds[m]

Goto(p) == call' = [call EXCEPT ![cpu].at = p]
Enter(o, p, a) ==
  call' = [call EXCEPT ![cpu] = [at |-> p, op |-> o, arg |-> a, i |-> 0]]
ReturnToUser == call' = [call EXCEPT ![cpu] = Idle]

-----------------------------------------------------------------------------
(* scheduler() and updateQueue().                                          *)

\* Mutant: the lock is taken on return, without testing it again (if for while).
LockNotRetested(c) ==
  CASE c.op = "join" -> [c EXCEPT !.at = "joinDone"]
    [] c.op = "lock" -> [c EXCEPT !.at = "lockTake"]
    [] OTHER         -> Idle

\* Where a call goes on when its scheduler() returns or its context is resumed.
Resumed(c) ==
  CASE c.op = "join" -> [c EXCEPT !.at = "joinDone"]
    [] c.op = "lock" -> [c EXCEPT !.at = "lockTest"]
    [] OTHER         -> Idle

ReturnFromScheduler ==
  IF sig = "none"
  THEN call' = [call EXCEPT ![cpu] = Resumed(@)] /\ UNCHANGED sig
  ELSE sig' = "none" /\ UNCHANGED call

ToDispatch ==
  IF sig = "none"
  THEN Goto("dispatch") /\ UNCHANGED sig
  ELSE sig' = "dispatch" /\ UNCHANGED call

\* Mutant: the lowest level is lifted only when the highest is empty.
BoostWhenIdle(qs) ==
  maintenanceCount > MaintCycle /\ qs[Lowest] # << >> /\ qs[0] = << >>

\* Mutant: the lifted threads keep their priority.
NotPromoted(blocks, level) == blocks

\* The maintenance at the end of updateQueue: after MaintCycle dispatches the
\* lowest level is appended to the highest, all of whose priorities become 0.
BoostDue(qs) == maintenanceCount > MaintCycle /\ qs[Lowest] # << >>
Boosted(qs) == [qs EXCEPT ![0] = @ \o qs[Lowest], ![Lowest] = << >>]
Promoted(blocks, level) ==
  [n \in Node |-> IF n \in Range(level) THEN [blocks[n] EXCEPT !.thread_priority = 0]
                  ELSE blocks[n]]
Maintain(qs, blocks) ==
  /\ running_qs' = IF BoostDue(qs) THEN Boosted(qs) ELSE qs
  /\ tcb' = IF BoostDue(qs) THEN Promoted(blocks, Boosted(qs)[0]) ELSE blocks
  /\ maintenanceCount' = IF maintenanceCount > MaintCycle THEN 0 ELSE maintenanceCount

\* Mutant: scheduler() ignores mem_flag.
InSwitchAnyway(f) == proc = "run" /\ Point = "update" /\ fc = f

InSwitch(f) == proc = "run" /\ Point = "update" /\ ~mem_flag /\ fc = f

\* The switch has a current thread whose level is not empty.
Queued == current # NoNode /\ running_qs[Priority] # << >>

\* running_qs with its head taken off the level of the current thread.
Dequeued == [running_qs EXCEPT ![Priority] = Tail(@)]

\* Mutants: the head is enqueued without being dequeued; the level is not rotated.
HeadDoubled == [running_qs EXCEPT ![Priority] = Append(@, Head(@))]
NotRotated  == running_qs

Rotated == [running_qs EXCEPT ![Priority] = Append(Tail(@), Head(@))]

\* Mutant: the lowest level sinks too.
AlwaysSinks == Priority <= Lowest

CanSink == Priority < Lowest

\* mem_flag: the timer is re-armed and the current thread goes on.
SchedulerBusy ==
  /\ proc = "run" /\ Point = "update" /\ mem_flag
  /\ ReturnFromScheduler
  /\ UNCHANGED <<queues, mutexes, births, tcb, exit_list, current, fc,
                 maintenanceCount, mem_flag, cpu, proc>>

\* case NONE: the current thread resumes.
SwitchNone ==
  /\ InSwitch("NONE")
  /\ ReturnFromScheduler
  /\ UNCHANGED <<queues, mutexes, births, tcb, exit_list, current, fc,
                 maintenanceCount, mem_flag, cpu, proc>>

\* case FIRST: no timer has fired yet; no queue changes, no maintenance.
SwitchFirst ==
  /\ InSwitch("FIRST")
  /\ ToDispatch
  /\ UNCHANGED <<queues, mutexes, births, tcb, exit_list, current, fc,
                 maintenanceCount, mem_flag, cpu, proc>>

\* case TIMER: the head of the current thread's level moves one level down.
SwitchTimer ==
  /\ InSwitch("TIMER") /\ Queued
  /\ IF CanSink
     THEN Maintain([Dequeued EXCEPT ![Priority + 1] = Append(@, Head(running_qs[Priority]))],
                   [tcb EXCEPT ![current].thread_priority = @ + 1])
     ELSE Maintain(Rotated, tcb)
  /\ fc' = "NONE"
  /\ ToDispatch
  /\ UNCHANGED <<waiting_queue, join_queue, mutexes, births, exit_list, current,
                 mem_flag, cpu, proc>>

\* case YIELD: the head of the level goes to its end.
SwitchYield ==
  /\ InSwitch("YIELD") /\ Queued
  /\ Maintain(Rotated, tcb)
  /\ fc' = "NONE"
  /\ ToDispatch
  /\ UNCHANGED <<waiting_queue, join_queue, mutexes, births, exit_list, current,
                 mem_flag, cpu, proc>>

\* case PEXIT: the head of the level is dropped and there is no current thread;
\* fc keeps its value until the dispatch.
SwitchExit ==
  /\ InSwitch("PEXIT") /\ current # NoNode
  /\ Maintain(IF running_qs[Priority] = << >> THEN running_qs ELSE Dequeued, tcb)
  /\ current' = NoNode
  /\ ToDispatch
  /\ UNCHANGED <<waiting_queue, join_queue, mutexes, births, exit_list, fc,
                 mem_flag, cpu, proc>>

\* case JOIN: the head of the level goes to the join queue.
SwitchJoin ==
  /\ InSwitch("JOIN") /\ Queued
  /\ join_queue' = Append(join_queue, Head(running_qs[Priority]))
  /\ Maintain(Dequeued, tcb)
  /\ fc' = "NONE"
  /\ ToDispatch
  /\ UNCHANGED <<waiting_queue, mutexes, births, exit_list, current, mem_flag,
                 cpu, proc>>

\* case BLOCKED: the head of the level goes to the waiting queue.
SwitchBlocked ==
  /\ InSwitch("BLOCKED") /\ Queued
  /\ waiting_queue' = Append(waiting_queue, Head(running_qs[Priority]))
  /\ Maintain(Dequeued, tcb)
  /\ fc' = "NONE"
  /\ ToDispatch
  /\ UNCHANGED <<join_queue, mutexes, births, exit_list, current, mem_flag, cpu, proc>>

\* The levels that hold a node, and the highest of them.
Occupied == {l \in Level : running_qs[l] # << >>}
Top(levels) == CHOOSE l \in levels : \A k \in levels : l <= k

\* The node at the front of the highest occupied level is the current thread.
FrontIsCurrent ==
  /\ current # NoNode
  /\ tcb[Head(running_qs[Top(Occupied)])].tid = tcb[current].tid

\* The context that scheduler() picks: the front of the highest occupied level,
\* or, when that is the current thread, its successor, or the front of the next
\* occupied level, or the current thread itself.
NewContext ==
  LET top   == Top(Occupied)
      below == {l \in Occupied : l > top}
  IN IF ~FrontIsCurrent           THEN Head(running_qs[top])
     ELSE IF Len(running_qs[top]) > 1 THEN running_qs[top][2]
     ELSE IF below # {}           THEN Head(running_qs[Top(below)])
     ELSE current

\* Mutant: the current thread stays at the front of its level.
StaysInFront == running_qs

\* A current thread that stands at the front is moved behind its level.
AfterPick == IF FrontIsCurrent THEN Rotated ELSE running_qs

\* The end of scheduler(): the timer is armed and the processor goes to the new
\* context.  A thread that exits is not saved; any other resumes where its call
\* continues, and a preempted one returns from the handler.
Dispatch ==
  /\ proc = "run" /\ Point = "dispatch" /\ Occupied # {}
  /\ current # NoNode \/ fc = "PEXIT"
  /\ FrontIsCurrent => running_qs[Priority] # << >>
  /\ maintenanceCount' = maintenanceCount + 1
  /\ running_qs' = AfterPick
  /\ current' = NewContext
  /\ cpu' = NewContext
  /\ fc' = IF fc = "PEXIT" THEN "NONE" ELSE fc
  /\ IF fc = "PEXIT" THEN Goto("dead") /\ UNCHANGED sig ELSE ReturnFromScheduler
  /\ UNCHANGED <<waiting_queue, join_queue, mutexes, births, tcb, exit_list,
                 mem_flag, proc>>

\* No level holds a node: scheduler() returns to its caller.
DispatchNone ==
  /\ proc = "run" /\ Point = "dispatch" /\ Occupied = {}
  /\ maintenanceCount' = maintenanceCount + 1
  /\ ReturnFromScheduler
  /\ UNCHANGED <<queues, mutexes, births, tcb, exit_list, current, fc, mem_flag,
                 cpu, proc>>

\* The NULL dereferences of the library: scheduler() without a current thread,
\* enqueuee(dequeuee(Q), Q') with Q empty, my_pthread_yield on an empty level,
\* and a call made after the last thread has exited.
NullDereference ==
  \/ /\ Point = "update"
     /\ \/ mem_flag /\ current = NoNode
        \/ ~mem_flag /\ fc = "PEXIT" /\ current = NoNode
        \/ ~mem_flag /\ fc \in {"TIMER", "YIELD", "JOIN", "BLOCKED"} /\ ~Queued
  \/ /\ Point = "dispatch" /\ Occupied # {}
     /\ \/ current = NoNode /\ fc # "PEXIT"
        \/ FrontIsCurrent /\ running_qs[Priority] = << >>
  \/ /\ "yield" \in Calls /\ At("user") /\ current # NoNode
     /\ running_qs[Priority] = << >>
  \/ At("user") /\ current = NoNode
  \/ Point \in {"createCount", "joinWait", "exitWake", "lockBlock", "lockTake"} /\ current = NoNode

Fault ==
  /\ proc = "run" /\ NullDereference
  /\ proc' = "fault"
  /\ UNCHANGED <<queues, mutexes, births, tcb, exit_list, current, fc,
                 maintenanceCount, mem_flag, cpu, sig, call>>

\* SIGALRM: timer_triggered() sets fc, whatever it was, and calls scheduler().
\* The signal is masked while its handler runs.
TimerFires ==
  /\ proc = "run" /\ sig = "none" /\ Point \in Preemptible
  /\ fc' = "TIMER"
  /\ sig' = "update"
  /\ UNCHANGED <<queues, mutexes, births, tcb, exit_list, current,
                 maintenanceCount, mem_flag, cpu, call, proc>>

-----------------------------------------------------------------------------
(* Threads.                                                                *)

\* The first my_pthread_create: nodes for main (tid 0) and for the new thread
\* (tid 1), which stands first in level 0 and is switched to.
CreateFirst ==
  /\ proc = "init"
  /\ running_qs' = [running_qs EXCEPT ![0] = <<1, 0>>]
  /\ tcb' = [tcb EXCEPT ![0] = NewBlock(0), ![1] = NewBlock(1)]
  /\ threadCount' = 2
  /\ nodeCount' = 2
  /\ maintenanceCount' = 1
  /\ mem_flag' = FALSE
  /\ current' = 1
  /\ cpu' = 1
  /\ call' = [call EXCEPT ![0] = Idle, ![1] = Idle]
  /\ proc' = "run"
  /\ UNCHANGED <<waiting_queue, join_queue, mutexes, exit_list, fc, sig>>

\* A later my_pthread_create, up to the enqueuee of the new node.
Create ==
  /\ InUser("create") /\ nodeCount < MaxThreads
  /\ tcb' = [tcb EXCEPT ![nodeCount] = NewBlock(threadCount)]
  /\ running_qs' = [running_qs EXCEPT ![0] = Append(@, nodeCount)]
  /\ nodeCount' = nodeCount + 1
  /\ mem_flag' = FALSE
  /\ call' = [call EXCEPT ![cpu] = [at |-> "createCount", op |-> "create",
                                    arg |-> nodeCount, i |-> 0],
                          ![nodeCount] = Idle]
  /\ UNCHANGED <<waiting_queue, join_queue, mutexes, threadCount, exit_list, current, fc,
                 maintenanceCount, cpu, sig, proc>>

\* Mutant: the new thread takes the id of its creator's last child.
CountForgotten ==
  /\ At("createCount") /\ current # NoNode
  /\ Goto("update")
  /\ UNCHANGED <<queues, mutexes, births, tcb, exit_list, current, fc,
                 maintenanceCount, mem_flag, cpu, sig, proc>>

\* *thread = threadCount; threadCount++; then scheduler().
CreateCount ==
  /\ At("createCount") /\ current # NoNode
  /\ threadCount' = threadCount + 1
  /\ Goto("update")
  /\ UNCHANGED <<queues, mutexes, nodeCount, tcb, exit_list, current, fc,
                 maintenanceCount, mem_flag, cpu, sig, proc>>

\* my_pthread_yield: a thread alone in its level goes on without a switch.
Yield ==
  /\ InUser("yield") /\ Len(running_qs[Priority]) > 1
  /\ fc' = "YIELD"
  /\ Enter("yield", "update", -1)
  /\ UNCHANGED <<queues, mutexes, births, tcb, exit_list, current,
                 maintenanceCount, mem_flag, cpu, sig, proc>>

\* Mutant: my_pthread_exit does not set fc.
ExitWithoutFlag ==
  /\ InUser("exit") /\ tcb[current].tid \in MayExit /\ HoldsNothing(cpu)
  /\ \E v \in {tcb[current].tid, Null} : Enter("exit", "exitWake", v)
  /\ mem_flag' = FALSE
  /\ UNCHANGED <<queues, mutexes, births, tcb, exit_list, current, fc,
                 maintenanceCount, cpu, sig, proc>>

\* my_pthread_exit(value_ptr), called by the thread with a value of its own, or
\* through exit_context with NULL when its function returns.
Exit ==
  /\ InUser("exit") /\ tcb[current].tid \in MayExit /\ HoldsNothing(cpu)
  /\ \E v \in {tcb[current].tid, Null} : Enter("exit", "exitWake", v)
  /\ mem_flag' = FALSE
  /\ fc' = "PEXIT"
  /\ UNCHANGED <<queues, mutexes, births, tcb, exit_list, current,
                 maintenanceCount, cpu, sig, proc>>

\* Mutants: the loop ends one joiner early; every joiner is woken.
LastJoinerSkipped == call[cpu].i + 1 < Len(join_queue)
AnyoneJoins(n) == tcb[n].join_id # -1

\* The loop condition of my_pthread_exit, and the test of a joiner.
MoreJoiners == call[cpu].i < Len(join_queue)
Joins(n) == tcb[n].join_id = tcb[current].tid

\* One iteration of the loop over join_queue, whose length is read anew each
\* time: a joiner of this thread gets the value and becomes runnable, any other
\* goes to the end of the queue.
ExitWake ==
  LET f == call[cpu]
      n == Head(join_queue)
  IN /\ At("exitWake") /\ current # NoNode /\ MoreJoiners
     /\ IF Joins(n)
        THEN /\ tcb' = [tcb EXCEPT ![n].value_ptr = f.arg, ![n].thread_priority = 0]
             /\ running_qs' = [running_qs EXCEPT ![0] = Append(@, n)]
             /\ join_queue' = Tail(join_queue)
        ELSE /\ join_queue' = Append(Tail(join_queue), n)
             /\ UNCHANGED <<tcb, running_qs>>
     /\ call' = [call EXCEPT ![cpu].i = @ + 1]
     /\ UNCHANGED <<waiting_queue, mutexes, births, exit_list, current, fc,
                    maintenanceCount, mem_flag, cpu, sig, proc>>

\* The loop is over: the exit_node is pushed, then scheduler().
ExitRecord ==
  /\ At("exitWake") /\ current # NoNode /\ ~MoreJoiners
  /\ exit_list' = [exit_list EXCEPT ![tcb[current].tid] = call[cpu].arg]
  /\ Goto("update")
  /\ UNCHANGED <<queues, mutexes, births, tcb, current, fc, maintenanceCount,
                 mem_flag, cpu, sig, proc>>

\* my_pthread_join, when the search of exit_list has not found the target.  (When
\* it has, or the tid is too large, the call returns and nothing changes.)
Join ==
  /\ InUser("join") /\ HoldsNothing(cpu)
  /\ \E t \in Tid :
       /\ <<tcb[current].tid, t>> \in MayJoin
       /\ t < threadCount
       /\ exit_list[t] = NotExited
       /\ Enter("join", "joinWait", t)
  /\ UNCHANGED <<queues, mutexes, births, tcb, exit_list, current, fc,
                 maintenanceCount, mem_flag, cpu, sig, proc>>

JoinWait ==
  /\ At("joinWait") /\ current # NoNode
  /\ tcb' = [tcb EXCEPT ![current].join_id = call[cpu].arg]
  /\ fc' = "JOIN"
  /\ Goto("update")
  /\ UNCHANGED <<queues, mutexes, births, exit_list, current, maintenanceCount,
                 mem_flag, cpu, sig, proc>>

\* my_pthread_join returns the value_ptr of its thread block.
JoinReturn ==
  /\ At("joinDone")
  /\ ReturnToUser
  /\ UNCHANGED <<queues, mutexes, births, tcb, exit_list, current, fc,
                 maintenanceCount, mem_flag, cpu, sig, proc>>

\* main returns: the process ends.
MainReturns ==
  /\ At("user") /\ cpu = 0
  /\ proc' = "exited"
  /\ UNCHANGED <<queues, mutexes, births, tcb, exit_list, current, fc,
                 maintenanceCount, mem_flag, cpu, sig, call>>

-----------------------------------------------------------------------------
(* Mutexes.  The client initialises a mutex that is not in use, locks and  *)
(* destroys only initialised ones, and does not lock one that it holds.    *)

\* my_pthread_mutex_init: mid = mutex_count++.
MutexInit ==
  /\ InUser("mutex") /\ mutex_count < MaxMutexInits
  /\ \E m \in Mutex \ usable :
       /\ mutex' = [mutex EXCEPT ![m] = [mid |-> mutex_count, locked |-> FALSE,
                                         tid |-> -1, ready_waiting |-> FALSE]]
       /\ usable' = usable \cup {m}
  /\ mutex_count' = mutex_count + 1
  /\ UNCHANGED <<queues, births, holds, tcb, exit_list, current, fc,
                 maintenanceCount, mem_flag, cpu, sig, call, proc>>

\* my_pthread_mutex_lock: entry.
Lock ==
  /\ InUser("mutex")
  /\ \E m \in usable : cpu \notin holds[m] /\ Enter("lock", "lockTest", m)
  /\ UNCHANGED <<queues, mutexes, births, tcb, exit_list, current, fc,
                 maintenanceCount, mem_flag, cpu, sig, proc>>

\* while (mutex->locked): the test.
LockTest ==
  /\ At("lockTest")
  /\ IF mutex[call[cpu].arg].locked THEN Goto("lockBlock") ELSE Goto("lockTake")
  /\ UNCHANGED <<queues, mutexes, births, tcb, exit_list, current, fc,
                 maintenanceCount, mem_flag, cpu, sig, proc>>

\* The body of the loop: fc = BLOCKED, the thread block notes the mutex, scheduler().
LockBlock ==
  /\ At("lockBlock") /\ current # NoNode
  /\ fc' = "BLOCKED"
  /\ tcb' = [tcb EXCEPT ![current].mid = mutex[call[cpu].arg].mid]
  /\ Goto("update")
  /\ UNCHANGED <<queues, mutexes, births, exit_list, current, maintenanceCount,
                 mem_flag, cpu, sig, proc>>

\* After the loop: the mutex is taken and the call returns.
LockTake ==
  LET m == call[cpu].arg
  IN /\ At("lockTake") /\ current # NoNode
     /\ mutex' = [mutex EXCEPT ![m].locked = TRUE, ![m].tid = tcb[current].tid,
                               ![m].ready_waiting = FALSE]
     /\ holds' = [holds EXCEPT ![m] = @ \cup {cpu}]
     /\ ReturnToUser
     /\ UNCHANGED <<queues, births, mutex_count, usable, tcb, exit_list, current, fc,
                    maintenanceCount, mem_flag, cpu, sig, proc>>

\* my_pthread_mutex_unlock: the checks and the release.  (A failed check returns
\* -1 and nothing changes.)
Unlock ==
  /\ InUser("mutex")
  /\ \E m \in usable :
       /\ mutex[m].locked /\ mutex[m].tid = tcb[current].tid
       /\ mutex' = [mutex EXCEPT ![m].locked = FALSE, ![m].tid = -1]
       /\ holds' = [holds EXCEPT ![m] = @ \ {cpu}]
       /\ Enter("unlock", "unlockWake", m)
  /\ UNCHANGED <<queues, births, mutex_count, usable, tcb, exit_list, current, fc,
                 maintenanceCount, mem_flag, cpu, sig, proc>>

\* Mutant: the search starts at the second waiter.
SkipsFirst(m) == {i \in 2 .. Len(waiting_queue) : tcb[waiting_queue[i]].mid = mutex[m].mid}

\* The positions of waiting_queue whose thread waits for the mutex m.
Matches(m) == {i \in DOMAIN waiting_queue : tcb[waiting_queue[i]].mid = mutex[m].mid}

\* The search of waiting_queue: the first thread that waits for this mutex gets
\* mid -1 and priority 0, and the HEAD of the queue becomes runnable.
UnlockWake ==
  LET m == call[cpu].arg
  IN /\ At("unlockWake")
     /\ IF Matches(m) # {}
        THEN LET temp == waiting_queue[Top(Matches(m))]
             IN /\ tcb' = [tcb EXCEPT ![temp].mid = -1, ![temp].thread_priority = 0]
                /\ mutex' = [mutex EXCEPT ![m].ready_waiting = TRUE]
                /\ running_qs' = [running_qs EXCEPT ![0] = Append(@, Head(waiting_queue))]
                /\ waiting_queue' = Tail(waiting_queue)
        ELSE UNCHANGED <<tcb, mutex, running_qs, waiting_queue>>
     /\ ReturnToUser
     /\ UNCHANGED <<join_queue, births, mutex_count, holds, usable, exit_list, current,
                    fc, maintenanceCount, mem_flag, cpu, sig, proc>>

\* Mutant: the waiting queue is not searched.
DestroyUnsearched(m) == ~mutex[m].locked /\ ~mutex[m].ready_waiting

\* The checks of my_pthread_mutex_destroy.
DestroyAllowed(m) == ~mutex[m].locked /\ ~mutex[m].ready_waiting /\ Matches(m) = {}

\* A thread is inside a lock or unlock call on the mutex.
InUse(m) == \E n \in Node : call[n].op \in {"lock", "unlock"} /\ call[n].arg = m

\* my_pthread_mutex_destroy, when it returns 0.  Unless "destroyInUse" is among
\* its Calls, the client first makes sure that nobody is inside a call.
MutexDestroy ==
  /\ InUser("mutex")
  /\ \E m \in usable :
       /\ "destroyInUse" \in Calls \/ ~InUse(m)
       /\ DestroyAllowed(m)
       /\ usable' = usable \ {m}
  /\ UNCHANGED <<queues, births, mutex, mutex_count, holds, tcb, exit_list, current,
                 fc, maintenanceCount, mem_flag, cpu, sig, call, proc>>

-----------------------------------------------------------------------------
(* The memory manager, as the scheduler sees it: mem_flag is set while       *)
(* myallocate() or mydeallocate() works, until swap_pages() clears it; the   *)
(* return statements that give up leave it as it is.                         *)

MallocEnter ==
  /\ InUser("malloc")
  /\ mem_flag' = TRUE
  /\ Enter("malloc", "malloc", -1)
  /\ UNCHANGED <<queues, mutexes, births, tcb, exit_list, current, fc,
                 maintenanceCount, cpu, sig, proc>>

\* A page is swapped: swap_pages() clears mem_flag when it ends, and its caller goes on.
MallocSwaps ==
  /\ At("malloc") /\ "mallocSwap" \in Calls
  /\ mem_flag' = FALSE
  /\ UNCHANGED <<queues, mutexes, births, tcb, exit_list, current, fc,
                 maintenanceCount, cpu, sig, call, proc>>

\* Metadata for a new page comes from the OS region, and mem_flag is set again.
MallocMeta ==
  /\ At("malloc") /\ "mallocSwap" \in Calls
  /\ mem_flag' = TRUE
  /\ UNCHANGED <<queues, mutexes, births, tcb, exit_list, current, fc,
                 maintenanceCount, cpu, sig, call, proc>>

MallocReturn ==
  /\ At("malloc")
  /\ mem_flag' = FALSE
  /\ ReturnToUser
  /\ UNCHANGED <<queues, mutexes, births, tcb, exit_list, current, fc,
                 maintenanceCount, cpu, sig, proc>>

MallocGivesUp ==
  /\ At("malloc") /\ "mallocFailure" \in Calls
  /\ ReturnToUser
  /\ UNCHANGED <<queues, mutexes, births, tcb, exit_list, current, fc,
                 maintenanceCount, mem_flag, cpu, sig, proc>>

-----------------------------------------------------------------------------

\* The steps of the running thread inside the library and of the handler.
Library ==
  \/ SchedulerBusy \/ SwitchNone \/ SwitchFirst \/ SwitchTimer \/ SwitchYield
  \/ SwitchExit \/ SwitchJoin \/ SwitchBlocked \/ Dispatch \/ DispatchNone
  \/ CreateCount \/ ExitWake \/ ExitRecord \/ JoinWait \/ JoinReturn
  \/ LockTest \/ LockBlock \/ LockTake \/ UnlockWake
  \/ MallocSwaps \/ MallocMeta \/ MallocReturn \/ MallocGivesUp

\* What the client chooses to do.
Client ==
  \/ CreateFirst \/ Create \/ Yield \/ Exit \/ Join \/ MainReturns
  \/ MutexInit \/ Lock \/ Unlock \/ MutexDestroy \/ MallocEnter

\* The process has ended.
Ended == proc \in {"exited", "fault"} /\ UNCHANGED vars

Next == Library \/ Client \/ TimerFires \/ Fault \/ Ended

\* The library does not stop half-way, and the interval timer keeps firing while
\* a thread stays in preemptible code.
Fairness == WF_vars(Library) /\ WF_vars(TimerFires)

Spec     == Init /\ [][Next]_vars
FairSpec == Spec /\ Fairness

-----------------------------------------------------------------------------
(* Properties.                                                             *)

TypeOK ==
  /\ running_qs \in [Level -> Seq(Node)]
  /\ waiting_queue \in Seq(Node)
  /\ join_queue \in Seq(Node)
  /\ tcb \in [Node -> Block]
  /\ exit_list \in [Tid -> Value \cup {NotExited}]
  /\ mutex \in [Mutex -> MutexState]
  /\ mutex_count \in 0 .. MaxMutexInits
  /\ current \in Node \cup {NoNode}
  /\ fc \in Flags
  /\ maintenanceCount \in Nat
  /\ mem_flag \in BOOLEAN
  /\ threadCount \in 1 .. MaxThreads
  /\ nodeCount \in 0 .. MaxThreads
  /\ cpu \in Node
  /\ sig \in {"none", "update", "dispatch"}
  /\ call \in [Node -> [at : Points, op : Ops, arg : Operand, i : Nat]]
  /\ holds \in [Mutex -> SUBSET Node]
  /\ usable \subseteq Mutex
  /\ proc \in {"init", "run", "exited", "fault"}

\* The places a node has in the queues.
Slots(n) ==
  (UNION {{<<"running", l, i>> : i \in {j \in DOMAIN running_qs[l] : running_qs[l][j] = n}}
            : l \in Level})
  \cup {<<"waiting", 0, i>> : i \in {j \in DOMAIN waiting_queue : waiting_queue[j] = n}}
  \cup {<<"join", 0, i>> : i \in {j \in DOMAIN join_queue : join_queue[j] = n}}

\* A thread that has left the scheduler for good.
Gone(n) == call[n].at = "dead" \/ (n = cpu /\ current = NoNode)

\* A thread that lives has exactly one place in the queues, one that exited has
\* none: no dequeue and enqueue of updateQueue, exit, join or unlock loses or
\* doubles a node, and none takes a node that is not the one it means.
OneQueueEach ==
  \A n \in 0 .. nodeCount - 1 : Cardinality(Slots(n)) = IF Gone(n) THEN 0 ELSE 1

\* Every node stands in the level that its thread_priority says: updateQueue finds
\* the current thread's queue by that number.
RunnableInItsLevel ==
  \A l \in Level : \A n \in Range(running_qs[l]) : tcb[n].thread_priority = l

\* While a thread runs its own code it is the current one and stands at the front
\* of its level, so that the head updateQueue moves is the thread it means.
RunningIsFront ==
  At("user") /\ current # NoNode =>
    /\ current = cpu
    /\ running_qs[Priority] # << >> /\ Head(running_qs[Priority]) = cpu

\* The library dereferences no NULL pointer.
NoFault == proc # "fault"

\* When my_pthread_join returns, the thread it waited for has exited and the value
\* delivered is the value of its exit ("wait for thread termination").
JoinSound ==
  At("joinDone") => exit_list[call[cpu].arg] = tcb[cpu].value_ptr

\* No thread sleeps in the join queue for a thread whose exit is recorded: nobody
\* would ever wake it.
NoForgottenJoiner ==
  \A n \in Range(join_queue) : exit_list[tcb[n].join_id] = NotExited

\* A thread whose exit is recorded does not run its own code again.
ExitedStopsRunning ==
  At("user") /\ current # NoNode => exit_list[tcb[cpu].tid] = NotExited

\* No two threads have the same id: joins, mutex ownership and the scheduler's
\* comparison of contexts all go by the id.
UniqueTids ==
  \A a, b \in 0 .. nodeCount - 1 : tcb[a].tid = tcb[b].tid => a = b

\* At most one thread is between its lock and its unlock of a mutex.
MutualExclusion == \A m \in Mutex : \A a, b \in holds[m] : a = b

\* A thread that sleeps for a mutex will be woken: the mutex is locked, or a
\* thread that is awake is inside a lock or unlock call on it.
NoForgottenWaiter ==
  \A n \in Range(waiting_queue) :
    LET m == call[n].arg
    IN \/ mutex[m].locked
       \/ \E k \in Node \ Range(waiting_queue) :
            call[k].op \in {"lock", "unlock"} /\ call[k].arg = m

\* While a thread is inside the memory manager no other thread runs: mem_flag makes
\* scheduler() return to it, so nobody meets the heap half-changed.  (So long as no
\* page is swapped: swap_pages clears mem_flag too early.)
NoSwitchInMalloc == \A n \in Node : call[n].at = "malloc" => n = cpu

\* A mutex is destroyed only when no thread holds it and none sleeps for it.
DestroyedAtRest ==
  [][\A m \in usable \ usable' :
        holds[m] = {} /\ \A n \in Range(waiting_queue) : call[n].arg # m]_vars

\* A runnable thread of the lowest level runs eventually, however long the threads
\* above it go on: the maintenance of updateQueue lifts it.
LowestEventuallyRuns ==
  \A n \in Node : n \in Range(running_qs[Lowest]) ~> (cpu = n \/ proc # "run")

\* So does a runnable thread of the highest level.
HighestEventuallyRuns ==
  \A n \in Node : n \in Range(running_qs[0]) ~> (cpu = n \/ proc # "run")

\* A join of a thread that exits returns eventually.
JoinEventuallyReturns ==
  \A n \in Node :
    (call[n].op = "join" /\ exit_list[call[n].arg] # NotExited)
      ~> (call[n].op # "join" \/ proc # "run")

=============================================================================

-------------------------------- MODULE OsRegion --------------------------------
(***************************************************************************)
(* The OS region of mymemorymanager.c: a LIBRARYREQ of myallocate takes    *)
(* the next bytes, nothing is ever given back and no end is looked at.     *)
(* The requests are those of my_pthread_create, one after the other, of    *)
(* my_pthread_exit, and of myallocate itself for page metadata.            *)
(*                                                                         *)
(* A thread gets two stacks from the region: its own, and the one of its   *)
(* exit_context, of which 2080 bytes are taken but ss_size says MEM.  It   *)
(* grows down from its end, so what it uses lies behind what it was given. *)
(***************************************************************************)
EXTENDS Integers

CONSTANTS
  MaxThreads,     \* threads the client creates ...
  MaxPages,       \* and pages it is given: nothing in the region's code counts
  FrameTable,     \* sizeof(page_meta_ptr)*1596, taken by the first call
  UContext, Tcb, Node, PageMeta, ExitNode,    \* sizeof
  Levels,         \* running_qs and the queues: createScheduler
  ExitStack,      \* 2080
  Stack,          \* MEM: 40960
  Depth,          \* what exit_context uses of its stack
  RegionSize,     \* from os_mem_ptr to the end of the 8 MB
  Interruptible   \* SIGALRM comes between the requests of my_pthread_create

ASSUME RegionAssumption ==
  /\ {MaxThreads, MaxPages} \subseteq Nat
  /\ {FrameTable, UContext, Tcb, Node, PageMeta, ExitNode, Levels} \subseteq Nat
  /\ {ExitStack, Stack, Depth, RegionSize} \subseteq Nat
  /\ Interruptible \in BOOLEAN

\* The threads created, in the order in which their creation begins.
Thread == 1 .. MaxThreads

VARIABLES
  os_mem_ptr,     \* bytes taken
  first_call,     \* nobody has called myallocate
  firstThread,    \* nobody has called my_pthread_create
  stage,          \* [Thread -> the requests of its creation that are done]
  exit_sp,        \* [Thread -> ss_sp of its exit_context]
  sp,             \* [Thread -> ss_sp of its own context]
  page_counter,
  exits           \* calls of my_pthread_exit

vars == <<os_mem_ptr, first_call, firstThread, stage, exit_sp, sp, page_counter, exits>>

\* What createScheduler and the block of main take when the first thread is created.
MainBlock == Levels + UContext + Node + Tcb

\* The requests of my_pthread_create, in their order.
Sizes ==
  <<UContext, ExitStack, UContext, Tcb, Node, IF firstThread THEN MainBlock ELSE 0, Stack>>

Last == 7

-----------------------------------------------------------------------------

Init ==
  /\ os_mem_ptr = 0
  /\ first_call = TRUE
  /\ firstThread = TRUE
  /\ stage = [t \in Thread |-> 0]
  /\ exit_sp = [t \in Thread |-> 0]
  /\ sp = [t \in Thread |-> 0]
  /\ page_counter = 0
  /\ exits = 0

\* The first call takes the frame table before it answers.
Before == IF first_call THEN FrameTable ELSE 0
rtn_ptr == os_mem_ptr + Before

\* Mutant: first_call stays set.
TakenAgain(x) ==
  /\ os_mem_ptr' = rtn_ptr + x
  /\ UNCHANGED first_call

\* myallocate(x, ..., LIBRARYREQ).
Taken(x) ==
  /\ os_mem_ptr' = rtn_ptr + x
  /\ first_call' = FALSE

UnderWay(t) == stage[t] \in 1 .. Last - 1

\* Nobody is switched away from inside my_pthread_create, unless SIGALRM comes there:
\* mem_flag is cleared after every request.  The timer is set when the first thread
\* has been created.
Alone(t) == (Interruptible /\ stage[1] = Last) \/ \A u \in Thread \ {t} : ~UnderWay(u)

\* The next request of the creation of thread t.
Create(t) ==
  /\ stage[t] < Last /\ Alone(t)
  /\ t > 1 => stage[t - 1] > 0
  /\ Taken(Sizes[stage[t] + 1])
  /\ stage' = [stage EXCEPT ![t] = @ + 1]
  /\ exit_sp' = IF stage[t] = 1 THEN [exit_sp EXCEPT ![t] = rtn_ptr] ELSE exit_sp
  /\ sp' = IF stage[t] = Last - 1 THEN [sp EXCEPT ![t] = rtn_ptr] ELSE sp
  /\ firstThread' = (firstThread /\ stage[t] # Last - 2)
  /\ UNCHANGED <<page_counter, exits>>

\* The metadata of a page that is given out.
NewPage ==
  /\ page_counter < MaxPages /\ Alone(0)
  /\ Taken(PageMeta)
  /\ page_counter' = page_counter + 1
  /\ UNCHANGED <<firstThread, stage, exit_sp, sp, exits>>

\* A thread exits, or main does.
Exit ==
  /\ exits <= MaxThreads /\ Alone(0)
  /\ exits > 0 => stage[exits] = Last
  /\ Taken(ExitNode)
  /\ exits' = exits + 1
  /\ UNCHANGED <<firstThread, stage, exit_sp, sp, page_counter>>

\* The region has no operation that ends; the client is done.
Done ==
  /\ page_counter = MaxPages /\ exits > MaxThreads
  /\ UNCHANGED vars

Next == (\E t \in Thread : Create(t)) \/ NewPage \/ Exit \/ Done

Spec == Init /\ [][Next]_vars

-----------------------------------------------------------------------------
(* Properties.                                                             *)

TypeOK ==
  /\ {os_mem_ptr, page_counter, exits} \subseteq Nat
  /\ first_call \in BOOLEAN /\ firstThread \in BOOLEAN
  /\ stage \in [Thread -> 0 .. Last]
  /\ exit_sp \in [Thread -> Nat]
  /\ sp \in [Thread -> Nat]

\* What a client may ask for: so many threads, pages and exits.
PerThread == 2 * UContext + ExitStack + Tcb + Node + Stack
Demand == FrameTable + MainBlock + MaxThreads * PerThread + MaxPages * PageMeta
          + (MaxThreads + 1) * ExitNode

\* The region is large enough for the threads and pages that README allows (33 and
\* 5692), in whatever order they come: the unbounded pointer stays inside.
WithinRegion == Demand <= RegionSize => os_mem_ptr <= RegionSize

\* Mutant: ss_size is larger than the stack of a thread.
TallExit(t) == exit_sp[t] + 2 * Stack

\* Where the stack of exit_context begins: ss_sp + ss_size.
ExitTop(t) == exit_sp[t] + Stack

\* exit_context, when it comes to run, runs on memory of its own thread: on its own
\* stack, or on that of the thread, which has ended.
ExitStackOwn ==
  \A t \in Thread : stage[t] = Last =>
    \/ ExitTop(t) <= exit_sp[t] + ExitStack
    \/ sp[t] <= ExitTop(t) - Depth /\ ExitTop(t) <= sp[t] + Stack

=================================================================================

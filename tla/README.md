# A TLA+ verification of the Asst2 thread library

The repository is a user-level thread library (`src/my_pthread.c`, `src/my_pthread_t.h`) on
top of a paging memory manager (`src/mymemorymanager.c`), which includes it.  All of it is one
Unix process and one kernel thread: "concurrency" means that SIGALRM may interrupt the running
thread at any instruction and switch the processor to another one from inside the handler.
Nothing in the library masks the signal, so every window between two statements is a race
window unless the global `mem_flag` is set.

## 1. Inventory

| Component | State it keeps | Operations | Hard behaviour | What makes it correct |
|---|---|---|---|---|
| Scheduler (`my_pthread.c` 335-535) | `running_qs` (one queue per level), `current`, `fc`, `maintenanceCount` | `scheduler`, `updateQueue`, `timer_triggered` | entered by calls and by SIGALRM, also by SIGALRM on top of a call; communicates its reason through one global, `fc` | each thread in exactly one queue, the running one at the front of its level, levels and priorities agree, no starvation of the lowest level |
| Threads (37-233) | thread blocks, `exit_list`, `join_queue`, `threadCount` | `my_pthread_create/yield/exit/join` | an exit wakes joiners while the queue it walks shrinks; a join that finds its target alive and sleeps later | join returns after the exit and with its value, joiners are woken, ids are unique |
| Mutexes (235-330) | `my_pthread_mutex_t`, `waiting_queue`, `mutex_count` | `init/lock/unlock/destroy` | test and set are separate; release and wake-up are separate; destroy and re-initialisation with threads inside lock | mutual exclusion, no lost wake-up, nothing destroyed in use |
| Context queues (546-581) | `front`, `back`, `next` pointers | `enqueuee`, `dequeuee`, `get_specific_count`, the splice in `updateQueue` | `back` goes stale when a queue empties; `enqueuee(NULL, Q)` dereferences NULL | behaves as a FIFO sequence |
| Heap (601-808) | `head`, `middle`, block headers | `mymalloc`, `myfree`, `free_mem_count` | small requests are searched from the front, large ones from the middle to both sides; cuts from both ends; coalescing with both neighbours while `middle` must stay in the list | the blocks tile the region, none is owned twice or lost, a request is refused only if nothing fits, the walks end |
| Memory manager (`mymemorymanager.c` 1-454, 459-522) | `frame_table`, page metadata, `page_counter`, per thread `first_page` and `malloc_frame`, swap file, `mem_flag`, page protection | `myallocate`, `mydeallocate`, `swap_pages`, SIGSEGV handler `swap_handler` | every thread's pages live at the same addresses and are exchanged on a fault; `mem_flag` keeps the scheduler out until `swap_pages` clears it | each thread reads what it wrote, no thread reaches another's page, table and metadata agree, calls end |
| `shalloc` region (525-578) | `shalloc_head`, `shalloc_middle` | `shalloc` | shared by all threads, no `mem_flag` | as the heap |
| OS region (`myallocate` 60-77) | `os_mem_ptr` | `LIBRARYREQ` requests | a bump allocator without a bound or a free; the stack of `exit_context` gets 2080 bytes and a size of 40960 | stays within its part of the 8 MB for the promised threads; no stack lies in another thread's |
| Test client, build files, `src/mymalloc.c` (older, not linked), `src/Asst2` (copies) | - | - | - | not modelled |

How they interact: the library's calls set `fc` and call `scheduler()`; SIGALRM sets `fc = TIMER`
and calls it too.  `updateQueue()` reads `fc` and moves the front node of the current thread's
level.  The memory manager sets `mem_flag`, which makes `scheduler()` return at once.  The
thread library takes its own memory from the OS region, and each such request leaves `mem_flag`
set until the caller clears it.  `lock_mem()` protects the pages on every switch, so that the
next thread's first access runs `swap_handler`.

## 2. Modules

| Module | Models | Relation |
|---|---|---|
| `MyPthread`, `MCMyPthread` | scheduler, threads, mutexes, queues as sequences | the memory manager appears as calls that set `mem_flag` |
| `LinkedQueues` | `enqueuee`, `dequeuee`, `get_specific_count`, the splice, assignment by assignment | refines `Queues` |
| `Queues` | the sequences with the operations that `MyPthread` uses | abstract |
| `MyMalloc` | one heap: of a page, of a chunk, or of the shared pages | refines `Heap` |
| `Heap` | what a heap promises: places that do not overlap, refusal only if nothing fits | abstract |
| `MemoryManager` | pages, frames, swap file, protection, the handler; the heap of a page reduced to its free amount, the scheduler to a switch | refines `PrivateMemory` |
| `PrivateMemory` | what paging promises: a thread's pages change by its own hand only | abstract |
| `OsRegion` | the requests that the thread library and the manager make of the OS region | - |
| `MyPthread_proofs`, `MyPthread_safety_proofs`, `MyPthread_queue_proofs`, `MyPthread_orderly_proofs`, `LinkedQueues_proofs`, `MyMalloc_proofs`, `MemoryManager_proofs`, `OsRegion_proofs` | - | proofs, section 4 |

`MyPthread` models the scheduler, the threads, the mutexes and the queues as one state machine,
because every property of the one depends on the others.  `MCMyPthread` gives the sets of joins
for TLC.  `LinkedQueues` justifies its sequences.  The modules of the manager are separate from
it and meet it in three places: `mem_flag` (in both), the points where SIGALRM may come
(`Preemptible` in both, `Interruptible` in `MyMalloc` and `OsRegion`), and `free_page_mem`, which `MyMalloc` computes (`CountCovers`) and
`MemoryManager` relies on.

### `MyPthread`: state

The variables have the names of the globals.  A queue is a sequence of context nodes; nodes are
numbered in creation order (`Node`, 0 is main's) and `tcb` maps a node to its thread block.
`exit_list` keeps, per tid, the value of the exit node that a search from the front would find.
Four variables describe the machine rather than memory: `cpu` is the node whose stack the
processor runs on (not the same as `current`, which the code changes earlier); `call[n]` is the
call that thread n is in, with the program point, the operand and the loop counter; `sig` is the
position of the SIGALRM handler on top of it; `proc` says whether the process still lives.
`holds` and `usable` are the client's view: whose last lock returned, which mutexes are
initialised.

### `MyPthread`: steps

A call is one action up to the point where SIGALRM makes a difference, and one action from each
such point to the next:

| Code | Actions (points) |
|---|---|
| `my_pthread_create`, first | `CreateFirst` |
| `my_pthread_create`, later | `Create` - (createCount) - `CreateCount` - scheduler |
| `my_pthread_yield` | `Yield` - scheduler |
| `my_pthread_exit` | `Exit` - (exitWake) - `ExitWake`, once per loop iteration - `ExitRecord` - scheduler |
| `my_pthread_join` | `Join` - (joinWait) - `JoinWait` - scheduler - (joinDone) - `JoinReturn` |
| `my_pthread_mutex_lock` | `Lock` - (lockTest) - `LockTest` - (lockBlock) `LockBlock` - scheduler - back to lockTest; or (lockTake) `LockTake` |
| `my_pthread_mutex_unlock` | `Unlock` - (unlockWake) - `UnlockWake` |
| `my_pthread_mutex_init`, `_destroy` | `MutexInit`, `MutexDestroy` |
| `scheduler` | (update) - `SchedulerBusy` or one `Switch...` per value of `fc` - (dispatch) - `Dispatch` or `DispatchNone` |
| `timer_triggered` | `TimerFires`, then the steps of `scheduler` with `sig` as position |
| `myallocate`, `mydeallocate` | `MallocEnter` - (malloc) - `MallocSwaps`, `MallocMeta` any number of times - `MallocReturn` or `MallocGivesUp` |
| NULL dereference | `Fault` |
| return from main | `MainReturns` |

The maintenance at the end of `updateQueue` is part of every switch (`Maintain`).  What a thread
does after its context is resumed is `Resumed`; a preempted thread returns from the handler to
the point where it was.  A call whose checks fail returns without a change and has no action.

`Preemptible` is the set of points at which SIGALRM may arrive.  It is how a run opens or closes
a race window: the code closes none, so a property that fails with a point in the set is wrong in
the code, and one that holds without it says that this window is the only trouble.

`Calls` is what the client does, `MayJoin` and `MayExit` who joins and exits.  The client is well
behaved where the comments of the header expect it to be: it does not join or exit while it holds
a mutex, does not lock a mutex it holds, and uses initialised mutexes only.

### `LinkedQueues`

`front`, `back` and `next` are the pointers.  `op[t]` is the call of thread t as the list of the
assignments it has still to make, decided by the test at its beginning.

| Code | Actions |
|---|---|
| `enqueuee` | `First`, `Last`, `Own`, or `Link`, `Last`, `End` |
| `dequeuee` | `Move`, `Unhook` |
| `enqueuee(dequeuee(Q), R)` | `Move`, `Unhook`, `Put` and the assignments of `enqueuee` |
| splice in `updateQueue` | `Splice`, `Link` or `First`, `Last`, `Clear`, `ClearBack` |
| `get_specific_count` | `Count`, `Walk` |

The refinement reads a queue from its front up to NULL or to a node that is just being entered, so
each call takes effect at one assignment.  `MaxCount` bounds the count of a walk in a broken
list.

### `MyMalloc`

`block` maps the address of each header to its `mementry`; `head` and `middle` are the globals,
`saved` is where the region keeps them between calls (page metadata, or `shalloc_head` and
`shalloc_middle`).  `owned` is the client's view.

| Code | Actions |
|---|---|
| load of `head`, `middle`, first block of an empty region | `Enter` |
| `mymalloc`: the three loops | `Advance` and `TurnLeft`, one per iteration |
| a block that fits: given whole, cut from the front, cut from the back | `TakeWhole`, `SplitFront`, `SplitBack` (`Cut`) |
| not found | `GiveUp` |
| save of `head`, `middle`, `free_mem_count` | `Leave` |
| `mydeallocate` with `myfree` | `Free` (`Freed`, `Absorb`, `MiddleAfter`) |

Inside a page or chunk no other thread comes in (`Interruptible = FALSE`, which is
`NoSwitchInMalloc`), so that `myfree` is one action; `shalloc` has no `mem_flag` and what it gives is
never freed.  `FreeLimit` (4999) is out of reach in a page of 4096 bytes; in a chunk, a
pointer behind it is refused and its block stays allocated (`OutOfBounds`).

### `MemoryManager`

Every thread's memory begins at frame 0.  A page is named by its owner and its *home*, the frame
it stands in when its owner uses it; `meta` is its `page_meta`, `frame_table` says which page
is in a frame now.  Places up to `NumFrames` are what `swap_pages` takes for frames, the rest is the
swap file, `disk`, whose slots are written at multiples of `WriteStride` and read at multiples of
`ReadStride`: a slot that was partly overwritten reads as `Garbage`.

| Code | Actions |
|---|---|
| `myallocate`, small: enter; bring the last page home; load it and its chunk; `mymalloc` | `MallocEnter`, `Locate`, `Load`, `LoadChunk`, `Try` |
| search of the chain | `Scan`, `Load`, `LoadChunk`, `ScanTry` |
| a new page, or NULL | `Take`, `New`, `Try`; `TakeFails` |
| `myallocate`, large | `LargeEnter`, `LargeEvict` per page, `LargeBuild`; `LargeFails` |
| `mydeallocate` | `Free`, or `FreeSwaps` - `FreeSwapped` |
| `swap_pages` | `Evict` (`dest_frame = -1`), `Exchange` |
| fault, `swap_handler`, `mprotect` | `Touch` - `Handler` - `Unprotect` |
| `LIBRARYREQ` | `LibraryRequest` |
| `scheduler()` with `lock_mem()` | `Switch` |

`Careless` opens what a client can do that the manager does not survive (section 3).

### `OsRegion`

`stage[t]` counts the seven requests of the creation of thread t, in the order of the code;
`exit_sp` and `sp` are the two stacks.  `Create`, `NewPage` and `Exit` are the callers, `Taken` is
the branch of `myallocate`.  `Interruptible` allows SIGALRM between two requests of
`my_pthread_create`, where `mem_flag` is clear.

## 3. What the runs check

### Runs and bounds

Bounds of `MyPthread`: `MaxThreads` nodes (2 to 4, main included), `NumPriorities` levels (10 in
the code; with 2 every level is the highest or the lowest, 3 add a middle one), `MaintCycle`
dispatches between boosts (100 in the code; small here, so that boosts happen in short runs), `MaxMutexInits` calls of
init.  `maintenanceCount` needs no bound: each switch before a dispatch resets it
once it exceeds `MaintCycle`, but for those with `fc = FIRST`, of which there is one per creation.  Three threads are one more than any pairwise race needs and enough for a queue with
a head, a middle and a thread that acts; with four, two of them have been created by the later path of
`my_pthread_create`, without which ids could not clash; three levels distinguish "next level" from "lowest".

| Run | Instance | Shows |
|---|---|---|
| `threads` (240 000 states) | 4 threads, 3 levels, chain of joins 0 -> 1 -> 2; create, yield, exit, join, malloc; SIGALRM in user code, at joinDone and in malloc | `TypeOK`, `OneQueueEach`, `RunnableInItsLevel`, `RunningIsFront`, `NoFault`, `JoinSound`, `NoForgottenJoiner`, `ExitedStopsRunning`, `UniqueTids`, `NoSwitchInMalloc` |
| `mutexes` (420 000) | 3 threads, one mutex, destroy at any time, two threads that join each other, mallocs that swap and fail, NULL dereferences; SIGALRM in user code, in malloc, before the test of lock, between release and wake-up of unlock | `OneQueueEach`, `MutualExclusion`, `NoForgottenWaiter`, `DestroyedAtRest` |
| `progress` (4 400) | 3 threads, 3 levels, fair | `LowestEventuallyRuns`, `HighestEventuallyRuns`, `JoinEventuallyReturns` |
| `queues` (96 000) | 2 threads, 3 nodes, 2 queues; SIGALRM between `dequeuee` and `enqueuee` | `CountTrue`, `CallEnds`; implements `Queues` |
| `heap` (73 000) | one heap of 14 bytes, headers of 2, requests of 0, 1, 3, 4 with `SmallLimit` 2, frees in every order | `TypeOK`, `Tiles`, `Coalesced`, `MiddleInList`, `CountCovers`, `Owners`, `Answered`; implements `Heap` |
| `paging` (830 000) | 2 threads, 2 frames and the one behind them, one slot of the swap file, chunks of 2 pages, SIGALRM in user code and before the handler | `TypeOK`, `PagesPlaced`, `HomesKept`, `Isolation`, `ChainComplete`, `FreeCountTrue`; implements `PrivateMemory` |
| `chunks` (870 000) | 2 threads, 4 frames, chunks of 2 and 3 pages beside small requests, requests that are refused, fair | `ChainComplete`, `HeapInPlace`, `CallsReturn` |
| `os_region` (3 400) | 3 threads, 3 pages, the sizes of the x86-64 build, a region with not a byte to spare | `WithinRegion`, `ExitStackOwn` |

`NoForgottenWaiter` is checked with one mutex: with two it is the finding `unlock_wrong_thread`.
`mutexes` has one init because a second one, after a destroy in use, lets two
threads hold the mutex.  `threads` has a chain of joins because of two joiners of one thread only
one is woken (below).

In `queues` one queue is the highest level and the other the lowest; the waiting and join queues
behave as levels that are never spliced.  Three nodes make a head, a middle and an end, or leave one
queue empty while the other has two.

The heap of 14 bytes holds up to seven headers of 2; 1 is below `SmallLimit`, 3 and 4 above it; 0
leaves blocks without data, so that all the cases of a cut (a rest of nothing, of a header, of a byte
more) and of a free (no, either, both neighbours free, `middle` swallowed from either side) occur.
`paging` has two frames, so that a page is exchanged in memory and with the file; the last place
in memory is the one behind the last frame, as in the code.  More than one slot of the swap file is
the finding `swap_offset`.  In `chunks` the frames suffice for a chunk and a page behind it and for another
thread in the same frames: a chunk of three has a middle page that can be displaced, one of two leaves its
owner room for pages behind it, so that the search of the chain comes back to the chunk.  `os_region` takes `Demand` of three
threads and three pages as size of the region.  With the true numbers, the 33 threads and 5692 pages that
the top README allows need 1 775 240 of the 1 830 912 bytes between `os_mem_ptr` and the end of the block;
a 34th thread fits and a 35th does not.

### Where SIGALRM does harm

Found by adding one point at a time to the run of the component.  Scheduler, threads, mutexes:

| Point | Window | With SIGALRM there |
|---|---|---|
| user, malloc, joinDone | own code; inside the memory manager; before join returns | nothing fails |
| lockTest, unlockWake | before the test of the lock; between release and wake-up | nothing fails |
| createCount | after enqueuee of the node, before `threadCount++` | `UniqueTids` fails (four threads) |
| joinWait | after the search of `exit_list`, before the thread sleeps | `NoForgottenJoiner` fails |
| exitWake | inside the loop of exit, after `fc = PEXIT` | `ExitedStopsRunning` fails |
| lockBlock | after a failed test, before the thread sleeps | `NoForgottenWaiter` fails |
| lockTake | after a successful test, before `locked = 1` | `MutualExclusion` fails |
| update | after `fc` is set, before `scheduler` reads it | `JoinSound`, `ExitedStopsRunning` fail |
| dispatch | between `updateQueue` and the switch | `RunnableInItsLevel`, `NoFault` fail |

SIGALRM earlier in `my_pthread_create`, among its allocations, only delays the creation: what the
two windows before and after the enqueuee can do to the counter is the same.

Queues (`Preemptible` of `LinkedQueues`): between `dequeuee` and `enqueuee` nothing fails.  Between
the test and the last assignment of `enqueuee`, inside `dequeuee` and inside the splice
`ImplementsQueues` fails, in a walk of `get_specific_count` `CountTrue` fails, and before the last
assignment of the splice (`lowest->back = NULL`) a later `enqueuee` dereferences NULL.  The code
closes none of these windows; the signal handler works on the same queues.  `MyPthread` takes queue
operations to be atomic, so it speaks of executions in which SIGALRM does not strike inside them.

Memory manager, first property that TLC then finds violated (one point added to SIGALRM in user
code):

| Point | Window | With SIGALRM there |
|---|---|---|
| handler | between the fault and the handler's look at the table | nothing fails |
| locate, chunk | `myallocate` before the last page is brought home; in the loop over a chunk | nothing fails in these instances |
| load, try, scanTry | a page was brought home and is about to be used | `HeapInPlace` fails |
| scan, take | in the search of the chain; before a new page | `ChainComplete` fails |
| new | a frame was vacated, its page not yet described | `PagesPlaced` fails |
| evict | between two evictions for a chunk | a NULL entry of `frame_table` is dereferenced |
| free | `mydeallocate` has brought the page home | `ImplementsPrivateMemory` fails |
| unprotect | between the exchange in `swap_handler` and the `mprotect` | `Isolation` fails (`handler_race`) |

All of these but handler are open in the code once `swap_pages` has cleared `mem_flag`; locate
is open when a signal comes before `mem_flag` is set.

### What clients must not do

Each word in `Careless` lifts one restriction, and a property then fails.

| Word | Code | With it |
|---|---|---|
| `giveUp` | a request that is refused returns NULL with all frames open and, unless a page was swapped, `mem_flag` set | `Isolation` fails; the properties of the manager's own data hold (run `chunks`) |
| `lastFrame` | the bound on `malloc_frame` is tested before it is incremented: page 1596 of a thread is the first shared page, which `mprotect` does not cover | `ImplementsPrivateMemory` fails: two threads share it |
| `displacedChunk` | the loop over a chunk begins at the frame where its first page is *now*, also when the search of the chain comes to a chunk (line 247) | `HeapInPlace` fails |
| `secondChunk` | a large request sets `first_page` to the new chunk, and links the chunk behind whatever page is in the frame before it | `ChainComplete` fails |

In `MyPthread`, `"mallocFailure"` and `"mallocSwap"` among the calls are the scheduler's side of it.

### Findings

Each is a run that TLC finds violated, with the sentence of the header or the README that the code
contradicts in `PROJECT.json`.

- `unlock_wrong_thread`: unlock finds the first waiter of this mutex and then wakes the head of
  `waiting_queue`.
- `shalloc_race`: two threads that call `shalloc` for the first time both make a heap of the region.
- `handler_race`: the handler opens a frame for a thread that no longer has the page in it.
- `swap_offset`: pages are written to the swap file 4096 bytes apart and read back 4906 bytes apart.

Also met, and not runs of their own because a row of the tables above or a bound of a run tells it:

- The mutex is no atomic test-and-set (lockTake).
- A mutex may be destroyed in use: `ready_waiting` is cleared by whoever takes the mutex next, so
  that destroy, init and a second lock find it free (`mutexes` with two inits violates
  `MutualExclusion`).
- Two threads join a third: the loop of exit recomputes its bound while it shortens the queue, and
  the second joiner sleeps on (`NoForgottenJoiner`).
- SIGALRM overwrites `fc` between a call and `scheduler()` (update), or in the loop of exit
  (exitWake): join returns early, an exited thread runs again.
- `return NULL` in `myallocate` leaves `mem_flag` set: the next join returns at once (`JoinSound`).
- `swap_pages` clears `mem_flag` while `myallocate` works: with `"mallocSwap"` among the calls
  `NoSwitchInMalloc` fails.
- A `JOIN` left in `fc` by a join that `mem_flag` turned away is acted on by a later create.
- With SIGALRM between the requests of two creations the top of one thread's `exit_context` stack
  lies in the other's stack (`ExitStackOwn` with `Interruptible`).

### Liveness and fairness

`FairSpec` assumes weak fairness of `Library` and of `TimerFires`, and nothing of the client.
Library code runs to its end, since nothing but the switch takes the processor away, and
`setitimer` installs a repeating timer (`it_interval = it_value`), so that a thread that stays in
its own code is interrupted.  `progress` allows SIGALRM in user code only: a signal that
arrived each time before `JoinReturn` would satisfy these assumptions and starve the joiner,
which a timer of 25 ms does not do.  Only the highest and the lowest level are promised
progress: the maintenance lifts the lowest level only, and a thread in the middle starves under
two that yield to each other above it.  Deadlock is checked in every run; a process whose threads
are all blocked does not stop, it goes on to a NULL dereference (`DispatchNone`, `Fault`), which
ends in `Ended`.

`MyMalloc` and `MemoryManager` are fair to the steps of a call that was begun (`Step`, `Manager`),
on the same ground: it is straight-line code of the running thread.  In `MemoryManager` the weak
fairness is of the running thread's steps, so `CallsReturn` promises an answer or a switch.
`OsRegion` has no liveness; `Done` is the client that asks for nothing more.

## 4. What is proved

Each theorem holds for every value of the constants that its module's assumption
(`PthreadAssumption`, `QueuesAssumption`, `MallocAssumption`, `MemoryAssumption`, `RegionAssumption`) and the last column
allow: any number of threads, levels, context nodes, callers, frames and pages, any size of region, header and request.  Induction is over
the steps of `Spec`.

| Module | Theorem | Property | Further assumptions |
|---|---|---|---|
| `MyPthread_proofs` | `TypeCorrect` | `TypeOK` | none: SIGALRM anywhere |
| `MyPthread_safety_proofs` | `UniqueTidsHolds` | `UniqueTids` | createCount is not preemptible |
| | `NoSwitchInMallocHolds` | `NoSwitchInMalloc` | no page is swapped |
| | `MutualExclusionHolds` | `MutualExclusion` | lockTake and createCount are not preemptible, no mutex is destroyed under a lock call |
| `MyPthread_queue_proofs` | `OneQueueEachWithoutExit` | `OneQueueEach` | no thread exits; SIGALRM anywhere |
| `MyPthread_orderly_proofs` | `OneQueueEachHolds`, `RunnableInItsLevelHolds`, `RunningIsFrontHolds`, `NoFaultHolds`, `JoinSoundHolds`, `NoForgottenJoinerHolds`, `ExitedStopsRunningHolds`, `NoForgottenWaiterHolds`, `DestroyedAtRestHolds` | the property of that name | `Orderly`, below |
| `LinkedQueues_proofs` | `CountsTrue` | `CountTrue` | SIGALRM between `dequeuee` and `enqueuee` only (`Preemptible` within `{"put"}`) |
| | `QueuesImplemented` | `ImplementsQueues` | the same |
| `MyMalloc_proofs` | `TypesHold`, `TilesHolds`, `CoalescedHolds`, `MiddleInListHolds`, `CountCoversHolds`, `OwnedOnceHolds` | `TypeOK`, and the property of that name | `Interruptible = FALSE` |
| | `OwnersHolds` | `Owners` | also: what is freed lies within `FreeLimit` of the head |
| | `HeapImplemented` | `ImplementsHeap` | `Interruptible = FALSE` |
| `MemoryManager_proofs` | `PagesStayPlaced`, `HomesStayKept`, `ChainsStayComplete`, `HeapsInPlace` | `PagesPlaced`, `HomesKept`, `ChainComplete`, `HeapInPlace` | `Orderly` of this module, below |
| | `TypesHold`, `FreeCountsTrue` | `TypeOK`, `FreeCountTrue` | `Orderly`, `SwapSound` |
| | `MemoryIsolated` | `Isolation` | `Orderly`, `Careless = {}` |
| | `PrivateMemoryImplemented` | `ImplementsPrivateMemory` | `Orderly`, `Careless = {}`, `SwapSound` |
| `OsRegion_proofs` | `ExitStackOwnHolds` | `ExitStackOwn` | `Interruptible = FALSE`; what lies between the two stacks and `exit_context`'s need fit in a stack |
| | `WithinRegionHolds` | `WithinRegion` | `Interruptible = FALSE` |

### The thread library

- `TypeOK` is not inductive.  `TypeInv` adds that queues hold only nodes that exist
  (`QueueInv`), that operands fit the function a thread is in (`CallInv`), that an interrupted
  exit has lost its `PEXIT` (`HandlerInv`), and `CountInv`: `threadCount` plus the number of
  threads between enqueuee and count equals the number of nodes.  The last is what bounds
  `threadCount` when several creators are interrupted at once.
- `IdInv`: the tid of a thread is the number of its node, because a creator keeps the processor
  (`CreatorRuns`) and so there is at most one uncounted node.
- `MallocInv`: a thread in the memory manager has the processor and `mem_flag` is set, and a
  handler on top of it has not passed the test of `mem_flag`.
- `LockInv`: whoever holds a mutex is recorded in it (`HolderRecorded`), a thread about to take
  one has just seen it free and keeps the processor (`TakerRuns`), and lock calls are under way on
  initialised mutexes only (`LockersUse`).  With unique ids, unlock by the recorded tid is unlock
  by the holder.

`MyPthread_queue_proofs` treats the queues as sets: what a dequeue, an enqueue, a rotation, a sinking
and the boost do to the nodes in them.  That alone gives `OneQueueEach` while nobody exits, with
SIGALRM anywhere, since every removal is followed by an entry in the same step.

`MyPthread_orderly_proofs` is about a client that keeps to the rules of use, `Orderly`, each of which
a table of section 3 shows to be needed:

| Rule | Without it |
|---|---|
| SIGALRM at user, malloc, joinDone, lockTest and unlockWake only | the table of points above |
| the memory manager does not give up with `mem_flag` set | `JoinSound` fails |
| main does not exit | `NoFault` fails: when all threads have exited, `scheduler` finds no context |
| no two threads join the same thread | `NoForgottenJoiner` fails |
| no joins form a cycle | `JoinSound` and `NoFault` fail: all sleep, and `scheduler` finds no context |
| there is one mutex | `unlock_wrong_thread` |
| a mutex is destroyed under a lock call only if it is never initialised again | `DestroyedAtRest` and `MutualExclusion` fail |

The run `threads` keeps to these rules (and has no mutex), so the theorems say for every number of
threads and levels what it checks for four and three.  `mutexes` breaks two of them on purpose
(joins in a circle, mallocs that give up), and checks there what survives.  The invariant `InOrder` joins
`TypeInv` and `IdInv` with `OrderInv`.  Its parts: who has not exited stands in exactly one queue, and in
the level of its priority (`PlaceInv`); the running thread is current and first in its level
(`FrontInv`); each thread is at a point of the function it is in, and at one where SIGALRM may leave it
if it does not run (`ShapeInv`); `fc` names the call under way (`FlagInv`); a sleeper of `join_queue` waits for a
thread that has not exited (`JoinInv`), and what an exit has recorded or is about to (`ExitInv`) is what
its joiner finds; a mutex is locked by the thread it names, which is not blocked (`HoldInv`), and whoever
sleeps for it has its number (`MidInv`, `WaitInv`) and somebody to wake it (`WakerInv`).  `NoFault`
is the theorem for which all of this is needed at once: at a dispatch some level must hold a context.  If none
does, every thread that lives sleeps.  A sleeper for the mutex is behind a holder, which
by `HoldInv` is not blocked, or behind a thread awake; a sleeper for an exit is behind a thread that lives.
So the sleeper of least rank in the order of the joins waits for one that does not sleep.

`IdInv`, `MallocInv`, `LockInv` and `InOrder` were checked with TLC on small instances before they were
proved.

### The queues

`Good(q)` says that the pointers represent the sequences q.  From `front` they lead through the nodes of each
queue (`Leads`) to NULL or, while a thread is between the first and the last assignment of `enqueuee` or of the
splice, to the node it has linked; `back` is the last node of every queue that is not empty, and anything else of
one that is (`Lists`).  No node is in two places (`Apart`), the list of assignments that a call has left
agrees with what it found (`Phase`), and at most one thread is in the middle of its assignments (`Single`): this is
where the points of section 3 would break the proof.  There is one lemma per assignment: it keeps `Good(q)`, or,
for the last assignment of `enqueuee`, the one of `dequeuee` and the emptying of the lowest level, establishes
`Good` of the q that `Enter`, `Leave` or `Splice` of `Queues` leads to.  What remains is that `Listed` finds q: its
recursion has the list as a solution (`PathSteps`), it cannot have another by the smallest step at which the two
differ, and a list of different nodes is no longer than the walk (`ListedIs`).  The walk of `get_specific_count`
stands at the node behind as many as it has counted, and so at NULL only after all of them.  `Inv`, which is `Good` of what
is listed, was checked with TLC on the instance of `queues` first.

### The heap

Everything the heap does to its list is a `Cut`, an `Absorb` or a change of a free
mark, and each of the three keeps the tiling (`CutTiled`, `AbsorbTiled`, `MarkTiled`).  The
tiling alone is not enough.  `Whole` adds that every byte lies in a block (`Covered`) and that
free blocks are apart; `CutLow`, `CutHigh`, `TakeWholeBlock` and `FreedWhole` say that it is kept
and what becomes of the set of used blocks.  `FreedWhole` is the core of `myfree`: with either, both
or no neighbour free, exactly block f ceases to be used and `MiddleAfter` is still a block.  `Inv` then
relates the calls to the list: one call at a time (`Alone`), the globals and their saved values
(`Formed`, `SavedFits`), each pointer given out is behind a used block and nobody else's
(`GivenUsed`, `GivenOnce`, `UsedGiven`), and the search has passed no free block that fits, from
the front, to the right and to the left of the middle (`Sought`).  A refusal then finds `Sought` of
every block, and a free place that lay across two blocks would make two free blocks neighbours
(`NoRoom`): so `GiveUp` is `Refuse` of `Heap`, the three ways to answer are `Grant`, and `Free`
is `Release` or, for a pointer out of bounds, no step.

`free_mem_count` is a sum over a set, taken out of it one by one.  That the recursion has a solution
and that the sum covers its terms is shown by the smallest number of blocks for which it would not
(`TotalDefined`, `TotalCovers`); `CountCovers` follows, because every call ends by saving the sum.

### The memory manager

`Orderly` is again the set of rules that section 3 shows to be needed: SIGALRM comes in a thread's own
code or between a fault and the handler's look at the table, and no client does what `Careless` lists, but
for `giveUp`, which leaves all frames open and so breaks `Isolation`, and with it the refinement, only.  locate and chunk, where TLC found
nothing wrong in its instances, are not in `Orderly`: the proof is of a call that keeps the processor
from its first look at the table to its end.  `SwapSound` says that what is read from the swap file is what was
written: with the strides of the code it holds while only one slot of the file is in use (`swap_offset` is
what happens with two).  What concerns the place of pages and not their contents needs no `SwapSound`, so
those four theorems hold of the code's own strides.

No property of the table is inductive.  `Inv` relates four things:

- `Placement`: the pages that are given are those up to each thread's `malloc_frame` (`Placed`), each is where
  its `page_frame` says and the table agrees (`Tabled`), no two are in one place (`Apart`), the places below
  `page_counter` are the ones in use (`Full`, `Below`), and what is in a frame is at home there (`Homes`), if the
  frame is anybody's home.  Between the steps of an allocation some frames are `Vacant`: all of it is
  stated for such states too.  `Full` is what makes an eviction land on an unused slot, `Homes` what makes
  one exchange bring a page home.
- `Structure`: `next` leads from home 0 to the last page (`Chained`), and a page's heap is its own or that of
  a chunk which begins at home 0 (`Blocked`).  `WalkFinds` and `LastPageFound` deduce from it what the walk
  down the chain finds; the walk's recursion is shown to have a solution (`ChainSteps`), and that it reaches the
  k-th page by the smallest k for which it would not.
- `Calls`: what is at home at each point of a call (`AtLoad`, `AtChunk`, `AtTry`, `AtScan`, `AtTake`,
  `AtEvict`, `AtFree`, `AtHandler`), and that the threads which do not run are in no call (`Resting`).  This is
  where the proof needs that nobody comes in between.
- `Opened`, which is `Isolation` also inside the handler.

`Sound` adds the free counts: those in memory, in the file and in the metadata are in range (`Bounded`) and the
metadata tells that of the heap (`Counted`).  An exchange (`ExchangeDone`) and an eviction (`EvictDone`) are
shown to keep each part once, and to keep the contents of all pages if the swap file is sound.  For the
refinement each action is `Steady` (no page given or changed: `Switch` of `PrivateMemory`, or no step), or
it `Writes` one page of the running thread, or it `Gives` it pages; `PrivateStep` maps them to the
actions of `PrivateMemory`.  `Inv` and `Sound` were checked with TLC on the instances of `paging` and `chunks`
first.

### The OS region

`RegionTypes` proves `TypeOK` with SIGALRM anywhere.  For `ExitStackOwn`, when nothing
comes between two requests of a creation, `StackInv` says that the thread's own stack begins
behind that of its `exit_context` with only the rest of its creation between the two, whatever
other threads, pages and exits took before and after.  For `WithinRegion`, `SumInv` says that some
number n of creations is done and at most the next is under way, and that what was taken is n times
what a creation takes, the part of the next, the pages, the exits, and what is taken once.

### Only model-checked

The liveness properties (`LowestEventuallyRuns`, `HighestEventuallyRuns`, `JoinEventuallyReturns`, `CallEnds`,
`Answered`, `CallsReturn`), which are out of the prover's reach.  Every invariant, action property and
refinement that a run checks is also a theorem, under the assumptions of the table.  The run `mutexes` goes beyond
them (joins in a circle, mallocs that give up, a mutex destroyed under a lock call), and of these cases it alone speaks.

## 5. What is not modelled

- Stacks and contexts (`ucontext`), lengths of the timer, printing (`printAll`, the commented-out
  diagnostics), and system calls that fail (`setitimer`, `mprotect`, `memalign`, the swap file).
- A NULL dereference raises SIGSEGV, whose handler `swap_handler` exits for an address outside the
  block; `Fault` is the end of the process.  So is an access of a thread behind its own pages,
  which `swap_handler` answers with `exit`; `MemoryManager` has no such access.
- A thread whose `my_pthread_exit` returns goes on in its caller; for one that came through
  `exit_context` the caller is the end of the context instead.
- SIGALRM inside a queue operation: `MyPthread` takes these to be atomic, `LinkedQueues` shows
  what such a signal does to a queue.
- Frees of pointers that were not given out, which `myfree` refuses or not by what happens to be
  in memory, and requests within 32 bytes of 2^32, for which `x + 32` overflows in `myallocate`
  (`mymemorymanager.c` 79).
- `src/test.c` is a client, `src/mymalloc.c` an older allocator that is not linked; `src/Asst2` and
  the tarball are copies of the files modelled.

## 6. Plan

1. `MemoryManager_proofs`: SIGALRM at locate and chunk, where TLC found nothing wrong.
2. `MyPthread_orderly_proofs`: which of the queue properties survive joins in a circle and mallocs that
   give up, as the run `mutexes` says of `OneQueueEach` and `NoForgottenWaiter`.
3. Composition of `MemoryManager` with the preemption of `MyPthread`: the handler that runs
   `swap_handler` on its own stack.

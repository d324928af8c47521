------------------------------- MODULE MyMalloc -------------------------------
(***************************************************************************)
(* The heap of my_pthread.c: mymalloc, myfree and free_mem_count on one    *)
(* region, called the way myallocate, mydeallocate and shalloc call them:  *)
(* the globals head and middle are loaded from where the region keeps them *)
(* (a page's metadata, or shalloc_head and shalloc_middle), the heap works *)
(* on the globals, and they are saved again.                               *)
(*                                                                         *)
(* A block is known by the address of its header.  The search for a free   *)
(* block is one action per iteration, so that another thread may come in   *)
(* between where nothing (mem_flag) keeps it out.                          *)
(***************************************************************************)
EXTENDS Integers, FiniteSets, FiniteSetsExt

CONSTANTS
  Caller,         \* the threads that use the region
  Requests,       \* the sizes they ask for
  Region,         \* size: 4096 for a page, 4*4096 for shalloc
  HeaderSize,     \* sizeof(struct mementry): 32
  SmallLimit,     \* requests below it (100) are served from the front
  FreeLimit,      \* myfree refuses pointers further than this (4999) from head
  Frees,          \* the client frees: never what it got from shalloc
  Interruptible,  \* another thread may come in during a call: only in shalloc
  None

ASSUME MallocAssumption ==
  /\ HeaderSize \in Nat \ {0}
  /\ Region \in Nat /\ Region > HeaderSize
  /\ Requests \subseteq Nat
  /\ SmallLimit \in Nat /\ FreeLimit \in Nat
  /\ Frees \in BOOLEAN /\ Interruptible \in BOOLEAN
  /\ None \notin Nat

Null == -1
Addr == 0 .. Region - 1
Points == {"idle", "small", "right", "left", "done"}

VARIABLES
  block,    \* the headers in the region: [address -> mementry]
  head,     \* the globals
  middle,
  saved,    \* head and middle as the region keeps them, and free_page_mem
  call,     \* [Caller -> the call it is in]
  owned     \* [Caller -> the pointers it was given and has not freed]

vars == <<block, head, middle, saved, call, owned>>

\* struct mementry, without the code that marks every header.
Mementry == [size : 0 .. Region, free : BOOLEAN,
             next : Addr \cup {Null}, prev : Addr \cup {Null}]

Idle == [at |-> "idle", x |-> 0, walker |-> Null, got |-> Null]

-----------------------------------------------------------------------------
(* The block list.                                                         *)

\* The byte after a block.
End(b, a) == a + HeaderSize + b[a].size

\* The header that mymalloc writes at the start of a region without a head.
FirstBlock == [size |-> Region - HeaderSize, free |-> TRUE, next |-> Null, prev |-> Null]

Fits(b, a, x) == b[a].free /\ b[a].size >= x

\* Mutant: the header of the new block is forgotten.
SplitsNoHeader(b, a, x) == b[a].size > x

\* There is space for another header as well as the request.
Splits(b, a, x) == b[a].size > x + HeaderSize

\* Mutant: the block behind is not told of its new predecessor.
CutStalePrev(b, a, s, lowFree, highFree) ==
  LET t == a + HeaderSize + s
  IN [c \in DOMAIN b \cup {t} |->
        IF c = t THEN [size |-> b[a].size - HeaderSize - s, free |-> highFree,
                       next |-> b[a].next, prev |-> a]
        ELSE IF c = a THEN [b[a] EXCEPT !.size = s, !.free = lowFree, !.next = t]
        ELSE b[c]]

\* Block a is cut in two, the lower part of size s.
Cut(b, a, s, lowFree, highFree) ==
  LET t == a + HeaderSize + s
  IN [c \in DOMAIN b \cup {t} |->
        IF c = t THEN [size |-> b[a].size - HeaderSize - s, free |-> highFree,
                       next |-> b[a].next, prev |-> a]
        ELSE IF c = a THEN [b[a] EXCEPT !.size = s, !.free = lowFree, !.next = t]
        ELSE IF c = b[a].next THEN [b[c] EXCEPT !.prev = t]
        ELSE b[c]]

\* Mutant: the size of the swallowed header is forgotten.
AbsorbShort(b, l, r) ==
  [c \in DOMAIN b \ {r} |->
     IF c = l THEN [b[l] EXCEPT !.size = @ + b[r].size, !.next = b[r].next]
     ELSE IF c = b[r].next THEN [b[c] EXCEPT !.prev = l]
     ELSE b[c]]

\* Block l takes in its successor r.
Absorb(b, l, r) ==
  [c \in DOMAIN b \ {r} |->
     IF c = l THEN [b[l] EXCEPT !.size = @ + HeaderSize + b[r].size, !.next = b[r].next]
     ELSE IF c = b[r].next THEN [b[c] EXCEPT !.prev = l]
     ELSE b[c]]

\* Mutant: the test of the free mark is inverted.
UsedCount(b) == MapThenSumSet(LAMBDA a : b[a].size, {a \in DOMAIN b : ~b[a].free})

\* The bytes in free blocks.
free_mem_count(b) == MapThenSumSet(LAMBDA a : b[a].size, {a \in DOMAIN b : b[a].free})

-----------------------------------------------------------------------------
(* mymalloc.                                                               *)

Init ==
  /\ block = << >>
  /\ head = Null
  /\ middle = Null
  /\ saved = [head |-> Null, middle |-> Null, free_page_mem |-> 0]
  /\ call = [c \in Caller |-> Idle]
  /\ owned = [c \in Caller |-> {}]

\* Nobody else is in the heap, or nothing keeps another thread out.
Admitted == Interruptible \/ \A c \in Caller : call[c].at = "idle"

\* Where the search begins: at the head, or to the right of the middle.
Start(x, b, h, m) ==
  IF x < SmallLimit THEN [at |-> "small", x |-> x, walker |-> h, got |-> Null]
  ELSE [at |-> "right", x |-> x, walker |-> b[m].next, got |-> Null]

\* The call: head and middle are loaded; if there is no head the region becomes
\* one free block.
Enter(c) ==
  /\ call[c].at = "idle" /\ Admitted
  /\ IF saved.head = Null
     THEN /\ block' = [a \in DOMAIN block \cup {0} |->
                         IF a = 0 THEN FirstBlock ELSE block[a]]
          /\ head' = 0 /\ middle' = 0
     ELSE /\ head' = saved.head /\ middle' = saved.middle
          /\ UNCHANGED block
  /\ \E x \in Requests :
       call' = [call EXCEPT ![c] = Start(x, block', head', middle')]
  /\ UNCHANGED <<saved, owned>>

Searching(c) == call[c].at \in {"small", "right", "left"}
Walker(c) == call[c].walker
Found(c) == Searching(c) /\ Walker(c) # Null /\ Fits(block, Walker(c), call[c].x)
Divides(c) == Splits(block, Walker(c), call[c].x)
Answer(c, p) == call' = [call EXCEPT ![c].at = "done", ![c].got = p]

\* One iteration that finds nothing.
Advance(c) ==
  /\ Searching(c) /\ Walker(c) # Null /\ ~Found(c)
  /\ call' = [call EXCEPT ![c].walker =
                IF call[c].at = "left" THEN block[@].prev ELSE block[@].next]
  /\ UNCHANGED <<block, head, middle, saved, owned>>

\* Mutant: the search to the right begins again.
SearchAgain(c) ==
  /\ call[c].at = "right" /\ Walker(c) = Null
  /\ call' = [call EXCEPT ![c].walker = middle]
  /\ UNCHANGED <<block, head, middle, saved, owned>>

\* Nothing to the right of the middle: search to the left from it.
TurnLeft(c) ==
  /\ call[c].at = "right" /\ Walker(c) = Null
  /\ call' = [call EXCEPT ![c].at = "left", ![c].walker = middle]
  /\ UNCHANGED <<block, head, middle, saved, owned>>

\* Mutant: the block is not marked as used.
TakeUnmarked(c) ==
  /\ Found(c) /\ ~Divides(c)
  /\ Answer(c, Walker(c) + HeaderSize)
  /\ UNCHANGED <<block, head, middle, saved, owned>>

\* The block is given away as it is.
TakeWhole(c) ==
  /\ Found(c) /\ ~Divides(c)
  /\ block' = [block EXCEPT ![Walker(c)].free = FALSE]
  /\ Answer(c, Walker(c) + HeaderSize)
  /\ UNCHANGED <<head, middle, saved, owned>>

\* When a small request cuts the middle block, the rest is the new middle.
MiddleAfterCut(c) ==
  IF call[c].at = "small" /\ Walker(c) = middle
  THEN Walker(c) + HeaderSize + call[c].x ELSE middle

\* The low part of the block is given away.
SplitFront(c) ==
  /\ Found(c) /\ Divides(c) /\ call[c].at # "left"
  /\ block' = Cut(block, Walker(c), call[c].x, FALSE, TRUE)
  /\ middle' = MiddleAfterCut(c)
  /\ Answer(c, Walker(c) + HeaderSize)
  /\ UNCHANGED <<head, saved, owned>>

\* What remains of a block that is cut from the back.
Rest(c) == block[Walker(c)].size - call[c].x - HeaderSize

\* Left of the middle the high part is given away.
SplitBack(c) ==
  /\ Found(c) /\ Divides(c) /\ call[c].at = "left"
  /\ block' = Cut(block, Walker(c), Rest(c), TRUE, FALSE)
  /\ Answer(c, Walker(c) + HeaderSize + Rest(c) + HeaderSize)
  /\ UNCHANGED <<head, middle, saved, owned>>

\* Mutant: the search to the left is skipped.
LeftSkipped(c) ==
  /\ call[c].at \in {"small", "left", "right"} /\ Walker(c) = Null
  /\ Answer(c, Null)
  /\ UNCHANGED <<block, head, middle, saved, owned>>

\* The space could not be allocated.
GiveUp(c) ==
  /\ call[c].at \in {"small", "left"} /\ Walker(c) = Null
  /\ Answer(c, Null)
  /\ UNCHANGED <<block, head, middle, saved, owned>>

\* mymalloc has returned: head, middle and the free count are saved.
Leave(c) ==
  /\ call[c].at = "done"
  /\ saved' = [head |-> head, middle |-> middle, free_page_mem |-> free_mem_count(block)]
  /\ owned' = [owned EXCEPT ![c] = @ \cup ({call[c].got} \ {Null})]
  /\ call' = [call EXCEPT ![c] = Idle]
  /\ UNCHANGED <<block, head, middle>>

-----------------------------------------------------------------------------
(* myfree.                                                                 *)

\* The pointer is further from the head than myfree believes a heap to reach.
OutOfBounds(p) == p < saved.head + HeaderSize \/ p > saved.head + FreeLimit

Marked(f) == [block EXCEPT ![f].free = TRUE]

\* The block before, or behind, block a is free.
PrevFree(b, a) == b[a].prev # Null /\ b[b[a].prev].free
NextFree(b, a) == b[a].next # Null /\ b[b[a].next].free

\* Mutant: the middle stays where it is.
MiddleStays(f, m) == m

\* Where the middle is after block f was freed: what swallows the middle block
\* takes its place.
MiddleAfter(f, m) ==
  IF m = f \/ (m = block[f].next /\ NextFree(block, f))
  THEN IF PrevFree(block, f) THEN block[f].prev ELSE f
  ELSE m

\* Mutant: no coalescing with the predecessor.
FreedForward(f) ==
  LET b == Marked(f)
  IN IF NextFree(b, f) THEN Absorb(b, f, b[f].next) ELSE b

\* The list after block f was freed: coalesced with its predecessor, then with
\* its successor.
Freed(f) ==
  LET b == Marked(f)
      l == IF PrevFree(b, f) THEN b[f].prev ELSE f
      c == IF PrevFree(b, f) THEN Absorb(b, l, f) ELSE b
  IN IF NextFree(c, l) THEN Absorb(c, l, c[l].next) ELSE c

\* mydeallocate: myfree between the load and the save of head and middle.  (The
\* client frees what it was given; a pointer out of bounds is refused.)
Free(c) ==
  /\ Frees /\ call[c].at = "idle" /\ Admitted
  /\ \E p \in owned[c] :
       /\ owned' = [owned EXCEPT ![c] = @ \ {p}]
       /\ head' = saved.head
       /\ IF OutOfBounds(p)
          THEN /\ middle' = saved.middle
               /\ saved' = [saved EXCEPT !.free_page_mem = free_mem_count(block)]
               /\ UNCHANGED block
          ELSE /\ block' = Freed(p - HeaderSize)
               /\ middle' = MiddleAfter(p - HeaderSize, saved.middle)
               /\ saved' = [head |-> saved.head, middle |-> middle',
                            free_page_mem |-> free_mem_count(block')]
  /\ UNCHANGED call

-----------------------------------------------------------------------------

Step(c) ==
  \/ Advance(c) \/ TurnLeft(c) \/ TakeWhole(c) \/ SplitFront(c) \/ SplitBack(c)
  \/ GiveUp(c) \/ Leave(c)

Next == \E c \in Caller : Enter(c) \/ Free(c) \/ Step(c)

\* A call that was begun runs on.
Fairness == \A c \in Caller : WF_vars(Step(c))

Spec     == Init /\ [][Next]_vars
FairSpec == Spec /\ Fairness

-----------------------------------------------------------------------------
(* Properties.                                                             *)

TypeOK ==
  /\ DOMAIN block \subseteq Addr
  /\ \A a \in DOMAIN block : block[a] \in Mementry
  /\ head \in Addr \cup {Null}
  /\ middle \in Addr \cup {Null}
  /\ saved \in [head : Addr \cup {Null}, middle : Addr \cup {Null}, free_page_mem : Nat]
  /\ call \in [Caller -> [at : Points, x : Requests \cup {0}, walker : Addr \cup {Null},
                          got : Addr \cup {Null, Region}]]
  /\ owned \in [Caller -> SUBSET (0 .. Region)]

\* Every block ends where the next begins, the last one at the end of the region.
EndsMeet(b) ==
  \A a \in DOMAIN b : IF End(b, a) = Region THEN b[a].next = Null
                      ELSE b[a].next = End(b, a) /\ End(b, a) \in DOMAIN b

\* The links back undo the links forward.
LinkedBack(b) ==
  \A a \in DOMAIN b : IF a = 0 THEN b[a].prev = Null
                      ELSE b[a].prev \in DOMAIN b /\ b[b[a].prev].next = a

\* No block reaches into another.
NoOverlap(b) == \A a, c \in DOMAIN b : a < c => End(b, a) <= c

\* The blocks tile the region and the doubly linked list is theirs, whatever was
\* split from the front or the back and coalesced with either neighbour.
Tiled(b) == 0 \in DOMAIN b /\ EndsMeet(b) /\ LinkedBack(b) /\ NoOverlap(b)
Tiles == block # << >> => Tiled(block)

\* Two free blocks are never neighbours: myfree merges with both, so that free
\* space is not lost to fragmentation.
Apart(b) == \A a \in DOMAIN b : ~(b[a].free /\ NextFree(b, a))
Coalesced == Apart(block)

\* head and middle, as globals and as saved, are blocks of the list: what myfree
\* merges away is not left behind in middle.
MiddleInList ==
  block # << >> => /\ head = 0 /\ middle \in DOMAIN block
                   /\ saved.head # Null => saved.middle \in DOMAIN block

\* The free count kept for myallocate's search of the pages is true when it is
\* read: no page is passed over that has a block for the request.
CountCovers ==
  saved.head # Null /\ (\A c \in Caller : call[c].at = "idle") =>
    \A a \in DOMAIN block : block[a].free => block[a].size <= saved.free_page_mem

\* What the clients own is what the heap has given away: no memory leaks, none
\* has two owners, and none is free while it is owned.
Owners ==
  (\A c \in Caller : call[c].at = "idle") =>
    UNION {owned[c] : c \in Caller} = {a + HeaderSize : a \in {d \in DOMAIN block : ~block[d].free}}

\* No two calls get the same memory.
OwnedOnce == \A c, d \in Caller : c # d => owned[c] \cap owned[d] = {}

\* A call of mymalloc returns: the walk through the list ends.
Answered == \A c \in Caller : Searching(c) ~> ~Searching(c)

\* The heap keeps the promise of the module Heap: grants do not overlap, and a
\* request is refused only if no free place would hold it.
Promise == INSTANCE Heap WITH
  live    <- {<<a, End(block, a)>> : a \in {d \in DOMAIN block : ~block[d].free}},
  request <- [c \in Caller |-> IF Searching(c) THEN call[c].x ELSE None]
ImplementsHeap == Promise!Spec

===============================================================================

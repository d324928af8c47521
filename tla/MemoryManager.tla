----------------------------- MODULE MemoryManager -----------------------------
(***************************************************************************)
(* The memory manager of mymemorymanager.c: myallocate and mydeallocate    *)
(* for the pages of the threads, swap_pages, and swap_handler, which       *)
(* brings in the page that a thread touches.                               *)
(*                                                                         *)
(* Every thread's pages begin at frame 0: the page that a thread was given *)
(* as its k-th stands in frame k whenever the thread uses it (its home),   *)
(* and elsewhere in memory or in the swap file when another thread's k-th  *)
(* page does.  The metadata of a page is named by its owner and its home.  *)
(*                                                                         *)
(* A call is cut where swap_pages returns, because swap_pages clears       *)
(* mem_flag and so lets SIGALRM take the processor away; Preemptible says  *)
(* at which points it does.  The heap inside a page is the module MyMalloc *)
(* reduced to the amount that is free.                                     *)
(***************************************************************************)
EXTENDS Integers, FiniteSets, Functions

CONSTANTS
  Thread,
  NumFrames,    \* frames of memory: 1596; the shared pages begin behind them
  TotalPages,   \* pages that may be given out: 5692
  PageUnits,    \* what the heap of an empty page can hold
  Requests,     \* the sizes of requests that fit a page
  ChunkPages,   \* the numbers of pages of larger requests
  PageBytes,    \* 4096, in the swap file
  WriteStride,  \* distance of the slots of the swap file where pages are evicted
  ReadStride,   \* and where they are read back
  Datum,        \* what a thread stores
  Preemptible,  \* points at which SIGALRM may take the processor away
  Careless      \* what clients do that the manager does not survive

Points == {"user", "locate", "load", "chunk", "try", "scan", "scanTry", "take", "new",
           "evict", "free", "handler", "unprotect"}

ASSUME MemoryAssumption ==
  /\ Thread # {} /\ Datum # {}
  /\ NumFrames \in Nat \ {0} /\ TotalPages \in Nat
  /\ PageUnits \in Nat \ {0}
  /\ Requests \subseteq 1 .. PageUnits
  /\ ChunkPages \subseteq Nat \ {0, 1}
  /\ {PageBytes, WriteStride, ReadStride} \subseteq Nat \ {0}
  /\ Preemptible \subseteq Points
  /\ Careless \subseteq {"giveUp", "lastFrame", "displacedChunk", "secondChunk"}

Frame  == 0 .. NumFrames - 1     \* what mprotect covers
Place  == 0 .. NumFrames         \* what swap_pages takes for frames
Page   == Thread \X Place        \* a page's metadata: owner and home
NoPage == <<>>
Null   == -1                     \* head = NULL

Content == [data : Datum, free : 0 .. PageUnits]
Garbage == [data |-> CHOOSE d \in Datum : TRUE, free |-> 0]   \* read from a torn slot

VARIABLES
  mem,           \* [Place -> the content of the page there]
  disk,          \* the swap file: [offset -> the page written there]
  frame_table,   \* [Place -> the page that is there, or NoPage]
  meta,          \* [Page -> struct page_meta]
  page_counter,  \* pages given out
  first_page,    \* [Thread -> the first page of its chain]
  malloc_frame,  \* [Thread -> the home of its last page]
  current_page_meta, head,       \* the globals of the call under way
  mem_flag,
  open,          \* the frames that are not protected
  cur,           \* the running thread
  call           \* [Thread -> what it is doing]

pages   == <<mem, disk, frame_table, meta, page_counter>>
threads == <<first_page, malloc_frame>>
globals == <<current_page_meta, head, mem_flag, open>>
vars    == <<pages, threads, globals, cur, call>>

\* struct page_meta; page_frame is -1 until the page is given.  The heap of a page
\* is named by the frame where it begins.
Meta == [page_frame : Nat \cup {-1}, next : Page \cup {NoPage},
         front_meta : Page \cup {NoPage}, head : Place \cup {Null},
         free_page_mem : 0 .. PageUnits \cup {-1}]
NoMeta == [page_frame |-> -1, next |-> NoPage, front_meta |-> NoPage,
           head |-> Null, free_page_mem |-> -1]

\* A call: its point, the size or number of pages asked for, the page that the
\* search has reached and its number in the chain, the point that follows when the
\* page is loaded, and the index and pointer of the loop over a chunk.
Idle == [at |-> "user", x |-> 0, temp |-> NoPage, counter |-> 0, then |-> "try",
         i |-> 0, swap_ptr |-> NoPage]

home(p) == p[2]
Resident(t, f) == frame_table[f] # NoPage /\ frame_table[f][1] = t

-----------------------------------------------------------------------------

Init ==
  /\ mem = [f \in Place |-> Garbage]
  /\ disk = << >>
  /\ frame_table = [f \in Place |-> NoPage]
  /\ meta = [p \in Page |-> NoMeta]
  /\ page_counter = 0
  /\ first_page = [t \in Thread |-> NoPage]
  /\ malloc_frame = [t \in Thread |-> 0]
  /\ current_page_meta = NoPage
  /\ head = Null
  /\ mem_flag = FALSE
  /\ open = {}
  /\ cur = CHOOSE t \in Thread : TRUE
  /\ call = [t \in Thread |-> Idle]

At(p) == call[cur].at = p
Goto(p) == call' = [call EXCEPT ![cur].at = p]
Call == call[cur]

\* The n-th page of a thread's chain.
Walk(t, n) ==
  LET step[k \in Nat] ==
        IF k = 0 THEN first_page[t]
        ELSE LET p == step[k - 1] IN IF p = NoPage THEN NoPage ELSE meta[p].next
  IN step[n]

\* The end of the chain.
LastPage(t) ==
  Walk(t, CHOOSE n \in Place : Walk(t, n) # NoPage /\ Walk(t, n + 1) = NoPage)

-----------------------------------------------------------------------------
(* swap_pages.                                                             *)

\* The swap file after a page was written at an offset: it overwrites what
\* overlaps.
Written(o, c) ==
  [k \in DOMAIN disk \cup {o} |->
     IF k = o THEN c
     ELSE IF k < o + PageBytes /\ o < k + PageBytes THEN Garbage ELSE disk[k]]
Read(o) == IF o \in DOMAIN disk THEN disk[o] ELSE Garbage

\* Mutant: the slots are counted from one place too many.
SlotTooEarly(place) == place - NumFrames - 2

Slot(place) == place - NumFrames - 1

\* Mutant: the page that leaves for memory is not told where it is now.
EvictUntold(src) ==
  /\ IF page_counter <= NumFrames
     THEN /\ mem' = [mem EXCEPT ![page_counter] = mem[src]]
          /\ frame_table' = [frame_table EXCEPT ![page_counter] = frame_table[src], ![src] = NoPage]
          /\ UNCHANGED disk
     ELSE /\ disk' = Written(Slot(page_counter) * WriteStride, mem[src])
          /\ UNCHANGED <<mem, frame_table>>
  /\ page_counter' = page_counter + 1
  /\ UNCHANGED meta

\* dest_frame = -1: the page at src leaves for the next place that was never used,
\* in memory or in the swap file.
Evict(src) ==
  LET p == frame_table[src]
  IN /\ IF page_counter <= NumFrames
        THEN /\ mem' = [mem EXCEPT ![page_counter] = mem[src]]
             /\ UNCHANGED disk
             /\ frame_table' =
                  IF p = NoPage THEN frame_table
                  ELSE [frame_table EXCEPT ![page_counter] = p, ![src] = NoPage]
        ELSE /\ p # NoPage
             /\ disk' = Written(Slot(page_counter) * WriteStride, mem[src])
             /\ UNCHANGED <<mem, frame_table>>
     /\ meta' = IF p = NoPage THEN meta ELSE [meta EXCEPT ![p].page_frame = page_counter]
     /\ page_counter' = page_counter + 1

\* Mutant: the contents are copied in one direction only.
ExchangeLosing(src, dest) ==
  LET p == frame_table[src]
      q == IF dest <= NumFrames THEN frame_table[dest] ELSE Walk(cur, src)
  IN /\ p # NoPage /\ q # NoPage
     /\ mem' = [mem EXCEPT ![src] = IF dest <= NumFrames THEN mem[dest]
                                     ELSE Read(Slot(dest) * ReadStride)]
     /\ frame_table' = IF dest <= NumFrames THEN [frame_table EXCEPT ![src] = q, ![dest] = p]
                        ELSE [frame_table EXCEPT ![src] = q]
     /\ meta' = [meta EXCEPT ![p].page_frame = dest, ![q].page_frame = src]
     /\ UNCHANGED <<disk, page_counter>>

\* Otherwise the page at src changes places with the one at dest.
Exchange(src, dest) ==
  LET p == frame_table[src]
      q == IF dest <= NumFrames THEN frame_table[dest] ELSE Walk(cur, src)
      o == Slot(dest) * ReadStride
  IN /\ p # NoPage /\ q # NoPage
     /\ IF dest <= NumFrames
        THEN /\ mem' = [mem EXCEPT ![src] = mem[dest], ![dest] = mem[src]]
             /\ frame_table' = [frame_table EXCEPT ![src] = q, ![dest] = p]
             /\ UNCHANGED disk
        ELSE /\ mem' = [mem EXCEPT ![src] = Read(o)]
             /\ frame_table' = [frame_table EXCEPT ![src] = q]
             /\ disk' = Written(o, mem[src])
     /\ meta' = [meta EXCEPT ![p].page_frame = dest, ![q].page_frame = src]
     /\ UNCHANGED page_counter

\* swap_pages leaves mem_flag clear and, under its callers in malloc and free, all
\* frames open.
SwapDone == mem_flag' = FALSE /\ open' = Frame

-----------------------------------------------------------------------------
(* mymalloc and myfree on the heap of a page, which begins in frame h.     *)

\* The heap is left with so much free, and the metadata of page p is told.
Save(p, h, free) ==
  /\ mem' = [mem EXCEPT ![h].free = free]
  /\ meta' = [meta EXCEPT ![p].head = h, ![p].free_page_mem = free]

\* The call is over: all frames are protected and mem_flag is cleared.
Return ==
  /\ mem_flag' = FALSE
  /\ open' = {}
  /\ call' = [call EXCEPT ![cur] = Idle]

\* mymalloc(x) on a heap with so much free: a heap in use may be too fragmented.
Allocates(x, free) == x <= free
Refuses(x, free)   == x > free \/ free < PageUnits

-----------------------------------------------------------------------------
(* myallocate for a request that fits a page.                              *)

\* The client makes sure that there is a page left for it, that it does not come to
\* own the frame behind the last, ...
Serviceable ==
  /\ "giveUp" \notin Careless => page_counter < TotalPages /\ malloc_frame[cur] < NumFrames
  /\ "lastFrame" \notin Careless => malloc_frame[cur] < NumFrames - 1

\* ... and that a chunk whose heap is to be used, or may be found by the search of the
\* chain, begins in its place.
ChunkInPlace(p) ==
  "displacedChunk" \notin Careless =>
    \A q \in {meta[p].front_meta} \ {NoPage} : frame_table[home(q)] = q

MallocEnter ==
  /\ At("user")
  /\ Serviceable
  /\ first_page[cur] # NoPage => \A k \in 0 .. malloc_frame[cur] : ChunkInPlace(<<cur, k>>)
  /\ \E x \in Requests :
       call' = [call EXCEPT ![cur] =
          [Idle EXCEPT !.at = IF first_page[cur] = NoPage THEN "take" ELSE "locate", !.x = x]]
  /\ mem_flag' = TRUE
  /\ open' = Frame
  /\ UNCHANGED <<pages, threads, current_page_meta, head, cur>>

\* The thread's last page is brought to its home, if it is not there.
Locate ==
  LET f == malloc_frame[cur]
      q == LastPage(cur)
  IN /\ At("locate")
     /\ IF Resident(cur, f)
        THEN UNCHANGED <<pages, mem_flag, open>>
        ELSE Exchange(f, meta[q].page_frame) /\ SwapDone
     /\ call' = [call EXCEPT ![cur].at = "load", ![cur].temp =
                   IF Resident(cur, f) THEN frame_table[f] ELSE q]
     /\ UNCHANGED <<threads, current_page_meta, head, cur>>

\* The page becomes the current one; if it belongs to a chunk, the other pages of
\* the chunk follow.
Load ==
  LET p == IF Call.then = "try" THEN Call.temp ELSE current_page_meta
      front == meta[p].front_meta
  IN /\ At("load")
     /\ current_page_meta' = p
     /\ IF front = NoPage
        THEN Goto(Call.then) /\ head' = meta[p].head
        ELSE /\ call' = [call EXCEPT ![cur].at = "chunk", ![cur].swap_ptr = front,
                                     ![cur].i = meta[front].page_frame]
             /\ UNCHANGED head
     /\ UNCHANGED <<pages, threads, mem_flag, open, cur>>

\* Mutant: only the first page of the chunk is looked after.
FirstOfChunkOnly ==
  /\ At("chunk")
  /\ Goto(Call.then) /\ head' = meta[current_page_meta].head
  /\ UNCHANGED <<pages, threads, current_page_meta, mem_flag, open, cur>>

\* One page of the chunk before the last: it is brought to its home.
LoadChunk ==
  LET p == Call.swap_ptr
  IN /\ At("chunk")
     /\ IF Call.i < meta[current_page_meta].page_frame
        THEN /\ p # NoPage
             /\ IF frame_table[Call.i] = p
                THEN UNCHANGED <<pages, mem_flag, open>>
                ELSE Exchange(Call.i, meta[p].page_frame) /\ SwapDone
             /\ call' = [call EXCEPT ![cur].i = @ + 1, ![cur].swap_ptr = meta[p].next]
             /\ UNCHANGED head
        ELSE /\ Goto(Call.then) /\ head' = meta[current_page_meta].head
             /\ UNCHANGED <<pages, mem_flag, open>>
     /\ UNCHANGED <<threads, current_page_meta, cur>>

\* mymalloc in the thread's last page; if it fails, the chain is searched.
Try ==
  LET h    == IF head = Null THEN malloc_frame[cur] ELSE head
      free == IF head = Null THEN PageUnits ELSE mem[h].free
  IN /\ At("try")
     /\ head' = h
     /\ \/ Allocates(Call.x, free) /\ Save(current_page_meta, h, free - Call.x) /\ Return
        \/ /\ Refuses(Call.x, free) /\ Save(current_page_meta, h, free)
           /\ call' = [call EXCEPT ![cur].at = "scan", ![cur].counter = 0,
                         ![cur].temp = first_page[cur], ![cur].then = "scanTry"]
           /\ UNCHANGED <<mem_flag, open>>
     /\ UNCHANGED <<disk, frame_table, page_counter, threads, current_page_meta, cur>>

\* Mutant: the search stays where it is.
SamePage == call' = [call EXCEPT ![cur].at = "scan"]

\* The next page of the chain.
NextPage ==
  call' = [call EXCEPT ![cur].at = "scan", ![cur].counter = @ + 1,
                       ![cur].temp = meta[@].next]

\* A page that may have the space is brought to its home; the rest are passed over.
Scan ==
  LET p == Call.temp
  IN /\ At("scan")
     /\ IF p = NoPage
        THEN Goto("take") /\ UNCHANGED <<pages, current_page_meta, mem_flag, open>>
        ELSE IF meta[p].free_page_mem < Call.x
        THEN NextPage /\ UNCHANGED <<pages, current_page_meta, mem_flag, open>>
        ELSE /\ current_page_meta' = p
             /\ IF meta[p].page_frame = Call.counter
                THEN UNCHANGED <<pages, mem_flag, open>>
                ELSE Exchange(Call.counter, meta[p].page_frame) /\ SwapDone
             /\ Goto("load")
     /\ UNCHANGED <<threads, head, cur>>

ScanTry ==
  /\ At("scanTry") /\ head # Null
  /\ \/ Allocates(Call.x, mem[head].free) /\ Save(current_page_meta, head, mem[head].free - Call.x) /\ Return
     \/ Refuses(Call.x, mem[head].free) /\ NextPage /\ UNCHANGED <<mem, meta, mem_flag, open>>
  /\ UNCHANGED <<disk, frame_table, page_counter, threads, current_page_meta, head, cur>>

\* A thread may have one more page.
MayGrow == page_counter < TotalPages /\ malloc_frame[cur] < NumFrames

\* The frame of the thread's next page is vacated.
Take ==
  LET k == IF first_page[cur] = NoPage THEN 0 ELSE malloc_frame[cur] + 1
  IN /\ At("take") /\ MayGrow
     /\ malloc_frame' = [malloc_frame EXCEPT ![cur] = k]
     /\ Evict(k) /\ SwapDone
     /\ Goto("new")
     /\ UNCHANGED <<first_page, current_page_meta, head, cur>>

\* No page is left: NULL is returned, with mem_flag set and all frames open.
TakeFails ==
  /\ At("take") /\ ~MayGrow
  /\ call' = [call EXCEPT ![cur] = Idle]
  /\ UNCHANGED <<pages, threads, globals, cur>>

\* Mutant: the new page is not linked behind the last.
NewUnlinked ==
  LET k == malloc_frame[cur]
      p == <<cur, k>>
  IN /\ At("new")
     /\ first_page' = [first_page EXCEPT ![cur] = IF @ = NoPage THEN p ELSE @]
     /\ meta' = [meta EXCEPT ![p] = [NoMeta EXCEPT !.page_frame = k]]
     /\ frame_table' = [frame_table EXCEPT ![k] = p]
     /\ current_page_meta' = p
     /\ head' = Null
     /\ mem_flag' = TRUE /\ open' = Frame
     /\ call' = [call EXCEPT ![cur].at = "try", ![cur].then = "try"]
     /\ UNCHANGED <<mem, disk, page_counter, malloc_frame, cur>>

\* The metadata of the new page, linked behind the last.  (front_meta is not always
\* set; the OS region it is taken from is fresh memory, all zero.)
New ==
  LET k == malloc_frame[cur]
      p == <<cur, k>>
  IN /\ At("new")
     /\ IF first_page[cur] = NoPage
        THEN /\ first_page' = [first_page EXCEPT ![cur] = p]
             /\ meta' = [meta EXCEPT ![p] = [NoMeta EXCEPT !.page_frame = k]]
        ELSE /\ frame_table[k - 1] # NoPage
             /\ meta' = [meta EXCEPT ![p] = [NoMeta EXCEPT !.page_frame = k],
                                     ![frame_table[k - 1]].next = p]
             /\ UNCHANGED first_page
     /\ frame_table' = [frame_table EXCEPT ![k] = p]
     /\ current_page_meta' = p
     /\ head' = Null
     /\ mem_flag' = TRUE /\ open' = Frame
     /\ call' = [call EXCEPT ![cur].at = "try", ![cur].then = "try"]
     /\ UNCHANGED <<mem, disk, page_counter, malloc_frame, cur>>

-----------------------------------------------------------------------------
(* myallocate for a request of several pages, a chunk.                     *)

ChunkBase == IF first_page[cur] = NoPage THEN 0 ELSE malloc_frame[cur] + 1
ChunkFits(n) == ChunkBase + n <= NumFrames

\* The client asks for a chunk before anything else; page_counter + n <= TotalPages
\* is a bound, the code does not count.
LargeEnter ==
  /\ At("user")
  /\ "secondChunk" \notin Careless => first_page[cur] = NoPage
  /\ \E n \in ChunkPages :
       /\ ChunkFits(n) /\ page_counter + n <= TotalPages
       /\ call' = [call EXCEPT ![cur] = [Idle EXCEPT !.at = "evict", !.x = n, !.i = ChunkBase]]
  /\ malloc_frame' = [malloc_frame EXCEPT ![cur] = ChunkBase]
  /\ mem_flag' = TRUE
  /\ open' = Frame
  /\ UNCHANGED <<pages, first_page, current_page_meta, head, cur>>

\* A chunk of too many pages: NULL, with mem_flag set and all frames open.
LargeFails ==
  /\ At("user") /\ "giveUp" \in Careless
  /\ \E n \in ChunkPages : ~ChunkFits(n)
  /\ mem_flag' = TRUE
  /\ open' = Frame
  /\ UNCHANGED <<pages, threads, current_page_meta, head, cur, call>>

\* The frames of the chunk are vacated one by one.
LargeEvict ==
  /\ At("evict") /\ Call.i < malloc_frame[cur] + Call.x
  /\ Evict(Call.i) /\ SwapDone
  /\ call' = [call EXCEPT ![cur].i = @ + 1]
  /\ UNCHANGED <<threads, current_page_meta, head, cur>>

\* Mutant: the pages of a chunk are not linked.
ChunkUnlinked(base, last, k) ==
  [page_frame |-> k, next |-> NoPage, front_meta |-> <<cur, base>>,
   head |-> IF k = last THEN base ELSE Null, free_page_mem |-> IF k = last THEN PageUnits ELSE -1]

\* The metadata of the chunk's pages.  The heap begins in the first, and the last
\* keeps it; behind the request it has about one page of room.
ChunkMeta(base, last, k) ==
  [page_frame |-> k, next |-> IF k = last THEN NoPage ELSE <<cur, k + 1>>,
   front_meta |-> <<cur, base>>, head |-> IF k = last THEN base ELSE Null,
   free_page_mem |-> IF k = last THEN PageUnits ELSE -1]

LargeBuild ==
  LET base == malloc_frame[cur]
      last == base + Call.x - 1
      behind == IF base = 0 THEN NoPage ELSE frame_table[base - 1]
  IN /\ At("evict") /\ Call.i > last
     /\ meta' = [p \in Page |->
                   IF p[1] = cur /\ home(p) \in base .. last THEN ChunkMeta(base, last, home(p))
                   ELSE IF p = behind THEN [meta[p] EXCEPT !.next = <<cur, base>>]
                   ELSE meta[p]]
     /\ frame_table' = [f \in Place |-> IF f \in base .. last THEN <<cur, f>> ELSE frame_table[f]]
     /\ first_page' = [first_page EXCEPT ![cur] = <<cur, base>>]
     /\ malloc_frame' = [malloc_frame EXCEPT ![cur] = last]
     /\ current_page_meta' = <<cur, last>>
     /\ head' = base
     /\ mem' = [mem EXCEPT ![base].free = PageUnits]
     /\ Return
     /\ UNCHANGED <<disk, page_counter, cur>>

-----------------------------------------------------------------------------
(* mydeallocate.                                                           *)

\* Mutant: the metadata is not told what was freed.
MyFreeUntold(p, h, y) ==
  /\ mem' = IF h = Null THEN mem ELSE [mem EXCEPT ![h].free = @ + y]
  /\ UNCHANGED meta

\* myfree of y units, for which page p is answerable.  A page inside a chunk has no
\* head, and the pointer is refused.
MyFree(p, h, y) ==
  IF h = Null THEN meta' = [meta EXCEPT ![p].free_page_mem = 0] /\ UNCHANGED mem
  ELSE Save(p, h, mem[h].free + y)

\* What the client has to free in a page of its own.
Freeable(p) == IF meta[p].head = Null THEN {1} ELSE 1 .. PageUnits - meta[p].free_page_mem

\* Mutant: the page before the one of the pointer is taken for it.
SoughtBefore(i) ==
  IF i # 0 /\ Resident(cur, i - 1) THEN frame_table[i - 1] ELSE Walk(cur, i)

\* The page of a pointer that is not in its place.
Sought(i) ==
  IF i # 0 /\ Resident(cur, i - 1) THEN meta[frame_table[i - 1]].next ELSE Walk(cur, i)

\* A frame of the running thread's memory.
OwnFrame(f) == first_page[cur] # NoPage /\ f <= malloc_frame[cur]

\* The page is in its place: it is all done at once.
Free ==
  /\ At("user")
  /\ \E f \in Place :
       /\ OwnFrame(f) /\ Resident(cur, f) /\ ChunkInPlace(<<cur, f>>)
       /\ current_page_meta' = frame_table[f]
       /\ head' = meta[frame_table[f]].head
       /\ \E y \in Freeable(<<cur, f>>) : MyFree(frame_table[f], head', y)
  /\ Return
  /\ UNCHANGED <<disk, frame_table, page_counter, threads, cur>>

\* It is not: it is found and brought there first.
FreeSwaps ==
  /\ At("user")
  /\ \E f \in Place :
       /\ OwnFrame(f) /\ ~Resident(cur, f) /\ ChunkInPlace(<<cur, f>>)
       /\ \E y \in Freeable(<<cur, f>>) :
            call' = [call EXCEPT ![cur] = [Idle EXCEPT !.at = "free", !.x = y]]
       /\ Sought(f) # NoPage
       /\ current_page_meta' = Sought(f)
       /\ head' = meta[Sought(f)].head
       /\ Exchange(f, meta[Sought(f)].page_frame)
  /\ SwapDone
  /\ UNCHANGED <<threads, cur>>

FreeSwapped ==
  /\ At("free")
  /\ MyFree(current_page_meta, head, Call.x)
  /\ Return
  /\ UNCHANGED <<disk, frame_table, page_counter, threads, current_page_meta, head, cur>>

-----------------------------------------------------------------------------
(* The threads' own use of their memory, and swap_handler.                 *)

\* A store to a frame that is open (the frame behind the last is never protected).
Store ==
  /\ At("user")
  /\ \E f \in Place, d \in Datum :
       /\ OwnFrame(f) /\ f \in open \cup {NumFrames}
       /\ mem' = [mem EXCEPT ![f].data = d]
  /\ UNCHANGED <<disk, frame_table, meta, page_counter, threads, globals, cur, call>>

\* An access to a protected frame raises SIGSEGV.
Touch ==
  /\ At("user")
  /\ \E f \in Frame \ open :
       OwnFrame(f) /\ call' = [call EXCEPT ![cur] = [Idle EXCEPT !.at = "handler", !.i = f]]
  /\ UNCHANGED <<pages, threads, globals, cur>>

\* Mutant: the handler opens the frame without looking whose page is there.
Unchecked ==
  /\ At("handler")
  /\ Goto("unprotect")
  /\ UNCHANGED <<pages, threads, globals, cur>>

\* swap_handler: the thread's own page is brought to the frame.
Handler ==
  LET f == Call.i
  IN /\ At("handler")
     /\ IF Resident(cur, f)
        THEN UNCHANGED <<pages, mem_flag, open>>
        ELSE /\ Walk(cur, f) # NoPage
             /\ Exchange(f, meta[Walk(cur, f)].page_frame)
             /\ mem_flag' = FALSE /\ open' = {}
     /\ Goto("unprotect")
     /\ UNCHANGED <<threads, current_page_meta, head, cur>>

\* The frame is opened, and the access is tried again.
Unprotect ==
  /\ At("unprotect")
  /\ open' = open \cup {Call.i}
  /\ call' = [call EXCEPT ![cur] = Idle]
  /\ UNCHANGED <<pages, threads, current_page_meta, head, mem_flag, cur>>

\* A request of the thread library: all frames are protected, and the caller clears
\* mem_flag.
LibraryRequest ==
  /\ At("user")
  /\ open' = {} /\ mem_flag' = FALSE
  /\ UNCHANGED <<pages, threads, current_page_meta, head, cur, call>>

\* Mutant: scheduler() forgets lock_mem().
SwitchUnlocked ==
  /\ Call.at \in Preemptible /\ ~mem_flag
  /\ cur' \in Thread \ {cur}
  /\ UNCHANGED <<pages, threads, globals, call>>

\* scheduler() switches to another thread, unless mem_flag is set: lock_mem().
Switch ==
  /\ Call.at \in Preemptible /\ ~mem_flag
  /\ cur' \in Thread \ {cur}
  /\ open' = {}
  /\ UNCHANGED <<pages, threads, current_page_meta, head, mem_flag, call>>

-----------------------------------------------------------------------------

Manager ==
  \/ Locate \/ Load \/ LoadChunk \/ Try \/ Scan \/ ScanTry \/ Take \/ TakeFails \/ New
  \/ LargeEvict \/ LargeBuild \/ FreeSwapped \/ Handler \/ Unprotect

Client ==
  MallocEnter \/ LargeEnter \/ LargeFails \/ Free \/ FreeSwaps \/ Store \/ Touch \/ LibraryRequest

Next == Manager \/ Client \/ Switch

\* What the manager has begun it goes on with.
Fairness == WF_vars(Manager)

Spec     == Init /\ [][Next]_vars
FairSpec == Spec /\ Fairness

-----------------------------------------------------------------------------
(* Properties.                                                             *)

TypeOK ==
  /\ mem \in [Place -> Content]
  /\ \A o \in DOMAIN disk : o \in Nat /\ disk[o] \in Content
  /\ frame_table \in [Place -> Page \cup {NoPage}]
  /\ meta \in [Page -> Meta]
  /\ page_counter \in 0 .. TotalPages
  /\ first_page \in [Thread -> Page \cup {NoPage}]
  /\ malloc_frame \in [Thread -> Place]
  /\ current_page_meta \in Page \cup {NoPage} /\ head \in Place \cup {Null}
  /\ mem_flag \in BOOLEAN /\ open \subseteq Frame
  /\ cur \in Thread
  /\ \A t \in Thread : call[t].at \in Points /\ call[t].temp \in Page \cup {NoPage}

\* No page is just being given out.
Settled == \A t \in Thread : call[t].at \notin {"new", "evict"}

Given(p) == meta[p].page_frame # -1

\* frame_table and the metadata agree where every page is, no two pages are in one
\* place, and the counter tells the places in use: no eviction and no exchange
\* loses or doubles a page, or leaves a frame unused behind it.
PagesPlaced ==
  /\ \A p \in Page : Given(p) /\ meta[p].page_frame <= NumFrames
                     /\ (Settled \/ frame_table[meta[p].page_frame] # NoPage)
                       => frame_table[meta[p].page_frame] = p
  /\ \A p, q \in Page : p # q /\ Given(p) => meta[p].page_frame # meta[q].page_frame
  /\ Settled => {meta[p].page_frame : p \in {q \in Page : Given(q)}} = 0 .. page_counter - 1

\* A frame that is home to any page holds a page whose home it is: then the owner's
\* id is enough to know that it is the right page, which is all that myallocate,
\* mydeallocate and swap_handler look at.
HomesKept ==
  Settled => \A t \in Thread : first_page[t] # NoPage =>
               \A f \in 0 .. malloc_frame[t] : home(frame_table[f]) = f

\* While a thread runs its own code, the frames it can access without a fault hold
\* its own pages ("no thread can access memory pages that it was not directly
\* allocated").
Isolation == At("user") => \A f \in open : frame_table[f] = <<cur, f>>

\* The chain of a thread leads through all of its pages, in the order of their
\* homes.
ChainComplete ==
  \A t \in Thread : first_page[t] # NoPage /\ Settled =>
    /\ \A k \in 0 .. malloc_frame[t] : Walk(t, k) = <<t, k>>
    /\ meta[<<t, malloc_frame[t]>>].next = NoPage

\* The content of a page, wherever it is now.
ContentOf(p) ==
  LET f == meta[p].page_frame
  IN IF f <= NumFrames THEN mem[f] ELSE Read(Slot(f) * ReadStride)

\* The free count that the metadata keeps is that of the heap in the page, though the
\* page was swapped out meanwhile.
FreeCountTrue ==
  \A p \in Page : Given(p) /\ call[p[1]].at = "user" /\ meta[p].head = home(p)
    => meta[p].free_page_mem = ContentOf(p).free

\* When mymalloc works on a heap, the page that answers for it is at its home, and
\* so are the pages of its chunk, which the heap runs through.
HeapInPlace ==
  call[cur].at \in {"try", "scanTry"} =>
    LET p == current_page_meta
        front == IF meta[p].front_meta = NoPage THEN p ELSE meta[p].front_meta
    IN \A k \in home(front) .. home(p) : frame_table[k] = <<cur, k>>

\* Nobody but a thread itself changes what its pages contain.
PrivateView == INSTANCE PrivateMemory WITH
  Home <- Place, Absent <- NoPage, running <- cur,
  page <- [t \in Thread |-> [h \in Place |->
             IF Given(<<t, h>>) THEN ContentOf(<<t, h>>) ELSE NoPage]]
ImplementsPrivateMemory == PrivateView!Spec

\* A request is answered, and an access that faults is made good, unless another
\* thread gets the processor meanwhile: the loops over chains and chunks end.
CallsReturn ==
  \A t \in Thread : call[t].at # "user" ~> (call[t].at = "user" \/ cur # t)

=============================================================================

----------------------- MODULE MemoryManager_proofs -----------------------
(***************************************************************************)
(* Proofs about the memory manager, for every number of threads, frames    *)
(* and pages, all requests and all strides of the swap file.               *)
(*                                                                         *)
(* The parts of the invariant are Placement, where the pages are;          *)
(* Structure, what their metadata says of a thread's chain and of its      *)
(* heaps; Calls, what a call may rely on at each of its points, most of    *)
(* all which pages are at their homes; Opened, which frames are open;      *)
(* and, where the swap file is sound, Sound, the free counts.  What an     *)
(* exchange and what an eviction do to them is shown once (Exchange...,    *)
(* Evict...), then each action has its lemma (...Keeps), which also says   *)
(* what the action does to the pages of the threads: nothing (Steady), it  *)
(* changes one (Writes) or gives new ones (Gives).  NextKeeps collects     *)
(* them.  The theorems are at the end.                                     *)
(***************************************************************************)
EXTENDS MemoryManager, TLAPS, WellFoundedInduction

-----------------------------------------------------------------------------
(* The inductive invariant.                                                *)

\* The thread has a page.
Has(t) == first_page[t] # NoPage

\* The pages of a thread: those up to malloc_frame, but the one that Take has counted
\* is given by New.
Owned(t, k) ==
  /\ Has(t) /\ k \in Place
  /\ k < malloc_frame[t] \/ (k = malloc_frame[t] /\ call[t].at # "new")

\* The frames that were vacated for pages that are not yet given.
Vacant(f) == (At("new") /\ f = malloc_frame[cur]) \/ (At("evict") /\ f < Call.i)

\* The frame or the slot of the swap file where a page is.
Where(p) == meta[p].page_frame

\* What a call is made of.
CallType ==
  [at : Points, x : Nat, temp : Page \cup {NoPage}, counter : Nat, then : {"try", "scanTry"},
   i : Nat, swap_ptr : Page \cup {NoPage}]

\* The types, but for the free counts: what is read from a torn slot of the swap file
\* may be anything, and myfree adds to it.
AnyContent == [data : Datum, free : Int]
AnyMeta == [page_frame : Nat \cup {-1}, next : Page \cup {NoPage},
            front_meta : Page \cup {NoPage}, head : Place \cup {Null}, free_page_mem : Int]

Shaped ==
  /\ mem \in [Place -> AnyContent]
  /\ \A o \in DOMAIN disk : o \in Nat /\ disk[o] \in AnyContent
  /\ frame_table \in [Place -> Page \cup {NoPage}]
  /\ meta \in [Page -> AnyMeta]
  /\ page_counter \in 0 .. TotalPages
  /\ first_page \in [Thread -> Page \cup {NoPage}]
  /\ malloc_frame \in [Thread -> Place]
  /\ current_page_meta \in Page \cup {NoPage} /\ head \in Place \cup {Null}
  /\ mem_flag \in BOOLEAN /\ open \subseteq Frame
  /\ cur \in Thread

Typed == Shaped /\ call \in [Thread -> CallType]

\* The pages that the threads own are those that are given, and each is where the
\* counter has been and where frame_table says so.
Placed ==
  /\ \A t \in Thread, k \in Place : Given(<<t, k>>) <=> Owned(t, k)
  /\ \A p \in Page : Given(p) =>
       /\ Where(p) \in 0 .. page_counter - 1 /\ ~Vacant(Where(p))
       /\ Where(p) <= NumFrames => frame_table[Where(p)] = p

\* Each page that frame_table names is where it says.
Tabled ==
  \A f \in Place : frame_table[f] # NoPage /\ ~Vacant(f) =>
     Given(frame_table[f]) /\ Where(frame_table[f]) = f

\* No two pages are in one place, and below the counter every place has its page.
Apart == \A p, q \in Page : p # q /\ Given(p) => Where(p) # Where(q)

Full == \A n \in 0 .. page_counter - 1 : ~Vacant(n) => \E p \in Page : Given(p) /\ Where(p) = n

\* The homes of pages that are given lie below the counter, like what was vacated.
Below ==
  /\ \A t \in Thread, k \in Place : Owned(t, k) => k < page_counter
  /\ \A f \in Place : Vacant(f) => f < page_counter

\* A frame that is the home of some page holds a page whose home it is: the pages of
\* one home take turns in one frame.
Homes ==
  \A t \in Thread, k \in Place : Owned(t, k) /\ ~Vacant(k) =>
     frame_table[k] # NoPage /\ home(frame_table[k]) = k

\* The chain of a thread leads from home 0 upwards, and ends.
Chained ==
  /\ \A t \in Thread :
       /\ Has(t) => first_page[t] = <<t, 0>>
       /\ ~Has(t) => malloc_frame[t] = 0
       /\ malloc_frame[t] < NumFrames
       /\ Has(t) /\ call[t].at = "new" => malloc_frame[t] > 0
  /\ \A t \in Thread, k \in Place : Owned(t, k) =>
       /\ Owned(t, k + 1) => meta[<<t, k>>].next = <<t, k + 1>>
       /\ ~Owned(t, k + 1) => meta[<<t, k>>].next = NoPage

\* A heap begins in the page itself, or in the first page, which is the front of a
\* chunk; then all pages before the last of the chunk belong to it.
Blocked ==
  \A t \in Thread, k \in Place : Owned(t, k) =>
    LET m == meta[<<t, k>>]
    IN /\ m.front_meta \in {NoPage, <<t, 0>>}
       /\ m.front_meta = NoPage => m.head \in {Null, k}
       /\ m.front_meta # NoPage /\ m.head # Null => m.head = 0 /\ k > 0
       /\ m.front_meta # NoPage /\ m.head = Null => Owned(t, k + 1)
       /\ m.front_meta # NoPage =>
            \A j \in Place : j < k => meta[<<t, j>>].front_meta # NoPage /\ meta[<<t, j>>].head = Null

\* The free count in the metadata is that of the heap.
Counted ==
  \A t \in Thread, k \in Place : Owned(t, k) /\ meta[<<t, k>>].head # Null =>
    meta[<<t, k>>].free_page_mem = ContentOf(<<t, meta[<<t, k>>].head>>).free

\* The free counts are in range, in the pages, in the swap file and in the metadata.
Fits(c) == c.free \in 0 .. PageUnits

Bounded ==
  /\ \A f \in Place : Fits(mem[f])
  /\ \A o \in DOMAIN disk : Fits(disk[o])
  /\ \A p \in Page : meta[p].free_page_mem \in 0 .. PageUnits \cup {-1}

Sound == Bounded /\ Counted

\* The running thread's k-th page is at its home.
Here(k) == frame_table[k] = <<cur, k>>

\* If the first page of the running thread belongs to a chunk it is at home.
FrontHere == meta[<<cur, 0>>].front_meta # NoPage => Here(0)

\* The k-th page of the running thread is at home and so is the chunk it ends.
HeapHere(k) ==
  /\ Owned(cur, k) /\ Here(k)
  /\ meta[<<cur, k>>].front_meta # NoPage => \A j \in Place : j < k => Here(j)

\* myallocate has tested that there is room for one more page.
Room ==
  /\ malloc_frame[cur] < NumFrames - 1
  /\ "giveUp" \notin Careless => page_counter < TotalPages

\* The last page of the running thread is at home.
LastHere == Here(malloc_frame[cur])

\* A call for less than a page asks for no more than a page can hold.
MallocPoints == {"locate", "load", "chunk", "try", "scan", "scanTry", "take", "new"}
Asked == Call.at \in MallocPoints => Call.x <= PageUnits

\* What a call relies on at each point.
AtLocate == At("locate") => Has(cur) /\ Room /\ FrontHere /\ Call.then = "try"

AtLoad ==
  At("load") =>
    /\ Has(cur) /\ Room /\ FrontHere /\ LastHere
    /\ Call.then = "try" => Call.temp = <<cur, malloc_frame[cur]>>
    /\ Call.then = "scanTry" =>
         /\ Owned(cur, Call.counter) /\ Here(Call.counter)
         /\ current_page_meta = <<cur, Call.counter>> /\ Call.temp = <<cur, Call.counter>>

AtChunk ==
  At("chunk") =>
    /\ Has(cur) /\ Room /\ FrontHere /\ LastHere
    /\ \E c \in Place :
        /\ current_page_meta = <<cur, c>> /\ Owned(cur, c) /\ Here(c)
        /\ meta[<<cur, c>>].front_meta # NoPage
        /\ Call.i <= c /\ Call.swap_ptr = <<cur, Call.i>>
        /\ \A j \in Place : j < Call.i => Here(j)
        /\ Call.then = "try" => c = malloc_frame[cur]
        /\ Call.then = "scanTry" => c = Call.counter /\ Call.temp = <<cur, c>>

AtTry ==
  At("try") =>
    /\ current_page_meta = <<cur, malloc_frame[cur]>> /\ HeapHere(malloc_frame[cur])
    /\ head = meta[current_page_meta].head /\ Call.then = "try"
    /\ head # Null => Room /\ FrontHere

AtScan ==
  /\ At("scan") \/ At("scanTry") => Has(cur) /\ Room /\ FrontHere /\ LastHere /\ Call.then = "scanTry"
  /\ At("scan") => Call.temp = NoPage \/ (Call.temp = <<cur, Call.counter>> /\ Owned(cur, Call.counter))
  /\ At("scanTry") =>
       /\ Call.temp = <<cur, Call.counter>> /\ current_page_meta = Call.temp
       /\ HeapHere(Call.counter) /\ head = meta[current_page_meta].head

AtTake ==
  /\ At("take") => Room /\ (Has(cur) => LastHere)
  /\ At("new") /\ Has(cur) => Here(malloc_frame[cur] - 1)

AtEvict ==
  At("evict") =>
    /\ ~Has(cur) /\ Call.x > 1 /\ Call.x <= NumFrames /\ Call.i <= Call.x
    /\ page_counter + Call.x - Call.i <= TotalPages

AtFree ==
  At("free") =>
    \E c \in Place :
      /\ current_page_meta = <<cur, c>> /\ Owned(cur, c) /\ Here(c)
      /\ meta[<<cur, c>>].front_meta # NoPage => Here(0)
      /\ head = meta[<<cur, c>>].head
      /\ head # Null => Call.x + meta[<<cur, c>>].free_page_mem <= PageUnits

AtHandler ==
  /\ \A t \in Thread : call[t].at = "handler" => call[t].i \in Frame /\ Owned(t, call[t].i)
  /\ At("unprotect") => Call.i \in Frame /\ Owned(cur, Call.i) /\ Here(Call.i)

\* A thread that does not run is in its own code, or about to enter swap_handler.
Resting == \A t \in Thread \ {cur} : call[t].at \in {"user", "handler"}

Calls ==
  /\ AtLocate /\ AtLoad /\ AtChunk /\ AtTry /\ AtScan /\ AtTake /\ AtEvict /\ AtFree /\ AtHandler
  /\ Asked /\ Resting

\* While the running thread is in its own code or in the handler, the frames that are
\* open hold its own pages, unless a client gave up a call.
Opened ==
  Careless = {} /\ (At("user") \/ At("handler") \/ At("unprotect")) => \A f \in open : Here(f)

Placement == Placed /\ Tabled /\ Apart /\ Full /\ Below /\ Homes
Structure == Chained /\ Blocked

Inv == Typed /\ Placement /\ Structure /\ Calls /\ Opened

\* What is read back from the swap file is what was written: the file has one slot, or
\* pages are written and read at the same offsets, which are a page or more apart.
SwapSound == TotalPages <= NumFrames + 2 \/ (WriteStride = ReadStride /\ PageBytes <= ReadStride)

-----------------------------------------------------------------------------
(* The constants, pages and places.                                        *)

\* Places are numbers, NULL is none of them, and NoPage is not the metadata of a page.
LEMMA Numbers ==
  /\ NumFrames \in Nat /\ NumFrames > 0 /\ TotalPages \in Nat /\ PageUnits \in Nat /\ PageUnits > 0
  /\ Place \subseteq Nat /\ Frame \subseteq Place /\ Null \notin Place /\ NumFrames \in Place
  /\ \A n \in Nat : n \in Place <=> n <= NumFrames
  /\ \A n \in Nat : n \in Frame <=> n < NumFrames
BY MemoryAssumption, SMT DEF Place, Frame, Null

\* A page is the pair of its owner and its home.
LEMMA PagePair ==
  /\ NoPage \notin Page
  /\ \A t \in Thread, k \in Place : <<t, k>> \in Page /\ home(<<t, k>>) = k /\ <<t, k>>[1] = t
  /\ \A p \in Page : p[1] \in Thread /\ home(p) \in Place /\ p = <<p[1], home(p)>>
BY DEF NoPage, Page, home

\* A page read from where none was written is one with no room.
LEMMA GarbageType == Garbage \in AnyContent
<1>1. \E d \in Datum : TRUE
    BY MemoryAssumption
<1>2. (CHOOSE d \in Datum : TRUE) \in Datum
    BY <1>1
<1>3. 0 \in 0 .. PageUnits
    BY Numbers, SMT
<1> QED BY <1>2, <1>3 DEF Garbage, AnyContent

\* Whether a page is given, and where it is, depends on its page_frame only; a page
\* that is given has one that is a number.
LEMMA GivenWhere ==
  ASSUME Typed, NEW p \in Page
  PROVE  /\ meta[p] \in AnyMeta /\ Where(p) \in Nat \cup {-1}
         /\ Given(p) <=> Where(p) \in Nat
<1>1. meta[p] \in AnyMeta
    BY DEF Typed, Shaped
<1>2. Where(p) \in Nat \cup {-1}
    BY <1>1 DEF Where, AnyMeta
<1> QED BY <1>1, <1>2, SMT DEF Given, Where

-----------------------------------------------------------------------------
(* What the parts of the invariant depend on.                              *)

SameOwners ==
  /\ first_page' = first_page /\ malloc_frame' = malloc_frame
  /\ \A t \in Thread : call'[t].at = "new" <=> call[t].at = "new"

SameVacant == \A f \in Nat : Vacant(f)' <=> Vacant(f)

\* A thread has the same pages as long as its chain is not touched.
LEMMA OwnedKept ==
  ASSUME SameOwners
  PROVE  /\ \A t : Has(t)' <=> Has(t)
         /\ \A t \in Thread : \A k : Owned(t, k)' <=> Owned(t, k)
BY DEF SameOwners, Owned, Has

\* Where pages are depends on the frame table, page_counter, the page_frames, and which
\* pages are owned and which places vacant.
LEMMA PlacementKept ==
  ASSUME Typed, Placement, frame_table' = frame_table, page_counter' = page_counter,
         \A p \in Page : Where(p)' = Where(p),
         \A t \in Thread, k \in Place : Owned(t, k)' <=> Owned(t, k), SameVacant
  PROVE  Placement'
<1>1. \A p \in Page : Given(p)' <=> Given(p)
    BY DEF Given, Where
<1>2. \A f \in Place : f \in Nat
    BY Numbers
<1>3. Placed'
    <2>1. \A t \in Thread, k \in Place : <<t, k>> \in Page
        BY PagePair
    <2>2. \A t \in Thread, k \in Place : Given(<<t, k>>)' <=> Owned(t, k)'
        BY <1>1, <2>1 DEF Placement, Placed
    <2>3. ASSUME NEW p \in Page, Given(p)'
          PROVE  /\ Where(p)' \in 0 .. page_counter' - 1 /\ ~Vacant(Where(p))'
                 /\ Where(p)' <= NumFrames => frame_table'[Where(p)'] = p
        <3>1. Given(p) /\ Where(p)' = Where(p)
            BY <1>1, <2>3
        <3>2. /\ Where(p) \in 0 .. page_counter - 1 /\ ~Vacant(Where(p))
              /\ Where(p) <= NumFrames => frame_table[Where(p)] = p
            BY <3>1 DEF Placement, Placed
        <3>3. Where(p) \in Nat
            BY <3>1, GivenWhere
        <3>4. ~Vacant(Where(p))'
            BY <3>1, <3>2, <3>3 DEF SameVacant, Vacant, At, Call
        <3> QED BY <3>1, <3>2, <3>4
    <2> QED BY <2>2, <2>3 DEF Placed
<1>4. Tabled'
    <2>1. ASSUME NEW f \in Place, frame_table'[f] # NoPage, ~Vacant(f)'
          PROVE  Given(frame_table[f])' /\ Where(frame_table[f])' = f
        <3>1. frame_table[f] # NoPage /\ ~Vacant(f)
            BY <1>2, <2>1 DEF SameVacant
        <3>2. Given(frame_table[f]) /\ Where(frame_table[f]) = f
            BY <3>1 DEF Placement, Tabled
        <3>3. frame_table[f] \in Page
            BY <3>1 DEF Typed, Shaped
        <3> QED BY <1>1, <3>2, <3>3 DEF Given, Where
    <2> QED BY <2>1 DEF Tabled
<1>5. Apart'
    BY <1>1 DEF Placement, Apart
<1>6. Full'
    BY <1>1 DEF Placement, Full, SameVacant
<1>7. Below'
    BY <1>2 DEF Placement, Below, SameVacant
<1>8. Homes'
    BY <1>2 DEF Placement, Homes, SameVacant
<1> QED BY <1>3, <1>4, <1>5, <1>6, <1>7, <1>8 DEF Placement

\* The chains and the chunks depend on the rest of the metadata.
LEMMA StructureKept ==
  ASSUME Structure, SameOwners,
         \A p \in Page : /\ meta'[p].next = meta[p].next /\ meta'[p].front_meta = meta[p].front_meta
                         /\ meta'[p].head = meta[p].head
  PROVE  Structure'
<1>1. /\ \A t : Has(t)' <=> Has(t)
      /\ \A t \in Thread : \A k : Owned(t, k)' <=> Owned(t, k)
    BY OwnedKept
<1>2. \A t \in Thread, k \in Place : <<t, k>> \in Page
    BY PagePair
<1>3. Chained'
    BY <1>1, <1>2 DEF Structure, Chained, SameOwners
<1>4. Blocked'
    BY <1>1, <1>2 DEF Structure, Blocked
<1> QED BY <1>3, <1>4 DEF Structure

-----------------------------------------------------------------------------
(* The chain of a thread.                                                  *)

\* A set of natural numbers has a smallest element.
LEMMA SmallestElement ==
  ASSUME NEW S \in SUBSET Nat, S # {}
  PROVE  \E l \in S : \A k \in S : l <= k
<1> DEFINE R == {ss \in Nat \X Nat : ss[1] < ss[2]}
<1>1. IsWellFoundedOn(R, Nat)
    BY NatLessThanWellFounded DEF OpToRel
<1>2. PICK l \in S : \A k \in S : <<k, l>> \notin R
    <2> HIDE DEF R
    <2> QED BY <1>1, WFMin, Zenon
<1>3. ASSUME NEW k \in S PROVE l <= k
    <2>1. <<k, l>> \notin R
        BY <1>2
    <2>2. <<k, l>> \in Nat \X Nat /\ ~(k < l)
        BY <2>1
    <2> QED BY <2>2
<1> QED BY <1>3

\* What a thread owns: the first frames up to some number.
LEMMA OwnedFrames ==
  ASSUME Typed, Chained, NEW t \in Thread
  PROVE  /\ malloc_frame[t] \in Nat /\ malloc_frame[t] < NumFrames /\ malloc_frame[t] + 1 \in Place
         /\ Has(t) => first_page[t] = <<t, 0>> /\ Owned(t, 0)
         /\ \A k : Owned(t, k) => Has(t) /\ k \in Place /\ k \in Nat /\ k <= malloc_frame[t]
         /\ \A k, j \in Nat : Owned(t, k) /\ j <= k => Owned(t, j)
         /\ call[t].at # "new" /\ Has(t) =>
              Owned(t, malloc_frame[t]) /\ ~Owned(t, malloc_frame[t] + 1)
<1>1. malloc_frame[t] \in Nat /\ malloc_frame[t] < NumFrames /\ malloc_frame[t] + 1 \in Place
    <2>1. malloc_frame[t] \in Place /\ malloc_frame[t] < NumFrames
        BY DEF Typed, Shaped, Chained
    <2>2. malloc_frame[t] \in Nat
        BY <2>1, Numbers
    <2>3. malloc_frame[t] + 1 \in Nat /\ malloc_frame[t] + 1 <= NumFrames
        BY <2>1, <2>2, Numbers, SMT
    <2>4. malloc_frame[t] + 1 \in Place
        BY <2>3, Numbers
    <2> QED BY <2>1, <2>2, <2>4
<1>2. 0 \in Place /\ malloc_frame[t] \in Place
    BY <1>1, Numbers, SMT
<1>3. Has(t) => first_page[t] = <<t, 0>> /\ Owned(t, 0)
    BY <1>1, <1>2, SMT DEF Chained, Owned
<1>4. ASSUME NEW k, Owned(t, k)
      PROVE  Has(t) /\ k \in Place /\ k \in Nat /\ k <= malloc_frame[t]
    <2>1. /\ Has(t) /\ k \in Place
          /\ k < malloc_frame[t] \/ k = malloc_frame[t]
        BY <1>4 DEF Owned
    <2>2. k \in Nat
        BY <2>1, Numbers
    <2>3. k <= malloc_frame[t]
        BY <1>1, <2>1, <2>2, SMT
    <2> QED BY <2>1, <2>2, <2>3
<1>5. ASSUME NEW k \in Nat, NEW j \in Nat, Owned(t, k), j <= k PROVE Owned(t, j)
    <2>1. k \in Place /\ j \in Place
        BY <1>5, Numbers, SMT DEF Owned
    <2> QED BY <1>1, <1>5, <2>1, SMT DEF Owned
<1>6. call[t].at # "new" /\ Has(t) => Owned(t, malloc_frame[t]) /\ ~Owned(t, malloc_frame[t] + 1)
    BY <1>1, <1>2, SMT DEF Owned
<1> QED BY <1>1, <1>3, <1>4, <1>5, <1>6

\* The recursion in Walk.
Step(t, f, k) ==
  IF k = 0 THEN first_page[t] ELSE IF f[k - 1] = NoPage THEN NoPage ELSE meta[f[k - 1]].next
Steps(t) == CHOOSE f : f = [k \in Nat |-> Step(t, f, k)]

\* What the chain leads to: the pages of the thread, one after the other.
Chain(t) == [k \in Nat |-> IF Owned(t, k) THEN <<t, k>> ELSE NoPage]

\* One page of the chain after the other.
LEMMA ChainSteps ==
  ASSUME Typed, Chained, NEW t \in Thread, NEW k \in Nat
  PROVE  Chain(t)[k] = Step(t, Chain(t), k)
<1>1. CASE k = 0
    <2>1. Chain(t)[0] = IF Owned(t, 0) THEN <<t, 0>> ELSE NoPage
        BY DEF Chain
    <2>2. Chain(t)[0] = first_page[t]
        <3>1. CASE Has(t)
            BY <2>1, <3>1, OwnedFrames
        <3>2. CASE ~Has(t)
            BY <2>1, <3>2 DEF Has, Owned
        <3> QED BY <3>1, <3>2
    <2> QED BY <1>1, <2>2 DEF Step
<1>2. CASE k # 0
    <2>1. k - 1 \in Nat /\ k - 1 + 1 = k
        BY <1>2, SMT
    <2>2. Chain(t)[k - 1] = IF Owned(t, k - 1) THEN <<t, k - 1>> ELSE NoPage
        BY <2>1 DEF Chain
    <2>3. Chain(t)[k] = IF Owned(t, k) THEN <<t, k>> ELSE NoPage
        BY DEF Chain
    <2>4. CASE Owned(t, k - 1)
        <3>1. k - 1 \in Place
            BY <2>4, OwnedFrames
        <3>2. /\ Owned(t, k) => meta[<<t, k - 1>>].next = <<t, k>>
              /\ ~Owned(t, k) => meta[<<t, k - 1>>].next = NoPage
            BY <2>1, <2>4, <3>1 DEF Chained
        <3>3. Chain(t)[k - 1] = <<t, k - 1>> /\ Chain(t)[k - 1] # NoPage
            BY <2>2, <2>4, <3>1, PagePair
        <3>4. Step(t, Chain(t), k) = meta[<<t, k - 1>>].next
            BY <1>2, <3>3 DEF Step
        <3> QED BY <2>3, <3>2, <3>4
    <2>5. CASE ~Owned(t, k - 1)
        <3>1. ~Owned(t, k)
            BY <2>1, <2>5, OwnedFrames
        <3> QED BY <1>2, <2>2, <2>3, <2>5, <3>1 DEF Step
    <2> QED BY <2>4, <2>5
<1> QED BY <1>1, <1>2

\* Walk leads to the n-th page of the thread, and to NoPage if there is none.
LEMMA WalkFinds ==
  ASSUME Typed, Chained, NEW t \in Thread, NEW n \in Nat
  PROVE  Walk(t, n) = IF Owned(t, n) THEN <<t, n>> ELSE NoPage
<1>1. Walk(t, n) = Steps(t)[n]
    BY DEF Walk, Steps, Step
<1> DEFINE c == Chain(t)
           s == Steps(t)
<1>2. c = [k \in Nat |-> Step(t, c, k)]
    <2>1. \A k \in Nat : c[k] = Step(t, c, k)
        BY ChainSteps
    <2>2. c = [k \in Nat |-> c[k]]
        BY DEF Chain
    <2> HIDE DEF c
    <2> QED BY <2>1, <2>2
<1>3. s = [k \in Nat |-> Step(t, s, k)]
    <2>1. \E f : f = [k \in Nat |-> Step(t, f, k)]
        BY <1>2
    <2> QED BY <2>1 DEF Steps
<1> HIDE DEF c, s
<1> DEFINE Wrong == {k \in Nat : s[k] # c[k]}
<1>4. Wrong = {}
    <2>1. SUFFICES ASSUME Wrong # {} PROVE FALSE
        OBVIOUS
    <2>2. Wrong \in SUBSET Nat
        OBVIOUS
    <2>3. PICK l \in Wrong : \A k \in Wrong : l <= k
        <3> HIDE DEF Wrong
        <3> QED BY <2>1, <2>2, SmallestElement
    <2>4. l \in Nat /\ s[l] # c[l]
        OBVIOUS
    <2>5. s[l] = Step(t, s, l) /\ c[l] = Step(t, c, l)
        BY <1>2, <1>3, <2>4
    <2>6. CASE l = 0
        BY <2>4, <2>5, <2>6 DEF Step
    <2>7. CASE l # 0
        <3>1. l - 1 \in Nat /\ ~(l <= l - 1)
            BY <2>4, <2>7, SMT
        <3>2. s[l - 1] = c[l - 1]
            BY <2>3, <3>1
        <3> QED BY <2>4, <2>5, <2>7, <3>2 DEF Step
    <2> QED BY <2>6, <2>7
<1>5. s[n] = c[n]
    BY <1>4
<1> QED BY <1>1, <1>5 DEF c, s, Chain

\* The end of the chain is the page at malloc_frame.
LEMMA LastPageFound ==
  ASSUME Typed, Chained, NEW t \in Thread, Has(t), call[t].at # "new"
  PROVE  LastPage(t) = <<t, malloc_frame[t]>>
<1> DEFINE m == malloc_frame[t]
           Ends(n) == Walk(t, n) # NoPage /\ Walk(t, n + 1) = NoPage
<1>1. /\ m \in Nat /\ m \in Place /\ Owned(t, m) /\ ~Owned(t, m + 1)
      /\ \A k, j \in Nat : Owned(t, k) /\ j <= k => Owned(t, j)
    BY OwnedFrames
<1>2. \A n \in Nat : /\ Walk(t, n) # NoPage <=> Owned(t, n)
                     /\ Owned(t, n) => Walk(t, n) = <<t, n>>
    <2>1. ASSUME NEW n \in Nat
          PROVE  (Walk(t, n) # NoPage <=> Owned(t, n)) /\ (Owned(t, n) => Walk(t, n) = <<t, n>>)
        <3>1. Walk(t, n) = IF Owned(t, n) THEN <<t, n>> ELSE NoPage
            BY WalkFinds
        <3>2. Owned(t, n) => n \in Place
            BY OwnedFrames
        <3>3. n \in Place => <<t, n>> # NoPage
            BY PagePair
        <3> QED BY <3>1, <3>2, <3>3
    <2> QED BY <2>1
<1>3. Ends(m)
    BY <1>1, <1>2, SMT
<1>4. ASSUME NEW n \in Place, Ends(n) PROVE n = m
    <2>1. n \in Nat /\ n + 1 \in Nat /\ Owned(t, n) /\ ~Owned(t, n + 1)
        BY <1>2, <1>4, Numbers, SMT
    <2>2. ~(m >= n + 1) /\ ~(n >= m + 1)
        BY <1>1, <2>1, SMT
    <2> QED BY <1>1, <2>1, <2>2, SMT
<1>5. (CHOOSE n \in Place : Ends(n)) = m
    <2> HIDE DEF Ends, m
    <2> QED BY <1>1, <1>3, <1>4
<1>6. LastPage(t) = Walk(t, m)
    BY <1>5 DEF LastPage
<1> QED BY <1>1, <1>2, <1>6

-----------------------------------------------------------------------------
(* Exchange.                                                               *)

\* The page q of the running thread was brought to its home k, and the page p that
\* was there went where q had been.
Exchanged(p, q, k, d) ==
  /\ p \in Page /\ q \in Page /\ p # q /\ k \in Place /\ d \in Nat /\ d # k
  /\ home(p) = k /\ home(q) = k /\ Given(p) /\ Given(q) /\ Where(p) = k /\ Where(q) = d
  /\ meta' \in [Page -> AnyMeta] /\ frame_table' \in [Place -> Page \cup {NoPage}]
  /\ meta'[p].page_frame = d /\ meta'[q].page_frame = k
  /\ \A r \in Page \ {p, q} : meta'[r].page_frame = meta[r].page_frame
  /\ \A r \in Page : /\ meta'[r].next = meta[r].next /\ meta'[r].front_meta = meta[r].front_meta
                     /\ meta'[r].head = meta[r].head /\ meta'[r].free_page_mem = meta[r].free_page_mem
  /\ frame_table'[k] = q /\ (d \in Place => frame_table'[d] = p)
  /\ \A f \in Place \ {k, d} : frame_table'[f] = frame_table[f]
  /\ page_counter' = page_counter

\* Nothing is being given out.
Quiet == ~At("new") /\ ~At("evict")

\* A place that holds the page of some thread holds a page whose home it is.
LEMMA InHome ==
  ASSUME Typed, Placement, Quiet, NEW t \in Thread, NEW k \in Place, Owned(t, k)
  PROVE  /\ frame_table[k] \in Page /\ home(frame_table[k]) = k
         /\ Given(frame_table[k]) /\ Where(frame_table[k]) = k
<1>1. ~Vacant(k)
    BY DEF Quiet, Vacant
<1>2. frame_table[k] # NoPage /\ home(frame_table[k]) = k
    BY <1>1 DEF Placement, Homes
<1>3. frame_table[k] \in Page
    BY <1>2 DEF Typed, Shaped
<1>4. Given(frame_table[k]) /\ Where(frame_table[k]) = k
    BY <1>1, <1>2 DEF Placement, Tabled
<1> QED BY <1>2, <1>3, <1>4

\* Where the pages of a thread are.
LEMMA OwnedPlaces ==
  ASSUME Typed, Placement, NEW t \in Thread, NEW k \in Place, Owned(t, k)
  PROVE  /\ <<t, k>> \in Page /\ home(<<t, k>>) = k /\ Given(<<t, k>>)
         /\ Where(<<t, k>>) \in Nat /\ Where(<<t, k>>) < page_counter /\ ~Vacant(Where(<<t, k>>))
         /\ Where(<<t, k>>) \in Place => frame_table[Where(<<t, k>>)] = <<t, k>>
<1>1. <<t, k>> \in Page /\ home(<<t, k>>) = k
    BY PagePair
<1>2. Given(<<t, k>>)
    BY DEF Placement, Placed
<1>3. Where(<<t, k>>) \in Nat
    BY <1>1, <1>2, GivenWhere
<1>4. /\ Where(<<t, k>>) \in 0 .. page_counter - 1 /\ ~Vacant(Where(<<t, k>>))
      /\ Where(<<t, k>>) <= NumFrames => frame_table[Where(<<t, k>>)] = <<t, k>>
    <2> DEFINE p == <<t, k>>
    <2>1. p \in Page /\ Given(p)
        BY <1>1, <1>2
    <2> HIDE DEF p
    <2>2. /\ Where(p) \in 0 .. page_counter - 1 /\ ~Vacant(Where(p))
          /\ Where(p) <= NumFrames => frame_table[Where(p)] = p
        BY <2>1 DEF Placement, Placed
    <2> QED BY <2>2 DEF p
<1>5. page_counter \in Int
    BY SMT DEF Typed, Shaped
<1>6. Where(<<t, k>>) < page_counter
    BY <1>3, <1>4, <1>5, SMT
<1> QED BY <1>1, <1>2, <1>3, <1>4, <1>6, Numbers

\* What an exchange does to the metadata and the frame table.
LEMMA ExchangeMoves ==
  ASSUME Typed, Placement, Chained, Quiet, NEW k \in Place, Owned(cur, k), ~Here(k),
         NEW d, d = Where(<<cur, k>>), Exchange(k, d)
  PROVE  Exchanged(frame_table[k], <<cur, k>>, k, d)
<1> PICK q : q = <<cur, k>>
    OBVIOUS
<1> PICK p : p = frame_table[k]
    OBVIOUS
<1>1. cur \in Thread
    BY DEF Typed, Shaped
<1>2. q \in Page /\ home(q) = k /\ Given(q) /\ d \in Nat /\ Where(q) = d /\ (d \in Place => frame_table[d] = q)
    BY <1>1, OwnedPlaces
<1>3. p \in Page /\ home(p) = k /\ Given(p) /\ Where(p) = k
    BY <1>1, InHome
<1>4. p # q
    BY DEF Here
<1>5. d # k
    BY <1>2, <1>4
<1>6. Walk(cur, k) = q
    BY <1>1, WalkFinds, Numbers
<1>7. (IF d <= NumFrames THEN frame_table[d] ELSE Walk(cur, k)) = q
    BY <1>2, <1>6, Numbers
<1>8. /\ meta' = [meta EXCEPT ![p].page_frame = d, ![q].page_frame = k]
      /\ page_counter' = page_counter
      /\ frame_table' = IF d <= NumFrames THEN [frame_table EXCEPT ![k] = q, ![d] = p]
                        ELSE [frame_table EXCEPT ![k] = q]
    BY <1>7 DEF Exchange
<1>9. meta \in [Page -> AnyMeta] /\ frame_table \in [Place -> Page \cup {NoPage}]
    BY DEF Typed, Shaped
<1>10. /\ meta' \in [Page -> AnyMeta]
       /\ meta'[p].page_frame = d /\ meta'[q].page_frame = k
       /\ \A r \in Page \ {p, q} : meta'[r].page_frame = meta[r].page_frame
       /\ \A r \in Page : /\ meta'[r].next = meta[r].next /\ meta'[r].front_meta = meta[r].front_meta
                          /\ meta'[r].head = meta[r].head
                          /\ meta'[r].free_page_mem = meta[r].free_page_mem
    <2>1. k \in Nat
        BY Numbers
    <2>2. meta' = [r \in Page |-> IF r = q THEN [meta[r] EXCEPT !.page_frame = k]
                                  ELSE IF r = p THEN [meta[r] EXCEPT !.page_frame = d] ELSE meta[r]]
        BY <1>2, <1>3, <1>4, <1>8, <1>9
    <2>3. ASSUME NEW r \in Page
          PROVE  /\ meta'[r] \in AnyMeta
                 /\ r = q => meta'[r].page_frame = k
                 /\ r = p => meta'[r].page_frame = d
                 /\ r \notin {p, q} => meta'[r].page_frame = meta[r].page_frame
                 /\ meta'[r].next = meta[r].next /\ meta'[r].front_meta = meta[r].front_meta
                 /\ meta'[r].head = meta[r].head /\ meta'[r].free_page_mem = meta[r].free_page_mem
        <3>1. meta[r] \in AnyMeta
            BY <1>9
        <3>2. meta'[r] = IF r = q THEN [meta[r] EXCEPT !.page_frame = k]
                         ELSE IF r = p THEN [meta[r] EXCEPT !.page_frame = d] ELSE meta[r]
            BY <2>2
        <3> QED BY <1>2, <1>4, <2>1, <3>1, <3>2 DEF AnyMeta
    <2>4. meta' \in [Page -> AnyMeta]
        BY <2>2, <2>3
    <2> QED BY <1>2, <1>3, <2>3, <2>4
<1>11. /\ frame_table' \in [Place -> Page \cup {NoPage}]
       /\ frame_table'[k] = q /\ (d \in Place => frame_table'[d] = p)
       /\ \A f \in Place \ {k, d} : frame_table'[f] = frame_table[f]
    <2>1. CASE d <= NumFrames
        <3>1. d \in Place
            BY <1>2, <2>1, Numbers
        <3> QED BY <1>2, <1>3, <1>5, <1>8, <1>9, <2>1, <3>1
    <2>2. CASE ~(d <= NumFrames)
        <3>1. d \notin Place
            BY <1>2, <2>2, Numbers
        <3> QED BY <1>2, <1>8, <1>9, <2>2, <3>1
    <2> QED BY <2>1, <2>2
<1>12. Exchanged(p, q, k, d)
    BY <1>2, <1>3, <1>4, <1>5, <1>8, <1>10, <1>11 DEF Exchanged
<1> QED BY <1>12

\* After an exchange every page is where the metadata and the frame table say.
LEMMA ExchangePlacement ==
  ASSUME Typed, Placement, Quiet, Quiet', SameOwners, NEW p, NEW q, NEW k, NEW d, Exchanged(p, q, k, d),
         NEW t \in Thread, Owned(t, k)
  PROVE  Placement'
<1>1. /\ p \in Page /\ q \in Page /\ p # q /\ k \in Place /\ d \in Nat /\ d # k
      /\ home(p) = k /\ home(q) = k /\ Given(p) /\ Given(q) /\ Where(p) = k /\ Where(q) = d
      /\ page_counter' = page_counter
    BY DEF Exchanged
<1>2. /\ \A r \in Page : Given(r)' <=> Given(r)
      /\ Where(p)' = d /\ Where(q)' = k
      /\ \A r \in Page \ {p, q} : Where(r)' = Where(r)
    BY <1>1, Numbers DEF Exchanged, Given, Where, Null
<1>3. /\ frame_table'[k] = q /\ (d \in Place => frame_table'[d] = p)
      /\ \A f \in Place \ {k, d} : frame_table'[f] = frame_table[f]
    BY DEF Exchanged
<1>4. \A f : ~Vacant(f) /\ ~Vacant(f)'
    BY DEF Quiet, Vacant, At
<1>5. \A u \in Thread : \A j : Owned(u, j)' <=> Owned(u, j)
    BY OwnedKept
<1>6. Placed'
    <2>1. \A u \in Thread, j \in Place : Given(<<u, j>>)' <=> Owned(u, j)'
        BY <1>2, <1>5, PagePair DEF Placement, Placed
    <2>2. ASSUME NEW r \in Page, Given(r)'
          PROVE  /\ Where(r)' \in 0 .. page_counter' - 1
                 /\ Where(r)' <= NumFrames => frame_table'[Where(r)'] = r
        <3>1. \A s \in Page : Given(s) => /\ Where(s) \in 0 .. page_counter - 1
                                          /\ Where(s) <= NumFrames => frame_table[Where(s)] = s
            BY DEF Placement, Placed
        <3>2. CASE r = p
            BY <1>1, <1>2, <1>3, <3>1, <3>2, Numbers
        <3>3. CASE r = q
            BY <1>1, <1>2, <1>3, <3>1, <3>3, Numbers
        <3>4. CASE r \notin {p, q}
            <4>1. Given(r) /\ Where(r)' = Where(r) /\ Where(r) \in Nat
                BY <1>2, <2>2, <3>4, GivenWhere
            <4>2. Where(r) # k /\ Where(r) # d
                BY <1>1, <3>4, <4>1 DEF Placement, Apart
            <4>3. Where(r) <= NumFrames => Where(r) \in Place \ {k, d}
                BY <4>1, <4>2, Numbers
            <4> QED BY <1>1, <1>3, <3>1, <4>1, <4>3
        <3> QED BY <3>2, <3>3, <3>4
    <2> QED BY <1>4, <2>1, <2>2 DEF Placed, Vacant, At, Call
<1>7. Tabled'
    <2>1. ASSUME NEW f \in Place, frame_table'[f] # NoPage
          PROVE  Given(frame_table[f])' /\ Where(frame_table[f])' = f
        <3>1. PICK r : r = frame_table'[f]
            OBVIOUS
        <3>2. r \in Page /\ Given(r)' /\ Where(r)' = f
            <4>1. CASE f = k
                BY <1>1, <1>2, <1>3, <3>1, <4>1
            <4>2. CASE f = d
                BY <1>1, <1>2, <1>3, <3>1, <4>2
            <4>3. CASE f \notin {k, d}
                <5>1. r = frame_table[f] /\ r # NoPage
                    BY <1>3, <2>1, <3>1, <4>3
                <5>2. r \in Page
                    BY <5>1 DEF Typed, Shaped
                <5>3. Given(r) /\ Where(r) = f
                    BY <1>4, <5>1 DEF Placement, Tabled
                <5>4. r # p /\ r # q
                    BY <1>1, <4>3, <5>3
                <5> QED BY <1>2, <5>2, <5>3, <5>4
            <4> QED BY <4>1, <4>2, <4>3
        <3> QED BY <3>1, <3>2 DEF Given, Where
    <2> QED BY <2>1 DEF Tabled
<1>8. Apart'
    BY <1>1, <1>2 DEF Placement, Apart
<1>9. Full'
    <2>1. ASSUME NEW n \in 0 .. page_counter - 1
          PROVE  \E r \in Page : Given(r)' /\ Where(r)' = n
        <3>1. PICK r \in Page : Given(r) /\ Where(r) = n
            BY <1>4 DEF Placement, Full
        <3>2. CASE r = p
            BY <1>1, <1>2, <3>1, <3>2
        <3>3. CASE r = q
            BY <1>1, <1>2, <3>1, <3>3
        <3>4. CASE r \notin {p, q}
            BY <1>2, <3>1, <3>4
        <3> QED BY <3>2, <3>3, <3>4
    <2> QED BY <1>1, <2>1 DEF Full
<1>10. Below'
    BY <1>1, <1>4, <1>5 DEF Placement, Below
<1>11. Homes'
    <2>1. ASSUME NEW u \in Thread, NEW j \in Place, Owned(u, j)
          PROVE  frame_table'[j] # NoPage /\ home(frame_table'[j]) = j
        <3>1. frame_table[j] # NoPage /\ home(frame_table[j]) = j
            BY <1>4, <2>1 DEF Placement, Homes
        <3>2. CASE j = k
            BY <1>1, <1>3, <3>2, PagePair
        <3>3. CASE j = d
            <4>1. frame_table[d] = q
                BY <1>1, <3>3, Numbers DEF Placement, Placed
            <4> QED BY <1>1, <3>1, <3>3, <4>1
        <3>4. CASE j \notin {k, d}
            BY <1>3, <3>1, <3>4
        <3> QED BY <3>2, <3>3, <3>4
    <2>2. \A u \in Thread, j \in Place : Owned(u, j)' => frame_table'[j] # NoPage /\ home(frame_table'[j]) = j
        BY <1>5, <2>1
    <2> QED BY <2>2 DEF Homes, home
<1> QED BY <1>6, <1>7, <1>8, <1>9, <1>10, <1>11 DEF Placement

\* The pages of the running thread that are at home stay there, and one more comes home.
LEMMA ExchangeKeepsHome ==
  ASSUME Typed, Placement, Quiet, cur' = cur, NEW p, NEW q, NEW k, NEW d, Exchanged(p, q, k, d), q = <<cur, k>>
  PROVE  /\ Here(k)'
         /\ \A j \in Place : Owned(cur, j) /\ Here(j) => Here(j)'
<1>1. Here(k)'
    BY DEF Exchanged, Here
<1>2. ASSUME NEW j \in Place, Owned(cur, j), Here(j) PROVE Here(j)'
    <2>1. Given(<<cur, j>>) /\ Where(<<cur, j>>) = j
        BY <1>2, InHome DEF Here, Typed, Shaped
    <2>2. CASE j = k
        BY <1>1, <2>2 DEF Here
    <2>3. CASE j # k
        <3>1. <<cur, j>> # q /\ <<cur, j>> \in Page
            BY <2>3, PagePair DEF Typed, Shaped
        <3>2. j # d
            BY <2>1, <3>1 DEF Exchanged, Placement, Apart
        <3> QED BY <1>2, <2>3, <3>2 DEF Exchanged, Here
    <2> QED BY <2>2, <2>3
<1> QED BY <1>1, <1>2

-----------------------------------------------------------------------------
(* The swap file.                                                          *)

Offset(n) == Slot(n) * ReadStride

\* The slots of the swap file are naturals.
LEMMA SlotFacts ==
  ASSUME NEW n \in Nat, n \notin Place
  PROVE  Slot(n) \in Nat /\ Slot(n) = n - NumFrames - 1
<1>1. n > NumFrames /\ NumFrames \in Nat
    BY Numbers, SMT
<1> QED BY <1>1, SMT DEF Slot

\* A product of naturals is a natural, and a larger factor makes it larger by the other.
LEMMA Products ==
  ASSUME NEW a \in Nat, NEW b \in Nat, NEW s \in Nat
  PROVE  /\ a * s \in Nat
         /\ a < b => a * s + s <= b * s
<1>1. a * s \in Nat
    BY SMT
<1>2. ASSUME a < b PROVE a * s + s <= b * s
    <2>1. PICK c \in Nat : b = a + 1 + c
        <3>1. b - a - 1 \in Nat /\ b = a + 1 + (b - a - 1)
            BY <1>2, SMT
        <3> QED BY <3>1
    <2>2. b * s = a * s + s + c * s
        BY <2>1, SMT
    <2>3. c * s \in Nat
        BY <2>1, SMT
    <2> QED BY <1>1, <2>2, <2>3, SMT
<1> QED BY <1>1, <1>2

\* Pages are written where they are read, and their slots do not overlap.
LEMMA SlotsApart ==
  ASSUME SwapSound, NEW n \in Nat, n \notin Place, n < TotalPages
  PROVE  /\ Offset(n) \in Nat /\ Slot(n) * WriteStride = Offset(n)
         /\ \A m \in Nat : m \notin Place /\ m < TotalPages /\ m # n =>
              Offset(n) + PageBytes <= Offset(m) \/ Offset(m) + PageBytes <= Offset(n)
<1>1. WriteStride \in Nat /\ ReadStride \in Nat /\ PageBytes \in Nat /\ TotalPages \in Nat /\ NumFrames \in Nat
    BY MemoryAssumption
<1>2. Slot(n) \in Nat /\ Slot(n) = n - NumFrames - 1
    BY SlotFacts
<1>3. Offset(n) \in Nat
    BY <1>1, <1>2, Products DEF Offset
<1>4. CASE TotalPages <= NumFrames + 2
    <2>1. n = NumFrames + 1 /\ Slot(n) = 0
        BY <1>1, <1>2, <1>4, SMT
    <2>2. \A m \in Nat : m \notin Place /\ m < TotalPages => m = n
        <3>1. ASSUME NEW m \in Nat, m \notin Place, m < TotalPages PROVE m = n
            <4>1. Slot(m) \in Nat /\ Slot(m) = m - NumFrames - 1
                BY <3>1, SlotFacts
            <4> QED BY <1>1, <1>4, <2>1, <3>1, <4>1, SMT
        <3> QED BY <3>1
    <2>3. 0 * WriteStride = 0 /\ 0 * ReadStride = 0
        BY <1>1, SMT
    <2> QED BY <1>3, <2>1, <2>2, <2>3 DEF Offset
<1>5. CASE WriteStride = ReadStride /\ PageBytes <= ReadStride
    <2>1. ASSUME NEW m \in Nat, m \notin Place, m # n
          PROVE  Offset(n) + PageBytes <= Offset(m) \/ Offset(m) + PageBytes <= Offset(n)
        <3>1. Slot(m) \in Nat /\ Slot(m) = m - NumFrames - 1
            BY <2>1, SlotFacts
        <3>2. Slot(m) < Slot(n) \/ Slot(n) < Slot(m)
            BY <1>1, <1>2, <2>1, <3>1, SMT
        <3>3. Offset(m) \in Nat
            BY <1>1, <3>1, Products DEF Offset
        <3>4. Offset(n) + ReadStride <= Offset(m) \/ Offset(m) + ReadStride <= Offset(n)
            BY <1>1, <1>2, <3>1, <3>2, Products DEF Offset
        <3> QED BY <1>1, <1>3, <1>5, <3>3, <3>4, SMT
    <2> QED BY <1>3, <1>5, <2>1 DEF Offset
<1> QED BY <1>4, <1>5 DEF SwapSound

\* The pages in the swap file have contents.
LEMMA ReadType ==
  ASSUME Typed, NEW o PROVE Read(o) \in AnyContent
BY GarbageType DEF Typed, Shaped, Read

\* A page that is written is what is read there, and what it does not overlap stays.
LEMMA WriteReads ==
  ASSUME Typed, NEW o \in Nat, NEW c \in AnyContent, disk' = Written(o, c)
  PROVE  /\ Read(o)' = c
         /\ \A o2 \in Nat : o2 + PageBytes <= o \/ o + PageBytes <= o2 => Read(o2)' = Read(o2)
         /\ \A o2 \in DOMAIN disk' : o2 \in Nat /\ disk'[o2] \in AnyContent
<1>1. PageBytes \in Nat /\ PageBytes > 0
    BY MemoryAssumption, SMT
<1>2. /\ DOMAIN disk' = DOMAIN disk \cup {o}
      /\ \A k \in DOMAIN disk \cup {o} :
           disk'[k] = IF k = o THEN c
                      ELSE IF k < o + PageBytes /\ o < k + PageBytes THEN Garbage ELSE disk[k]
    BY DEF Written
<1>3. disk'[o] = c
    BY <1>2
<1>4. ASSUME NEW o2 \in Nat, o2 + PageBytes <= o \/ o + PageBytes <= o2 PROVE Read(o2)' = Read(o2)
    <2>1. o2 # o /\ ~(o2 < o + PageBytes /\ o < o2 + PageBytes)
        BY <1>1, <1>4, SMT
    <2> QED BY <1>2, <2>1 DEF Read
<1>5. \A o2 \in DOMAIN disk' : o2 \in Nat /\ disk'[o2] \in AnyContent
    BY <1>2, GarbageType DEF Typed, Shaped
<1> QED BY <1>2, <1>3, <1>4, <1>5 DEF Read

\* A page has a content wherever it is.
LEMMA ContentType ==
  ASSUME Typed, NEW p \in Page, Given(p)
  PROVE  ContentOf(p) \in AnyContent
<1>1. Where(p) \in Nat
    BY GivenWhere
<1>2. CASE Where(p) <= NumFrames
    BY <1>1, <1>2, Numbers DEF ContentOf, Where, Typed, Shaped
<1>3. CASE ~(Where(p) <= NumFrames)
    BY <1>1, <1>3, ReadType DEF ContentOf, Where
<1> QED BY <1>2, <1>3

\* What an exchange does to the contents of memory and of the swap file.
LEMMA ExchangeCopies ==
  ASSUME Typed, NEW k \in Place, NEW d \in Nat, d # k, Exchange(k, d)
  PROVE  /\ mem' \in [Place -> AnyContent]
         /\ \A o \in DOMAIN disk' : o \in Nat /\ disk'[o] \in AnyContent
         /\ d \in Place => /\ mem'[k] = mem[d] /\ mem'[d] = mem[k] /\ disk' = disk
                           /\ \A f \in Place \ {k, d} : mem'[f] = mem[f]
         /\ d \notin Place => /\ mem'[k] = Read(Offset(d)) /\ disk' = Written(Offset(d), mem[k])
                              /\ \A f \in Place \ {k} : mem'[f] = mem[f]
<1>1. mem \in [Place -> AnyContent] /\ \A o \in DOMAIN disk : o \in Nat /\ disk[o] \in AnyContent
    BY DEF Typed, Shaped
<1>2. CASE d \in Place
    <2>1. d <= NumFrames
        BY <1>2, Numbers
    <2>2. mem' = [mem EXCEPT ![k] = mem[d], ![d] = mem[k]] /\ disk' = disk
        BY <2>1 DEF Exchange
    <2> QED BY <1>1, <1>2, <2>2
<1>3. CASE d \notin Place
    <2>1. ~(d <= NumFrames)
        BY <1>3, Numbers
    <2>2. mem' = [mem EXCEPT ![k] = Read(Offset(d))] /\ disk' = Written(Offset(d), mem[k])
        BY <2>1 DEF Exchange, Offset
    <2>3. Read(Offset(d)) \in AnyContent
        BY ReadType
    <2>4. Offset(d) \in Nat
        BY <1>3, SlotFacts, Products, MemoryAssumption DEF Offset
    <2>5. mem[k] \in AnyContent
        BY <1>1
    <2>6. \A o \in DOMAIN disk' : o \in Nat /\ disk'[o] \in AnyContent
        BY <2>2, <2>4, <2>5, WriteReads
    <2> QED BY <1>1, <1>3, <2>2, <2>3, <2>6
<1> QED BY <1>2, <1>3

\* The content of a page, by where it is.
LEMMA ContentWhere ==
  ASSUME Typed, NEW p \in Page, Given(p)
  PROVE  /\ Where(p) \in Place => ContentOf(p) = mem[Where(p)]
         /\ Where(p) \notin Place => ContentOf(p) = Read(Offset(Where(p)))
<1>1. Where(p) \in Nat
    BY GivenWhere
<1>2. Where(p) \in Place <=> Where(p) <= NumFrames
    BY <1>1, Numbers
<1> QED BY <1>2 DEF ContentOf, Where, Offset

\* The same in the next state.
LEMMA ContentWhereNext ==
  ASSUME NEW p \in Page, meta'[p].page_frame \in Nat
  PROVE  /\ meta'[p].page_frame \in Place => ContentOf(p)' = mem'[meta'[p].page_frame]
         /\ meta'[p].page_frame \notin Place => ContentOf(p)' = Read(Offset(meta[p].page_frame))'
<1>1. meta'[p].page_frame \in Place <=> meta'[p].page_frame <= NumFrames
    BY Numbers
<1> QED BY <1>1 DEF ContentOf, Offset

\* Pages in the swap file are in slots of their own.
LEMMA SlotOwn ==
  ASSUME Typed, Placement, SwapSound, NEW p \in Page, NEW n \in Nat, Given(p),
         n \notin Place, n < TotalPages, Where(p) \notin Place, Where(p) # n
  PROVE  /\ Offset(Where(p)) \in Nat
         /\ Offset(Where(p)) + PageBytes <= Offset(n) \/ Offset(n) + PageBytes <= Offset(Where(p))
<1>1. Where(p) \in Nat /\ Where(p) \in 0 .. page_counter - 1
    BY GivenWhere DEF Placement, Placed
<1>2. page_counter \in 0 .. TotalPages
    BY DEF Typed, Shaped
<1>3. Where(p) < TotalPages
    BY <1>1, <1>2, MemoryAssumption, SMT
<1> QED BY <1>1, <1>3, SlotsApart

\* An exchange changes no page.
LEMMA ExchangeContents ==
  ASSUME Typed, Placement, SwapSound, NEW p, NEW q, NEW k, NEW d, Exchanged(p, q, k, d), Exchange(k, d),
         NEW r \in Page, Given(r)
  PROVE  ContentOf(r)' = ContentOf(r)
<1>1. /\ p \in Page /\ q \in Page /\ p # q /\ k \in Place /\ d \in Nat /\ d # k
      /\ Given(p) /\ Given(q) /\ Where(p) = k /\ Where(q) = d
      /\ meta'[p].page_frame = d /\ meta'[q].page_frame = k
      /\ \A s \in Page \ {p, q} : meta'[s].page_frame = meta[s].page_frame
    BY DEF Exchanged
<1>2. /\ d \in Place => /\ mem'[k] = mem[d] /\ mem'[d] = mem[k] /\ disk' = disk
                        /\ \A f \in Place \ {k, d} : mem'[f] = mem[f]
      /\ d \notin Place => /\ mem'[k] = Read(Offset(d)) /\ disk' = Written(Offset(d), mem[k])
                           /\ \A f \in Place \ {k} : mem'[f] = mem[f]
    BY <1>1, ExchangeCopies
<1>3. d < TotalPages
    BY <1>1, MemoryAssumption, SMT DEF Placement, Placed, Typed, Shaped
<1>4. k \in Nat /\ mem[k] \in AnyContent
    BY <1>1, Numbers DEF Typed, Shaped
<1>5. CASE r = p
    <2>1. ContentOf(r) = mem[k]
        BY <1>1, <1>5, ContentWhere
    <2>2. CASE d \in Place
        BY <1>1, <1>2, <1>5, <2>1, <2>2, ContentWhereNext
    <2>3. CASE d \notin Place
        <3>1. ContentOf(r)' = Read(Offset(d))'
            BY <1>1, <1>5, <2>3, ContentWhereNext
        <3>2. Offset(d) \in Nat
            BY <1>1, <1>3, <2>3, SlotsApart
        <3>3. Read(Offset(d))' = mem[k]
            BY <1>2, <1>4, <2>3, <3>2, WriteReads
        <3> QED BY <2>1, <3>1, <3>3
    <2> QED BY <2>2, <2>3
<1>6. CASE r = q
    <2>1. ContentOf(r)' = mem'[k]
        BY <1>1, <1>4, <1>6, ContentWhereNext
    <2>2. CASE d \in Place
        BY <1>1, <1>2, <1>6, <2>1, <2>2, ContentWhere
    <2>3. CASE d \notin Place
        BY <1>1, <1>2, <1>6, <2>1, <2>3, ContentWhere
    <2> QED BY <2>2, <2>3
<1>7. CASE r \notin {p, q}
    <2>1. meta'[r].page_frame = Where(r) /\ Where(r) \in Nat /\ Where(r) # k /\ Where(r) # d
        BY <1>1, <1>7, GivenWhere DEF Where, Placement, Apart
    <2>2. CASE Where(r) \in Place
        <3>1. mem'[Where(r)] = mem[Where(r)]
            BY <1>2, <2>1, <2>2
        <3> QED BY <2>1, <2>2, <3>1, ContentWhere, ContentWhereNext
    <2>3. CASE Where(r) \notin Place
        <3>1. ContentOf(r)' = Read(Offset(Where(r)))' /\ ContentOf(r) = Read(Offset(Where(r)))
            BY <2>1, <2>3, ContentWhere, ContentWhereNext DEF Where
        <3>2. CASE d \in Place
            BY <1>2, <2>1, <3>1, <3>2 DEF Read, Where
        <3>3. CASE d \notin Place
            <4>1. PICK n : n = Where(r)
                OBVIOUS
            <4>2. Offset(d) \in Nat
                BY <1>1, <1>3, <3>3, SlotsApart
            <4>3. /\ Offset(n) \in Nat
                  /\ Offset(n) + PageBytes <= Offset(d) \/ Offset(d) + PageBytes <= Offset(n)
                BY <1>1, <1>3, <2>1, <2>3, <3>3, <4>1, SlotOwn
            <4>4. Read(Offset(n))' = Read(Offset(n))
                BY <1>2, <1>4, <3>3, <4>2, <4>3, WriteReads
            <4>5. ContentOf(r)' = Read(Offset(n))'
                BY <2>1, <3>1, <4>1 DEF Where, Read
            <4> QED BY <3>1, <4>1, <4>4, <4>5
        <3> QED BY <3>2, <3>3
    <2> QED BY <2>2, <2>3
<1> QED BY <1>5, <1>6, <1>7

-----------------------------------------------------------------------------
(* Steps that give no page.                                                *)

MemoryTyped ==
  /\ mem \in [Place -> AnyContent]
  /\ \A o \in DOMAIN disk : o \in Nat /\ disk[o] \in AnyContent
  /\ frame_table \in [Place -> Page \cup {NoPage}]
  /\ meta \in [Page -> AnyMeta]

\* Only where pages are may have changed in the metadata.
MetaKept ==
  \A r \in Page : /\ meta'[r].next = meta[r].next /\ meta'[r].front_meta = meta[r].front_meta
                  /\ meta'[r].head = meta[r].head /\ meta'[r].free_page_mem = meta[r].free_page_mem

\* Every page has the content it had.
SameContents ==
  \A r \in Page : (Given(r)' <=> Given(r)) /\ (Given(r) => ContentOf(r)' = ContentOf(r))

\* Pages were moved, perhaps, and those of the running thread that were at home are
\* still there.
Moved ==
  /\ Placement' /\ Structure' /\ MemoryTyped' /\ page_counter' = page_counter
  /\ MetaKept /\ (SwapSound => SameContents) /\ (Bounded => Bounded')
  /\ \A j \in Place : Owned(cur, j) /\ Here(j) => Here(j)'

\* What is read from the swap file, and what is left there when a page is written, is in
\* range if it was.
LEMMA FitsRead ==
  ASSUME Bounded
  PROVE  /\ \A o : Fits(Read(o))
         /\ \A o, c : Fits(c) /\ disk' = Written(o, c) => \A o2 \in DOMAIN disk' : Fits(disk'[o2])
<1>1. Fits(Garbage)
    <2>1. 0 \in 0 .. PageUnits
        BY Numbers, SMT
    <2> QED BY <2>1 DEF Fits, Garbage
<1>2. \A o \in DOMAIN disk : Fits(disk[o])
    BY DEF Bounded
<1> QED BY <1>1, <1>2 DEF Read, Written

\* The free counts are in range after a step that copies pages to where others were.
LEMMA BoundedKept ==
  ASSUME Bounded, MetaKept, NEW o, NEW c, Fits(c), disk' = disk \/ disk' = Written(o, c),
         \A f \in Place : Fits(mem'[f])
  PROVE  Bounded'
<1>1. \A o2 \in DOMAIN disk' : Fits(disk'[o2])
    <2>1. CASE disk' = disk
        BY <2>1 DEF Bounded
    <2>2. CASE disk' = Written(o, c)
        BY <2>2, FitsRead
    <2> QED BY <2>1, <2>2
<1>2. \A p \in Page : meta'[p].free_page_mem \in 0 .. PageUnits \cup {-1}
    BY DEF Bounded, MetaKept
<1>3. \A f : Fits(mem[f])' <=> Fits(mem'[f])
    BY DEF Fits
<1>4. \A f : Fits(disk[f])' <=> Fits(disk'[f])
    BY DEF Fits
<1> QED BY <1>1, <1>2, <1>3, <1>4 DEF Bounded

\* A step that leaves the pages alone.
LEMMA PagesUnchanged ==
  ASSUME Typed, Placement, Structure, SameOwners, SameVacant, UNCHANGED pages
  PROVE  /\ Placement' /\ Structure' /\ MemoryTyped' /\ page_counter' = page_counter /\ MetaKept /\ SameContents
         /\ (Bounded => Bounded')
<1>1. mem' = mem /\ disk' = disk /\ frame_table' = frame_table /\ meta' = meta /\ page_counter' = page_counter
    BY DEF pages
<1>2. \A p \in Page : Where(p)' = Where(p)
    BY <1>1 DEF Where
<1>3. \A t \in Thread, k \in Place : Owned(t, k)' <=> Owned(t, k)
    BY OwnedKept
<1>4. Placement'
    BY <1>1, <1>2, <1>3, PlacementKept
<1>5. Structure'
    BY <1>1, StructureKept
<1>6. MemoryTyped'
    BY <1>1 DEF MemoryTyped, Typed, Shaped
<1>7. MetaKept
    BY <1>1 DEF MetaKept
<1>8. SameContents
    BY <1>1 DEF SameContents, Given, ContentOf, Read
<1>9. Bounded => Bounded'
    BY <1>1 DEF Bounded, Fits
<1> QED BY <1>1, <1>4, <1>5, <1>6, <1>7, <1>8, <1>9

\* The same step as one that moves nothing.
LEMMA NothingMoved ==
  ASSUME Typed, Placement, Structure, SameOwners, SameVacant, UNCHANGED pages, cur' = cur
  PROVE  Moved
<1>1. frame_table' = frame_table
    BY DEF pages
<1>2. \A j \in Place : Here(j) => Here(j)'
    BY <1>1 DEF Here
<1> QED BY <1>2, PagesUnchanged DEF Moved

\* A page of the running thread is exchanged with the one in its home.
LEMMA ExchangeDone ==
  ASSUME Typed, Placement, Structure, Quiet, Quiet', SameOwners, cur' = cur,
         NEW k \in Place, Owned(cur, k), ~Here(k), NEW d, d = Where(<<cur, k>>), Exchange(k, d)
  PROVE  Moved /\ Here(k)'
<1>1. PICK p, q : p = frame_table[k] /\ q = <<cur, k>>
    OBVIOUS
<1>2. Exchanged(p, q, k, d)
    <2>1. Exchanged(frame_table[k], <<cur, k>>, k, d)
        BY ExchangeMoves DEF Structure
    <2> QED BY <1>1, <2>1
<1>3. cur \in Thread
    BY DEF Typed, Shaped
<1>4. Placement'
    BY <1>2, <1>3, ExchangePlacement
<1>5. MetaKept
    BY <1>2 DEF Exchanged, MetaKept
<1>6. Structure'
    BY <1>5, StructureKept DEF MetaKept
<1>7. Here(k)' /\ \A j \in Place : Owned(cur, j) /\ Here(j) => Here(j)'
    BY <1>1, <1>2, ExchangeKeepsHome
<1>8. MemoryTyped'
    <2>1. d \in Nat /\ d # k
        BY <1>2 DEF Exchanged
    <2>2. mem' \in [Place -> AnyContent] /\ \A o \in DOMAIN disk' : o \in Nat /\ disk'[o] \in AnyContent
        BY <2>1, ExchangeCopies
    <2> QED BY <1>2, <2>2 DEF MemoryTyped, Exchanged
<1>9. ASSUME SwapSound PROVE SameContents
    <2>1. \A r \in Page : Given(r) => ContentOf(r)' = ContentOf(r)
        BY <1>2, <1>9, ExchangeContents
    <2>2. \A r \in Page : Given(r)' <=> Given(r)
        BY <1>2, Numbers DEF Exchanged, Given, Null
    <2> QED BY <2>1, <2>2 DEF SameContents
<1>10. page_counter' = page_counter
    BY <1>2 DEF Exchanged
<1>11. ASSUME Bounded PROVE Bounded'
    <2>1. d \in Nat /\ d # k
        BY <1>2 DEF Exchanged
    <2>2. /\ d \in Place => /\ mem'[k] = mem[d] /\ mem'[d] = mem[k] /\ disk' = disk
                            /\ \A f \in Place \ {k, d} : mem'[f] = mem[f]
          /\ d \notin Place => /\ mem'[k] = Read(Offset(d)) /\ disk' = Written(Offset(d), mem[k])
                               /\ \A f \in Place \ {k} : mem'[f] = mem[f]
        BY <2>1, ExchangeCopies
    <2>3. \A f \in Place : Fits(mem[f])
        BY <1>11 DEF Bounded
    <2>4. Fits(Read(Offset(d)))
        BY <1>11, FitsRead
    <2>5. \A f \in Place : Fits(mem'[f])
        BY <2>2, <2>3, <2>4
    <2> QED BY <1>5, <1>11, <2>2, <2>3, <2>5, BoundedKept
<1> QED BY <1>4, <1>5, <1>6, <1>7, <1>8, <1>9, <1>10, <1>11 DEF Moved

\* A step that leaves the pages alone because the page is at home, or brings it home.
LEMMA BroughtHome ==
  ASSUME Typed, Placement, Structure, Quiet, Quiet', SameOwners, cur' = cur,
         NEW k \in Place, Owned(cur, k), NEW d, d = Where(<<cur, k>>),
         IF Here(k) THEN UNCHANGED pages ELSE Exchange(k, d)
  PROVE  Moved /\ Here(k)'
<1>1. CASE Here(k)
    <2>1. SameVacant
        BY DEF SameVacant, Vacant, Quiet, At
    <2>2. UNCHANGED pages
        BY <1>1
    <2>3. Moved
        BY <2>1, <2>2, NothingMoved
    <2> QED BY <1>1, <2>3 DEF Moved
<1>2. CASE ~Here(k)
    BY <1>2, ExchangeDone
<1> QED BY <1>1, <1>2

\* The frame of a page holds it, if it holds any page of its owner.
LEMMA ResidentHere ==
  ASSUME Typed, Placement, Quiet, NEW k \in Place, Owned(cur, k)
  PROVE  Resident(cur, k) <=> Here(k)
<1>1. cur \in Thread
    BY DEF Typed, Shaped
<1>2. PICK p \in Page : p = frame_table[k] /\ home(p) = k
    BY <1>1, InHome
<1>3. p = <<p[1], k>> /\ p # NoPage
    BY <1>2, PagePair
<1> QED BY <1>2, <1>3 DEF Resident, Here

-----------------------------------------------------------------------------
(* The steps of a call.                                                    *)

\* No page is given and none is changed.
Steady ==
  /\ \A t \in Thread, k \in Place : Owned(t, k)' <=> Owned(t, k)
  /\ MetaKept /\ (SwapSound => SameContents) /\ (Bounded => Bounded')

\* The running thread goes on with its call.
LEMMA CallNext ==
  ASSUME Typed, NEW c \in CallType, call' = [call EXCEPT ![cur] = c]
  PROVE  /\ call' \in [Thread -> CallType]
         /\ call'[cur] = c /\ \A t \in Thread \ {cur} : call'[t] = call[t]
BY DEF Typed, Shaped

\* What is known of the call of the running thread.
LEMMA CallFacts ==
  ASSUME Typed
  PROVE  /\ cur \in Thread /\ Call = call[cur] /\ Call \in CallType /\ Call.at \in Points
         /\ Call.x \in Nat /\ Call.counter \in Nat /\ Call.i \in Nat /\ Call.then \in {"try", "scanTry"}
         /\ Call.temp \in Page \cup {NoPage} /\ Call.swap_ptr \in Page \cup {NoPage}
<1>1. cur \in Thread /\ Call = call[cur] /\ Call \in CallType
    BY DEF Typed, Shaped, Call
<1> QED BY <1>1 DEF CallType

\* The call goes on at another point, where it is not about to give a page.
LEMMA CallGoesOn ==
  ASSUME Typed, Quiet, cur' = cur, NEW c \in CallType, call' = [call EXCEPT ![cur] = c],
         c.at \notin {"new", "evict"}, first_page' = first_page, malloc_frame' = malloc_frame
  PROVE  /\ call' \in [Thread -> CallType] /\ Call' = c
         /\ \A t \in Thread \ {cur} : call'[t] = call[t]
         /\ SameOwners /\ Quiet' /\ SameVacant
         /\ \A t : Has(t)' <=> Has(t)
         /\ \A t \in Thread : \A k : Owned(t, k)' <=> Owned(t, k)
<1>1. /\ call' \in [Thread -> CallType]
      /\ call'[cur] = c /\ \A t \in Thread \ {cur} : call'[t] = call[t]
    BY CallNext
<1>2. Call' = c
    BY <1>1 DEF Call
<1>3. Quiet'
    BY <1>1 DEF Quiet, At
<1>4. SameVacant
    BY <1>3 DEF SameVacant, Quiet, Vacant
<1>5. SameOwners
    BY <1>1 DEF SameOwners, Quiet, At
<1> QED BY <1>1, <1>2, <1>3, <1>4, <1>5, OwnedKept

\* The other threads are where they were.
LEMMA OthersRest ==
  ASSUME Calls, cur' = cur, \A t \in Thread \ {cur} : call'[t] = call[t],
         \A t \in Thread : \A k : Owned(t, k) => Owned(t, k)'
  PROVE  /\ Resting'
         /\ \A t \in Thread \ {cur} :
              call'[t].at = "handler" => call'[t].i \in Frame /\ Owned(t, call[t].i)'
BY DEF Calls, Resting, AtHandler

\* The running thread is inside the manager, at a point of its own.
LEMMA AtPoint ==
  ASSUME Typed, Calls, cur' = cur, \A t \in Thread \ {cur} : call'[t] = call[t],
         \A t \in Thread : \A k : Owned(t, k) => Owned(t, k)',
         Call'.at \notin {"user", "handler", "unprotect"},
         AtLocate', AtLoad', AtChunk', AtTry', AtScan', AtTake', AtEvict', AtFree', Asked'
  PROVE  Calls' /\ Opened'
<1>1. /\ Resting'
      /\ \A t \in Thread \ {cur} :
           call'[t].at = "handler" => call'[t].i \in Frame /\ Owned(t, call[t].i)'
    BY OthersRest
<1>2. call'[cur].at \notin {"user", "handler", "unprotect"}
    BY DEF Call
<1>3. AtHandler'
    <2>1. ASSUME NEW t \in Thread, call'[t].at = "handler"
          PROVE  call'[t].i \in Frame /\ Owned(t, call[t].i)'
        BY <1>1, <1>2, <2>1
    <2> QED BY <1>2, <2>1 DEF AtHandler, At, Call
<1>4. Opened'
    BY <1>2 DEF Opened, At
<1> QED BY <1>1, <1>3, <1>4 DEF Calls

\* A call keeps asking for what it asked.
LEMMA AskedStill ==
  ASSUME Calls, Call.at \in MallocPoints, Call'.x = Call.x
  PROVE  Asked'
BY DEF Calls, Asked

\* All variables have their types again.
LEMMA TypedNext ==
  ASSUME MemoryTyped', call' \in [Thread -> CallType], page_counter' \in 0 .. TotalPages,
         first_page' \in [Thread -> Page \cup {NoPage}], malloc_frame' \in [Thread -> Place],
         current_page_meta' \in Page \cup {NoPage}, head' \in Place \cup {Null},
         mem_flag' \in BOOLEAN, open' \subseteq Frame, cur' \in Thread
  PROVE  Typed'
<1>1. \A t \in Thread : call'[t].at \in Points /\ call'[t].temp \in Page \cup {NoPage}
    BY DEF CallType
<1> QED BY <1>1 DEF Typed, Shaped, MemoryTyped

\* What a call relies on outlives a step that moves pages.
LEMMA RoomKept ==
  ASSUME Typed, Chained, Moved, SameOwners, cur' = cur, Has(cur)
  PROVE  /\ Has(cur)'
         /\ Room => Room'
         /\ FrontHere => FrontHere'
         /\ LastHere /\ call[cur].at # "new" => LastHere'
         /\ \A k : HeapHere(k) => HeapHere(k)'
<1>1. cur \in Thread /\ malloc_frame' = malloc_frame /\ \A j \in Place : <<cur, j>> \in Page
    BY PagePair DEF Typed, Shaped, SameOwners
<1>2. Owned(cur, 0) /\ 0 \in Place
    BY <1>1, OwnedFrames
<1>3. /\ page_counter' = page_counter /\ MetaKept
      /\ \A j \in Place : Owned(cur, j) /\ Here(j) => Here(j)'
    BY DEF Moved
<1>4. Has(cur)' /\ \A k : Owned(cur, k)' <=> Owned(cur, k)
    BY <1>1, OwnedKept
<1>5. Room => Room'
    BY <1>1, <1>3 DEF Room
<1>6. FrontHere => FrontHere'
    BY <1>1, <1>2, <1>3 DEF FrontHere, MetaKept
<1>7. LastHere /\ call[cur].at # "new" => LastHere'
    BY <1>1, <1>3, OwnedFrames DEF LastHere
<1>8. ASSUME NEW k, HeapHere(k) PROVE HeapHere(k)'
    <2>1. Owned(cur, k) /\ Here(k) /\ k \in Place /\ k \in Nat
        BY <1>1, <1>8, OwnedFrames DEF HeapHere
    <2>2. \A j \in Place : j < k => Owned(cur, j)
        BY <1>1, <2>1, OwnedFrames, Numbers
    <2>3. meta'[<<cur, k>>].front_meta = meta[<<cur, k>>].front_meta
        BY <1>1, <1>3, <2>1 DEF MetaKept
    <2>4. Owned(cur, k)' /\ Here(k)'
        BY <1>3, <1>4, <2>1
    <2>5. meta'[<<cur, k>>].front_meta # NoPage => \A j \in Place : j < k => Here(j)'
        BY <1>3, <1>8, <2>2, <2>3 DEF HeapHere
    <2> QED BY <1>1, <2>4, <2>5 DEF HeapHere
<1> QED BY <1>4, <1>5, <1>6, <1>7, <1>8

\* Locate brings the last page home.
LEMMA LocateKeeps ==
  ASSUME Inv, Locate
  PROVE  Inv' /\ Steady
<1>1. Typed /\ Placement /\ Structure /\ Chained /\ Calls
    BY DEF Inv, Structure
<1>2. /\ cur \in Thread /\ Call = call[cur] /\ Call \in CallType /\ Call.then \in {"try", "scanTry"}
    BY <1>1, CallFacts
<1>3. At("locate") /\ Has(cur) /\ Room /\ FrontHere /\ Call.then = "try"
    BY <1>1 DEF Locate, Calls, AtLocate
<1>4. Quiet
    BY <1>3 DEF Quiet, At
<1> PICK f : f = malloc_frame[cur]
    OBVIOUS
<1>5. f \in Nat /\ f \in Place /\ Owned(cur, f) /\ call[cur].at # "new"
    <2>1. call[cur].at # "new"
        BY <1>3 DEF At
    <2> QED BY <1>1, <1>2, <1>3, <2>1, OwnedFrames
<1>6. LastPage(cur) = <<cur, f>>
    BY <1>1, <1>2, <1>3, <1>5, LastPageFound
<1>7. Resident(cur, f) <=> Here(f)
    BY <1>1, <1>4, <1>5, ResidentHere
<1>8. <<cur, f>> \in Page
    BY <1>2, <1>5, PagePair
<1> DEFINE c == [Call EXCEPT !.at = "load", !.temp = <<cur, f>>]
<1>9. c \in CallType /\ c.at = "load" /\ c.temp = <<cur, f>> /\ c.then = "try" /\ c.x = Call.x
    BY <1>2, <1>3, <1>8 DEF CallType, Points
<1>10. call' = [call EXCEPT ![cur] = c]
    <2>1. (IF Resident(cur, f) THEN frame_table[f] ELSE LastPage(cur)) = <<cur, f>>
        BY <1>6, <1>7 DEF Here
    <2>2. call' = [call EXCEPT ![cur].at = "load", ![cur].temp = <<cur, f>>]
        BY <2>1 DEF Locate
    <2> QED BY <1>2, <2>2
<1>11. first_page' = first_page /\ malloc_frame' = malloc_frame /\ cur' = cur
    BY DEF Locate, threads
<1> HIDE DEF c
<1>12. /\ call' \in [Thread -> CallType] /\ Call' = c
       /\ \A t \in Thread \ {cur} : call'[t] = call[t]
       /\ SameOwners /\ Quiet' /\ SameVacant
       /\ \A t : Has(t)' <=> Has(t)
       /\ \A t \in Thread : \A k : Owned(t, k)' <=> Owned(t, k)
    BY <1>1, <1>4, <1>9, <1>10, <1>11, CallGoesOn
<1>13. Moved /\ Here(f)'
    <2>1. PICK d : d = Where(<<cur, f>>)
        OBVIOUS
    <2>2. IF Here(f) THEN UNCHANGED pages ELSE Exchange(f, d)
        BY <1>6, <1>7, <2>1 DEF Locate, Where
    <2> QED BY <1>1, <1>4, <1>5, <1>11, <1>12, <2>1, <2>2, BroughtHome
<1>14. Typed'
    <2>1. MemoryTyped' /\ page_counter' = page_counter
        BY <1>13 DEF Moved
    <2>2. mem_flag' \in BOOLEAN /\ open' \subseteq Frame
        BY <1>1 DEF Locate, SwapDone, Typed, Shaped
    <2>3. current_page_meta' = current_page_meta /\ head' = head
        BY DEF Locate
    <2> QED BY <1>1, <1>11, <1>12, <2>1, <2>2, <2>3, TypedNext DEF Typed, Shaped
<1>15. Room' /\ FrontHere' /\ LastHere' /\ Has(cur)'
    <2>1. Room' /\ FrontHere' /\ Has(cur)'
        BY <1>1, <1>3, <1>11, <1>12, <1>13, RoomKept
    <2> QED BY <1>11, <1>13, <2>1 DEF LastHere
<1>16. Calls' /\ Opened'
    <2>1. Call'.at = "load" /\ Call'.temp = <<cur, f>> /\ Call'.then = "try"
        BY <1>9, <1>12
    <2>2. AtLoad'
        BY <1>11, <1>15, <2>1 DEF AtLoad
    <2>3. AtLocate' /\ AtChunk' /\ AtTry' /\ AtScan' /\ AtTake' /\ AtEvict' /\ AtFree'
        BY <2>1 DEF AtLocate, AtChunk, AtTry, AtScan, AtTake, AtEvict, AtFree, At, Call
    <2>4. Asked'
        BY <1>1, <1>3, <1>9, <1>12, AskedStill DEF MallocPoints, At, Call
    <2> QED BY <1>1, <1>11, <1>12, <2>1, <2>2, <2>3, <2>4, AtPoint
<1> QED BY <1>12, <1>13, <1>14, <1>16 DEF Inv, Steady, Moved

\* The first page of a chunk is of it.
LEMMA ChunkFront ==
  ASSUME Typed, Structure, NEW t \in Thread, NEW k, Owned(t, k), meta[<<t, k>>].front_meta # NoPage
  PROVE  /\ meta[<<t, k>>].front_meta = <<t, 0>>
         /\ meta[<<t, 0>>].front_meta # NoPage /\ Owned(t, 0)
<1>1. k \in Place /\ k \in Nat /\ Owned(t, 0) /\ 0 \in Place
    BY OwnedFrames DEF Structure
<1>2. meta[<<t, k>>].front_meta = <<t, 0>>
    BY <1>1 DEF Structure, Blocked
<1>3. CASE k = 0
    BY <1>1, <1>2, <1>3
<1>4. CASE k # 0
    <2>1. 0 < k
        BY <1>1, <1>4, SMT
    <2> QED BY <1>1, <1>2, <2>1 DEF Structure, Blocked
<1> QED BY <1>3, <1>4

\* The page of the running thread that is loaded, or whose chunk is.
LEMMA LoadedPage ==
  ASSUME Inv, At("load"), NEW p, p = IF Call.then = "try" THEN Call.temp ELSE current_page_meta
  PROVE  \E c \in Place :
           /\ p = <<cur, c>> /\ Owned(cur, c) /\ Here(c)
           /\ Call.then = "try" => c = malloc_frame[cur]
           /\ Call.then = "scanTry" => c = Call.counter /\ Call.temp = <<cur, c>>
<1>1. Typed /\ Chained /\ AtLoad
    BY DEF Inv, Structure, Calls
<1>2. cur \in Thread /\ Call.then \in {"try", "scanTry"}
    BY <1>1, CallFacts
<1>3. CASE Call.then = "try"
    <2>1. Has(cur) /\ call[cur].at # "new" /\ LastHere
        BY <1>1 DEF AtLoad, At
    <2>2. Owned(cur, malloc_frame[cur]) /\ malloc_frame[cur] \in Place
        BY <1>1, <1>2, <2>1, OwnedFrames
    <2> QED BY <1>1, <1>3, <2>1, <2>2 DEF AtLoad, LastHere
<1>4. CASE Call.then = "scanTry"
    <2>1. Call.counter \in Place
        BY <1>1, <1>2, <1>4, OwnedFrames DEF AtLoad
    <2> QED BY <1>1, <1>4, <2>1 DEF AtLoad
<1> QED BY <1>2, <1>3, <1>4

\* The call goes on with the heap, when the page and its chunk are at home.
LEMMA GoesToHeap ==
  ASSUME Typed, Structure, Calls, cur' = cur, Quiet, NEW c \in Place, current_page_meta' = <<cur, c>>,
         HeapHere(c)', Call.then \in {"try", "scanTry"}, Goto(Call.then),
         \A t \in Thread : \A k : Owned(t, k)' <=> Owned(t, k),
         Call.then = "try" => c = malloc_frame'[cur],
         Call.then = "scanTry" => c = Call.counter /\ Call.temp = <<cur, c>>,
         head' = meta'[<<cur, c>>].head, Has(cur)', Room', FrontHere', LastHere',
         Call.at \in MallocPoints
  PROVE  Calls' /\ Opened'
<1>1. Call \in CallType /\ cur \in Thread /\ Call = call[cur]
    BY CallFacts
<1> DEFINE d == [Call EXCEPT !.at = Call.then]
<1>2. /\ d \in CallType /\ d.at = Call.then /\ d.then = Call.then /\ d.temp = Call.temp
      /\ d.counter = Call.counter /\ d.x = Call.x
    BY <1>1 DEF CallType, Points
<1>3. call' = [call EXCEPT ![cur] = d]
    BY <1>1 DEF Goto
<1> HIDE DEF d
<1>4. Call' = d /\ \A t \in Thread \ {cur} : call'[t] = call[t]
    BY <1>2, <1>3, CallNext DEF Call
<1>5. Call'.at = Call.then /\ Call'.then = Call.then /\ Call'.temp = Call.temp /\ Call'.counter = Call.counter
    BY <1>2, <1>4
<1>6. AtTry'
    BY <1>5 DEF AtTry, At, Call
<1>7. AtScan'
    BY <1>5 DEF AtScan, At, Call
<1>8. AtLocate' /\ AtLoad' /\ AtChunk' /\ AtTake' /\ AtEvict' /\ AtFree'
    BY <1>5 DEF AtLocate, AtLoad, AtChunk, AtTake, AtEvict, AtFree, At, Call
<1>9. Asked'
    BY <1>2, <1>4, AskedStill
<1> QED BY <1>4, <1>5, <1>6, <1>7, <1>8, <1>9, AtPoint

\* Load takes the page for the current one, and looks at its chunk if it has one.
LEMMA LoadKeeps ==
  ASSUME Inv, Load
  PROVE  Inv' /\ Steady
<1>1. Typed /\ Placement /\ Structure /\ Chained /\ Calls
    BY DEF Inv, Structure
<1>2. /\ cur \in Thread /\ Call = call[cur] /\ Call \in CallType /\ Call.then \in {"try", "scanTry"}
    BY <1>1, CallFacts
<1>3. At("load") /\ Has(cur) /\ Room /\ FrontHere /\ LastHere
    BY <1>1 DEF Load, Calls, AtLoad
<1>4. Quiet /\ call[cur].at # "new" /\ Call.at \in MallocPoints
    BY <1>3 DEF Quiet, At, MallocPoints, Call
<1> PICK p : p = IF Call.then = "try" THEN Call.temp ELSE current_page_meta
    OBVIOUS
<1>5. PICK c \in Place :
           /\ p = <<cur, c>> /\ Owned(cur, c) /\ Here(c)
           /\ Call.then = "try" => c = malloc_frame[cur]
           /\ Call.then = "scanTry" => c = Call.counter /\ Call.temp = <<cur, c>>
    BY <1>3, LoadedPage
<1> PICK front : front = meta[p].front_meta
    OBVIOUS
<1>6. /\ current_page_meta' = p
      /\ IF front = NoPage
         THEN Goto(Call.then) /\ head' = meta[p].head
         ELSE /\ call' = [call EXCEPT ![cur].at = "chunk", ![cur].swap_ptr = front,
                                      ![cur].i = meta[front].page_frame]
              /\ UNCHANGED head
      /\ UNCHANGED <<pages, threads, mem_flag, open, cur>>
    BY DEF Load
<1>7. /\ cur' = cur /\ first_page' = first_page /\ malloc_frame' = malloc_frame
      /\ mem_flag' = mem_flag /\ open' = open
    BY <1>6 DEF threads
<1>8. <<cur, c>> \in Page /\ meta[<<cur, c>>] \in AnyMeta
    BY <1>1, <1>2, <1>5, PagePair DEF Typed, Shaped
<1> DEFINE n == IF front = NoPage THEN [Call EXCEPT !.at = Call.then]
                ELSE [Call EXCEPT !.at = "chunk", !.swap_ptr = front, !.i = 0]
<1>9. front # NoPage => /\ front = <<cur, 0>> /\ Here(0) /\ meta[front].page_frame = 0 /\ front \in Page
    <2>1. SUFFICES ASSUME front # NoPage
                   PROVE  front = <<cur, 0>> /\ Here(0) /\ meta[front].page_frame = 0 /\ front \in Page
        OBVIOUS
    <2>2. front = <<cur, 0>> /\ meta[<<cur, 0>>].front_meta # NoPage /\ Owned(cur, 0)
        BY <1>1, <1>2, <1>5, <2>1, ChunkFront
    <2>3. Here(0) /\ 0 \in Place
        BY <1>1, <1>2, <1>3, <2>2, OwnedFrames DEF FrontHere
    <2>4. Where(frame_table[0]) = 0 /\ frame_table[0] \in Page
        BY <1>1, <1>2, <1>4, <2>2, <2>3, InHome
    <2> QED BY <2>2, <2>3, <2>4 DEF Here, Where
<1>10. /\ n \in CallType /\ n.at = IF front = NoPage THEN Call.then ELSE "chunk"
       /\ n.then = Call.then /\ n.temp = Call.temp /\ n.counter = Call.counter /\ n.x = Call.x
       /\ front # NoPage => n.swap_ptr = <<cur, 0>> /\ n.i = 0
    BY <1>2, <1>9 DEF CallType, Points
<1>11. call' = [call EXCEPT ![cur] = n]
    <2>1. CASE front = NoPage
        BY <1>2, <1>6, <2>1 DEF Goto
    <2>2. CASE front # NoPage
        BY <1>2, <1>6, <1>9, <2>2
    <2> QED BY <2>1, <2>2
<1>12. n.at \notin {"new", "evict"}
    BY <1>2, <1>10
<1> HIDE DEF n
<1>13. /\ call' \in [Thread -> CallType] /\ Call' = n
       /\ \A t \in Thread \ {cur} : call'[t] = call[t]
       /\ SameOwners /\ Quiet' /\ SameVacant
       /\ \A t : Has(t)' <=> Has(t)
       /\ \A t \in Thread : \A k : Owned(t, k)' <=> Owned(t, k)
    BY <1>1, <1>4, <1>7, <1>10, <1>11, <1>12, CallGoesOn
<1>14. Moved
    BY <1>1, <1>6, <1>7, <1>13, NothingMoved
<1>15. Has(cur)' /\ Room' /\ FrontHere' /\ LastHere'
    BY <1>1, <1>3, <1>4, <1>7, <1>13, <1>14, RoomKept
<1>16. Typed'
    <2>1. MemoryTyped' /\ page_counter' = page_counter
        BY <1>14 DEF Moved
    <2>2. current_page_meta' \in Page \cup {NoPage} /\ head' \in Place \cup {Null}
        <3>1. head' \in {head, meta[p].head}
            BY <1>6
        <3> QED BY <1>1, <1>5, <1>6, <1>8, <3>1 DEF AnyMeta, Typed, Shaped
    <2> QED BY <1>1, <1>7, <1>13, <2>1, <2>2, TypedNext DEF Typed, Shaped
<1>17. Here(c)' /\ Owned(cur, c)' /\ meta' = meta
    BY <1>5, <1>6, <1>13, <1>2, <1>14 DEF Moved, pages
<1>18. CASE front = NoPage
    <2>1. HeapHere(c)'
        BY <1>5, <1>7, <1>17, <1>18 DEF HeapHere
    <2>2. Goto(Call.then) /\ head' = meta'[<<cur, c>>].head /\ current_page_meta' = <<cur, c>>
        BY <1>5, <1>6, <1>17, <1>18
    <2>3. Call.then = "try" => c = malloc_frame'[cur]
        BY <1>5, <1>7
    <2>4. Calls' /\ Opened'
        BY <1>1, <1>2, <1>4, <1>5, <1>7, <1>13, <1>15, <2>1, <2>2, <2>3, GoesToHeap
    <2> QED BY <1>13, <1>14, <1>16, <2>4 DEF Inv, Steady, Moved
<1>19. CASE front # NoPage
    <2>1. /\ Call'.at = "chunk" /\ Call'.then = Call.then /\ Call'.temp = Call.temp
          /\ Call'.counter = Call.counter /\ Call'.swap_ptr = <<cur, 0>> /\ Call'.i = 0
        BY <1>10, <1>13, <1>19
    <2>2. AtChunk'
        <3>1. 0 <= c /\ \A j \in Place : ~(j < 0)
            BY Numbers, SMT
        <3>2. /\ current_page_meta' = <<cur, c>> /\ meta'[<<cur, c>>].front_meta # NoPage
            BY <1>5, <1>6, <1>17, <1>19
        <3> QED BY <1>5, <1>7, <1>15, <1>17, <2>1, <3>1, <3>2 DEF AtChunk
    <2>3. AtLocate' /\ AtLoad' /\ AtTry' /\ AtScan' /\ AtTake' /\ AtEvict' /\ AtFree'
        BY <2>1 DEF AtLocate, AtLoad, AtTry, AtScan, AtTake, AtEvict, AtFree, At, Call
    <2>4. Asked'
        BY <1>1, <1>4, <1>10, <1>13, AskedStill
    <2>5. Calls' /\ Opened'
        BY <1>1, <1>7, <1>13, <2>1, <2>2, <2>3, <2>4, AtPoint
    <2> QED BY <1>13, <1>14, <1>16, <2>5 DEF Inv, Steady, Moved
<1> QED BY <1>18, <1>19

\* LoadChunk brings one page of the chunk home, or goes on with the heap.
LEMMA LoadChunkKeeps ==
  ASSUME Inv, LoadChunk
  PROVE  Inv' /\ Steady
<1>1. Typed /\ Placement /\ Structure /\ Chained /\ Calls
    BY DEF Inv, Structure
<1>2. /\ cur \in Thread /\ Call = call[cur] /\ Call \in CallType /\ Call.then \in {"try", "scanTry"}
      /\ Call.i \in Nat
    BY <1>1, CallFacts
<1>3. At("chunk") /\ Has(cur) /\ Room /\ FrontHere /\ LastHere
    BY <1>1 DEF LoadChunk, Calls, AtChunk
<1>4. Quiet /\ call[cur].at # "new" /\ Call.at \in MallocPoints
    BY <1>3 DEF Quiet, At, MallocPoints, Call
<1>5. PICK c \in Place :
        /\ current_page_meta = <<cur, c>> /\ Owned(cur, c) /\ Here(c)
        /\ meta[<<cur, c>>].front_meta # NoPage
        /\ Call.i <= c /\ Call.swap_ptr = <<cur, Call.i>>
        /\ \A j \in Place : j < Call.i => Here(j)
        /\ Call.then = "try" => c = malloc_frame[cur]
        /\ Call.then = "scanTry" => c = Call.counter /\ Call.temp = <<cur, c>>
    BY <1>1, <1>3 DEF Calls, AtChunk
<1> PICK i : i = Call.i
    OBVIOUS
<1>6. meta[current_page_meta].page_frame = c
    <2>1. Where(frame_table[c]) = c
        BY <1>1, <1>2, <1>4, <1>5, InHome
    <2> QED BY <1>5, <2>1 DEF Here, Where
<1>7. /\ IF i < c
         THEN /\ IF frame_table[i] = <<cur, i>>
                 THEN UNCHANGED <<pages, mem_flag, open>>
                 ELSE Exchange(i, meta[<<cur, i>>].page_frame) /\ SwapDone
              /\ call' = [call EXCEPT ![cur].i = @ + 1, ![cur].swap_ptr = meta[<<cur, i>>].next]
              /\ UNCHANGED head
         ELSE /\ Goto(Call.then) /\ head' = meta[current_page_meta].head
              /\ UNCHANGED <<pages, mem_flag, open>>
      /\ UNCHANGED <<threads, current_page_meta, cur>>
    BY <1>5, <1>6 DEF LoadChunk
<1>8. /\ cur' = cur /\ first_page' = first_page /\ malloc_frame' = malloc_frame
      /\ current_page_meta' = current_page_meta
    BY <1>7 DEF threads
<1>9. i \in Nat /\ i \in Place /\ Owned(cur, i) /\ c \in Nat /\ i <= c
    BY <1>1, <1>2, <1>5, Numbers, OwnedFrames
<1>10. mem_flag' \in BOOLEAN /\ open' \subseteq Frame
    BY <1>1, <1>7 DEF SwapDone, Typed, Shaped
<1>11. CASE i < c
    <2>1. Owned(cur, i + 1) /\ i + 1 \in Nat /\ i + 1 <= c /\ i + 1 \in Place
        <3>1. i + 1 \in Nat /\ i + 1 <= c
            BY <1>9, <1>11, SMT
        <3> QED BY <1>1, <1>2, <1>5, <1>9, <3>1, OwnedFrames
    <2>2. meta[<<cur, i>>].next = <<cur, i + 1>> /\ <<cur, i + 1>> \in Page
        BY <1>1, <1>2, <1>9, <2>1, PagePair DEF Chained
    <2> DEFINE n == [Call EXCEPT !.i = i + 1, !.swap_ptr = <<cur, i + 1>>]
    <2>3. /\ n \in CallType /\ n.at = "chunk" /\ n.then = Call.then /\ n.temp = Call.temp
          /\ n.counter = Call.counter /\ n.x = Call.x /\ n.i = i + 1 /\ n.swap_ptr = <<cur, i + 1>>
        BY <1>2, <1>3, <2>1, <2>2 DEF CallType, At
    <2>4. call' = [call EXCEPT ![cur] = n]
        BY <1>2, <1>7, <1>11, <2>2
    <2> HIDE DEF n
    <2>5. /\ call' \in [Thread -> CallType] /\ Call' = n
          /\ \A t \in Thread \ {cur} : call'[t] = call[t]
          /\ SameOwners /\ Quiet' /\ SameVacant
          /\ \A t : Has(t)' <=> Has(t)
          /\ \A t \in Thread : \A k : Owned(t, k)' <=> Owned(t, k)
        BY <1>1, <1>4, <1>8, <2>3, <2>4, CallGoesOn
    <2>6. Moved /\ Here(i)'
        <3>1. PICK d : d = Where(<<cur, i>>)
            OBVIOUS
        <3>2. IF Here(i) THEN UNCHANGED pages ELSE Exchange(i, d)
            BY <1>7, <1>11, <3>1 DEF Here, Where
        <3> QED BY <1>1, <1>4, <1>8, <1>9, <2>5, <3>1, <3>2, BroughtHome
    <2>7. Has(cur)' /\ Room' /\ FrontHere' /\ LastHere'
        BY <1>1, <1>3, <1>4, <1>8, <2>5, <2>6, RoomKept
    <2>8. Typed'
        <3>1. MemoryTyped' /\ page_counter' = page_counter
            BY <2>6 DEF Moved
        <3>2. head' = head
            BY <1>7, <1>11
        <3> QED BY <1>1, <1>8, <1>10, <2>5, <3>1, <3>2, TypedNext DEF Typed, Shaped
    <2>9. AtChunk'
        <3>1. Here(c)' /\ Owned(cur, c)'
            BY <1>2, <1>5, <1>8, <2>5, <2>6 DEF Moved
        <3>2. ASSUME NEW j \in Place, j < i + 1 PROVE Here(j)'
            <4>1. CASE j = i
                BY <2>6, <4>1
            <4>2. CASE j # i
                <5>1. j < i /\ j <= c /\ j \in Nat
                    BY <1>9, <3>2, <4>2, Numbers, SMT
                <5>2. Owned(cur, j) /\ Here(j)
                    BY <1>1, <1>2, <1>5, <1>9, <5>1, OwnedFrames
                <5> QED BY <2>6, <5>2 DEF Moved
            <4> QED BY <4>1, <4>2
        <3>3. meta'[<<cur, c>>].front_meta # NoPage
            BY <1>2, <1>5, <2>6, PagePair DEF Moved, MetaKept
        <3>4. /\ Call'.at = "chunk" /\ Call'.then = Call.then /\ Call'.temp = Call.temp
              /\ Call'.counter = Call.counter /\ Call'.i = i + 1 /\ Call'.swap_ptr = <<cur, i + 1>>
            BY <2>3, <2>5
        <3> QED BY <1>5, <1>8, <2>1, <2>7, <3>1, <3>2, <3>3, <3>4 DEF AtChunk
    <2>10. Call'.at = "chunk"
        BY <2>3, <2>5
    <2>11. AtLocate' /\ AtLoad' /\ AtTry' /\ AtScan' /\ AtTake' /\ AtEvict' /\ AtFree'
        BY <2>10 DEF AtLocate, AtLoad, AtTry, AtScan, AtTake, AtEvict, AtFree, At, Call
    <2>12. Asked'
        BY <1>1, <1>4, <2>3, <2>5, AskedStill
    <2>13. Calls' /\ Opened'
        BY <1>1, <1>8, <2>5, <2>9, <2>10, <2>11, <2>12, AtPoint
    <2> QED BY <2>5, <2>6, <2>8, <2>13 DEF Inv, Steady, Moved
<1>12. CASE ~(i < c)
    <2>1. i = c
        BY <1>9, <1>12, SMT
    <2> DEFINE n == [Call EXCEPT !.at = Call.then]
    <2>2. n \in CallType /\ n.at \notin {"new", "evict"}
        BY <1>2 DEF CallType, Points
    <2>3. call' = [call EXCEPT ![cur] = n]
        BY <1>2, <1>7, <1>12 DEF Goto
    <2> HIDE DEF n
    <2>4. /\ call' \in [Thread -> CallType] /\ Call' = n
          /\ \A t \in Thread \ {cur} : call'[t] = call[t]
          /\ SameOwners /\ Quiet' /\ SameVacant
          /\ \A t : Has(t)' <=> Has(t)
          /\ \A t \in Thread : \A k : Owned(t, k)' <=> Owned(t, k)
        BY <1>1, <1>4, <1>8, <2>2, <2>3, CallGoesOn
    <2>5. UNCHANGED pages /\ Goto(Call.then) /\ head' = meta[<<cur, c>>].head /\ mem_flag' = mem_flag /\ open' = open
        BY <1>5, <1>7, <1>12
    <2>6. Moved
        BY <1>1, <1>8, <2>4, <2>5, NothingMoved
    <2>7. Has(cur)' /\ Room' /\ FrontHere' /\ LastHere'
        BY <1>1, <1>3, <1>4, <1>8, <2>4, <2>6, RoomKept
    <2>8. HeapHere(c)'
        <3>1. HeapHere(c)
            BY <1>5, <2>1 DEF HeapHere
        <3> QED BY <1>1, <1>3, <1>8, <2>4, <2>6, <3>1, RoomKept
    <2>9. Typed'
        <3>1. MemoryTyped' /\ page_counter' = page_counter
            BY <2>6 DEF Moved
        <3>2. meta[<<cur, c>>] \in AnyMeta
            BY <1>1, <1>2, PagePair DEF Typed, Shaped
        <3>3. head' \in Place \cup {Null}
            BY <2>5, <3>2 DEF AnyMeta
        <3> QED BY <1>1, <1>8, <1>10, <2>4, <3>1, <3>3, TypedNext DEF Typed, Shaped
    <2>10. Calls' /\ Opened'
        <3>1. meta' = meta
            BY <2>5 DEF pages
        <3>2. Call.then = "try" => c = malloc_frame'[cur]
            BY <1>5, <1>8
        <3> QED BY <1>1, <1>2, <1>4, <1>5, <1>8, <2>4, <2>5, <2>7, <2>8, <3>1, <3>2, GoesToHeap
    <2> QED BY <2>4, <2>6, <2>9, <2>10 DEF Inv, Steady, Moved
<1> QED BY <1>11, <1>12

-----------------------------------------------------------------------------
(* Steps that change a page.                                               *)

\* One page of the running thread has another content now, and nothing else changed.
Wrote ==
  \E h \in Place :
    /\ Owned(cur, h) /\ ContentOf(<<cur, h>>)' \in AnyContent
    /\ \A r \in Page : /\ Given(r)' <=> Given(r)
                       /\ Given(r) /\ r # <<cur, h>> => ContentOf(r)' = ContentOf(r)

\* The page c of the running thread and the page where its heap begins are at home.
Ready(c) == Owned(cur, c) /\ Here(c) /\ (meta[<<cur, c>>].front_meta # NoPage => Here(0))

\* The frame where the heap begins that page c answers for, or may begin one.
HeapOf(c, h) ==
  h = meta[<<cur, c>>].head \/ (meta[<<cur, c>>].head = Null /\ meta[<<cur, c>>].front_meta = NoPage /\ h = c)

\* What is left of the metadata, but for the head and the free count of page c.
SavedAt(c, h, free) ==
  /\ meta'[<<cur, c>>].head = h /\ meta'[<<cur, c>>].free_page_mem = free
  /\ \A r \in Page : /\ meta'[r].page_frame = meta[r].page_frame /\ meta'[r].next = meta[r].next
                     /\ meta'[r].front_meta = meta[r].front_meta
  /\ \A r \in Page : r # <<cur, c>> => meta'[r] = meta[r]

\* The heap that a page answers for begins in the page itself or in the first.
LEMMA HeapBegins ==
  ASSUME Typed, Structure, NEW c, NEW h, Ready(c), HeapOf(c, h), h # Null
  PROVE  /\ c \in Place /\ h \in Place /\ Owned(cur, h) /\ Here(h)
         /\ meta[<<cur, c>>].front_meta = NoPage => h = c
         /\ meta[<<cur, c>>].front_meta # NoPage => h = 0 /\ h # c
<1>1. cur \in Thread /\ Chained /\ Blocked
    BY DEF Typed, Shaped, Structure
<1>2. c \in Place /\ c \in Nat /\ Owned(cur, 0) /\ 0 \in Place
    BY <1>1, OwnedFrames DEF Ready
<1>3. CASE meta[<<cur, c>>].front_meta = NoPage
    <2>1. h = c
        BY <1>1, <1>2, <1>3 DEF Blocked, Ready, HeapOf
    <2> QED BY <1>2, <1>3, <2>1 DEF Ready
<1>4. CASE meta[<<cur, c>>].front_meta # NoPage
    <2>1. h = 0 /\ c > 0
        BY <1>1, <1>2, <1>4 DEF Blocked, Ready, HeapOf
    <2> QED BY <1>2, <1>4, <2>1 DEF Ready
<1> QED BY <1>3, <1>4

\* Two pages of a thread do not answer for the same heap.
LEMMA HeapsApart ==
  ASSUME Typed, Structure, NEW t \in Thread, NEW j, NEW k, Owned(t, j), Owned(t, k), j # k,
         meta[<<t, k>>].head # Null
  PROVE  /\ meta[<<t, j>>].head # meta[<<t, k>>].head
         /\ meta[<<t, j>>].front_meta = NoPage => meta[<<t, k>>].head # j
<1>1. j \in Place /\ k \in Place /\ j \in Nat /\ k \in Nat /\ Blocked /\ 0 \in Place
    BY OwnedFrames, Numbers DEF Structure
<1> DEFINE m == meta[<<t, j>>]
           n == meta[<<t, k>>]
<1>2. /\ m.front_meta = NoPage => m.head \in {Null, j}
      /\ m.front_meta # NoPage /\ m.head # Null => m.head = 0 /\ j > 0
      /\ m.front_meta # NoPage =>
           \A i \in Place : i < j => meta[<<t, i>>].front_meta # NoPage /\ meta[<<t, i>>].head = Null
    BY <1>1 DEF Blocked
<1>3. /\ n.front_meta = NoPage => n.head \in {Null, k}
      /\ n.front_meta # NoPage /\ n.head # Null => n.head = 0 /\ k > 0
      /\ n.front_meta # NoPage =>
           \A i \in Place : i < k => meta[<<t, i>>].front_meta # NoPage /\ meta[<<t, i>>].head = Null
    BY <1>1 DEF Blocked
<1>4. m.front_meta = NoPage => n.head # j
    <2>1. SUFFICES ASSUME m.front_meta = NoPage, n.head = j PROVE FALSE
        OBVIOUS
    <2>2. n.front_meta # NoPage /\ j = 0 /\ k > 0
        BY <1>3, <2>1
    <2> QED BY <1>1, <1>3, <2>1, <2>2
<1>5. m.head # n.head
    <2>1. SUFFICES ASSUME m.head = n.head PROVE FALSE
        OBVIOUS
    <2>2. m.head # Null
        BY <2>1
    <2>3. m.front_meta # NoPage /\ m.head = 0 /\ j > 0
        BY <1>2, <1>4, <2>1, <2>2
    <2>4. CASE n.front_meta = NoPage
        BY <1>1, <1>2, <1>3, <2>1, <2>2, <2>3, <2>4
    <2>5. CASE n.front_meta # NoPage
        <3>1. j < k \/ k < j
            BY <1>1, SMT
        <3> QED BY <1>1, <1>2, <1>3, <2>2, <2>3, <2>5, <3>1
    <2> QED BY <2>4, <2>5
<1> QED BY <1>4, <1>5

\* A page of the running thread that is at home is the only one whose content is in
\* its frame.
LEMMA FrameOwn ==
  ASSUME Typed, Placement, Quiet, NEW h \in Place, Owned(cur, h), Here(h)
  PROVE  /\ <<cur, h>> \in Page /\ Given(<<cur, h>>) /\ Where(<<cur, h>>) = h
         /\ ContentOf(<<cur, h>>) = mem[h]
         /\ \A r \in Page : Given(r) /\ r # <<cur, h>> => Where(r) # h
<1>1. cur \in Thread
    BY DEF Typed, Shaped
<1>2. <<cur, h>> \in Page /\ Given(<<cur, h>>) /\ Where(<<cur, h>>) = h
    BY <1>1, InHome DEF Here
<1>3. ContentOf(<<cur, h>>) = mem[h]
    BY <1>2, ContentWhere
<1>4. \A r \in Page : Given(r) /\ r # <<cur, h>> => Where(r) # h
    BY <1>2 DEF Placement, Apart
<1> QED BY <1>2, <1>3, <1>4

\* A step that changes memory in one frame only, where a page of the running thread is
\* at home, changes that page only.
LEMMA OneFrame ==
  ASSUME Typed, Placement, Quiet, NEW h \in Place, Owned(cur, h), Here(h), disk' = disk, cur' = cur,
         NEW c \in AnyContent, mem' = [mem EXCEPT ![h] = c],
         \A r \in Page : meta'[r].page_frame = meta[r].page_frame
  PROVE  /\ mem' \in [Place -> AnyContent] /\ mem'[h] = c /\ ContentOf(<<cur, h>>)' = c
         /\ \A r \in Page : Given(r)' <=> Given(r)
         /\ \A r \in Page : Given(r) /\ r # <<cur, h>> => ContentOf(r)' = ContentOf(r)
         /\ Wrote
<1>1. mem \in [Place -> AnyContent]
    BY DEF Typed, Shaped
<1>2. mem' \in [Place -> AnyContent] /\ mem'[h] = c /\ \A f \in Place \ {h} : mem'[f] = mem[f]
    BY <1>1
<1>3. /\ <<cur, h>> \in Page /\ Given(<<cur, h>>) /\ Where(<<cur, h>>) = h
      /\ \A r \in Page : Given(r) /\ r # <<cur, h>> => Where(r) # h
    BY FrameOwn
<1>4. \A r \in Page : Given(r)' <=> Given(r)
    BY DEF Given
<1>5. ASSUME NEW r \in Page, Given(r)
      PROVE  /\ Where(r) \in Nat /\ meta'[r].page_frame = Where(r)
             /\ Where(r) \in Place => ContentOf(r)' = mem'[Where(r)] /\ ContentOf(r) = mem[Where(r)]
             /\ Where(r) \notin Place => ContentOf(r)' = ContentOf(r)
    <2>1. Where(r) \in Nat /\ meta'[r].page_frame = Where(r)
        BY <1>5, GivenWhere DEF Where
    <2>2. CASE Where(r) \in Place
        BY <1>5, <2>1, <2>2, ContentWhere, ContentWhereNext
    <2>3. CASE Where(r) \notin Place
        <3>1. ContentOf(r)' = Read(Offset(Where(r)))' /\ ContentOf(r) = Read(Offset(Where(r)))
            BY <1>5, <2>1, <2>3, ContentWhere, ContentWhereNext DEF Where
        <3> QED BY <2>1, <2>3, <3>1 DEF Read, Where
    <2> QED BY <2>1, <2>2, <2>3
<1>6. ContentOf(<<cur, h>>)' = c
    <2>1. PICK r \in Page : r = <<cur, h>> /\ Given(r) /\ Where(r) = h
        BY <1>3
    <2>2. ContentOf(r)' = c
        BY <1>2, <1>5, <2>1
    <2> QED BY <2>1, <2>2 DEF ContentOf
<1>7. \A r \in Page : Given(r) /\ r # <<cur, h>> => ContentOf(r)' = ContentOf(r)
    BY <1>2, <1>3, <1>5
<1> QED BY <1>2, <1>4, <1>6, <1>7 DEF Wrote

\* The heap of a page is left with so much free.
LEMMA SaveKeeps ==
  ASSUME Typed, Placement, Structure, Quiet, Quiet', SameOwners, SameVacant, cur' = cur,
         NEW c, NEW h, NEW free \in Int, Ready(c), HeapOf(c, h), h # Null,
         Save(<<cur, c>>, h, free), UNCHANGED <<disk, frame_table, page_counter>>
  PROVE  /\ Placement' /\ Structure' /\ MemoryTyped' /\ SavedAt(c, h, free)
         /\ Wrote /\ (Sound /\ free \in 0 .. PageUnits => Sound')
<1>1. /\ c \in Place /\ h \in Place /\ Owned(cur, h) /\ Here(h)
      /\ meta[<<cur, c>>].front_meta = NoPage => h = c
      /\ meta[<<cur, c>>].front_meta # NoPage => h = 0 /\ h # c
    BY HeapBegins
<1>2. cur \in Thread /\ mem[h] \in AnyContent /\ meta \in [Page -> AnyMeta] /\ Chained /\ Blocked
    BY <1>1 DEF Typed, Shaped, Structure
<1> PICK p : p = <<cur, c>>
    OBVIOUS
<1>3. p \in Page
    BY <1>1, <1>2, PagePair
<1> DEFINE n == [mem[h] EXCEPT !.free = free]
           m == [meta[p] EXCEPT !.head = h, !.free_page_mem = free]
<1>4. n \in AnyContent /\ n.free = free
    BY <1>2 DEF AnyContent
<1>5. /\ m \in AnyMeta /\ m.head = h /\ m.free_page_mem = free /\ m.page_frame = meta[p].page_frame
      /\ m.next = meta[p].next /\ m.front_meta = meta[p].front_meta
    BY <1>1, <1>2, <1>3 DEF AnyMeta
<1>6. mem' = [mem EXCEPT ![h] = n] /\ meta' = [meta EXCEPT ![p] = m]
    BY DEF Save
<1>7. disk' = disk /\ frame_table' = frame_table /\ page_counter' = page_counter
    OBVIOUS
<1> HIDE DEF n, m
<1>8. meta' \in [Page -> AnyMeta] /\ meta'[p] = m /\ \A r \in Page : r # p => meta'[r] = meta[r]
    BY <1>2, <1>3, <1>5, <1>6
<1>9. SavedAt(c, h, free)
    BY <1>5, <1>8 DEF SavedAt
<1>10. Placement'
    <2>1. \A r \in Page : Where(r)' = Where(r)
        BY <1>9 DEF SavedAt, Where
    <2>2. \A t \in Thread, k \in Place : Owned(t, k)' <=> Owned(t, k)
        BY OwnedKept
    <2> QED BY <1>7, <2>1, <2>2, PlacementKept
<1>11. /\ mem' \in [Place -> AnyContent] /\ ContentOf(<<cur, h>>)' = n
       /\ \A r \in Page : Given(r)' <=> Given(r)
       /\ \A r \in Page : Given(r) /\ r # <<cur, h>> => ContentOf(r)' = ContentOf(r)
       /\ Wrote
    BY <1>1, <1>4, <1>6, <1>7, <1>9, OneFrame DEF SavedAt
<1>12. MemoryTyped'
    BY <1>7, <1>8, <1>11 DEF MemoryTyped, Typed, Shaped
<1>13. /\ \A t : Has(t)' <=> Has(t)
       /\ \A t \in Thread : \A k : Owned(t, k)' <=> Owned(t, k)
    BY OwnedKept
<1>14. \A t \in Thread, k \in Place :
         /\ <<t, k>> \in Page /\ (<<t, k>> = p <=> t = cur /\ k = c)
         /\ meta'[<<t, k>>].next = meta[<<t, k>>].next
         /\ meta'[<<t, k>>].front_meta = meta[<<t, k>>].front_meta
         /\ <<t, k>> # p => meta'[<<t, k>>] = meta[<<t, k>>]
    BY <1>8, <1>9, PagePair DEF SavedAt
<1>15. meta'[p].head = h /\ meta'[p].free_page_mem = free
    BY <1>5, <1>8
<1>16. Structure'
    <2>1. Chained'
        BY <1>13, <1>14 DEF Structure, Chained, SameOwners
    <2>2. ASSUME NEW t \in Thread, NEW k \in Place, Owned(t, k)
          PROVE  LET a == meta'[<<t, k>>]
                 IN /\ a.front_meta \in {NoPage, <<t, 0>>}
                    /\ a.front_meta = NoPage => a.head \in {Null, k}
                    /\ a.front_meta # NoPage /\ a.head # Null => a.head = 0 /\ k > 0
                    /\ a.front_meta # NoPage /\ a.head = Null => Owned(t, k + 1)
                    /\ a.front_meta # NoPage =>
                         \A j \in Place : j < k => meta'[<<t, j>>].front_meta # NoPage /\ meta'[<<t, j>>].head = Null
        <3> DEFINE b == meta[<<t, k>>]
                   a == meta'[<<t, k>>]
        <3>1. /\ b.front_meta \in {NoPage, <<t, 0>>}
              /\ b.front_meta = NoPage => b.head \in {Null, k}
              /\ b.front_meta # NoPage /\ b.head # Null => b.head = 0 /\ k > 0
              /\ b.front_meta # NoPage /\ b.head = Null => Owned(t, k + 1)
              /\ b.front_meta # NoPage =>
                   \A j \in Place : j < k => meta[<<t, j>>].front_meta # NoPage /\ meta[<<t, j>>].head = Null
            BY <1>2, <2>2 DEF Blocked
        <3>2. b.front_meta # NoPage =>
                \A j \in Place : j < k => meta'[<<t, j>>].front_meta # NoPage /\ meta'[<<t, j>>].head = Null
            <4>1. SUFFICES ASSUME b.front_meta # NoPage, NEW j \in Place, j < k
                           PROVE  meta'[<<t, j>>].front_meta # NoPage /\ meta'[<<t, j>>].head = Null
                OBVIOUS
            <4>2. meta[<<t, j>>].front_meta # NoPage /\ meta[<<t, j>>].head = Null
                BY <3>1, <4>1
            <4>3. CASE <<t, j>> = p
                <5>1. t = cur /\ j = c
                    BY <1>14, <4>3
                <5> QED BY <4>2, <5>1 DEF HeapOf
            <4>4. CASE <<t, j>> # p
                BY <1>14, <4>2, <4>4
            <4> QED BY <4>3, <4>4
        <3>3. CASE <<t, k>> = p
            <4>1. t = cur /\ k = c /\ a.head = h /\ a.front_meta = b.front_meta
                BY <1>14, <1>15, <3>3
            <4>2. a.front_meta # NoPage => k > 0
                BY <1>1, <4>1, Numbers
            <4> QED BY <1>1, <3>1, <3>2, <4>1, <4>2, Numbers
        <3>4. CASE <<t, k>> # p
            <4>1. a = b
                BY <1>14, <3>4
            <4> QED BY <3>1, <3>2, <4>1
        <3> QED BY <3>3, <3>4
    <2>3. Blocked'
        BY <1>13, <2>2 DEF Blocked
    <2> QED BY <2>1, <2>3 DEF Structure
<1>17. ASSUME Counted PROVE Counted'
    <2>1. ASSUME NEW t \in Thread, NEW k \in Place, Owned(t, k), meta'[<<t, k>>].head # Null
          PROVE  meta'[<<t, k>>].free_page_mem = ContentOf(<<t, meta[<<t, k>>].head>>)'.free
        <3>1. CASE <<t, k>> = p
            <4>1. t = cur /\ k = c /\ meta'[<<t, k>>].head = h /\ meta'[<<t, k>>].free_page_mem = free
                BY <1>14, <1>15, <3>1
            <4>2. ContentOf(<<t, meta[<<t, k>>].head>>)' = ContentOf(<<cur, h>>)'
                BY <4>1 DEF ContentOf
            <4> QED BY <1>4, <1>11, <4>1, <4>2
        <3>2. CASE <<t, k>> # p
            <4>1. meta'[<<t, k>>] = meta[<<t, k>>]
                BY <1>14, <3>2
            <4> PICK g : g = meta[<<t, k>>].head
                OBVIOUS
            <4>2. meta[<<t, k>>].free_page_mem = ContentOf(<<t, g>>).free /\ g # Null
                BY <1>17, <2>1, <4>1 DEF Counted
            <4>3. g \in Place /\ Owned(t, g)
                <5>1. g \in {0, k}
                    BY <1>2, <2>1, <4>2 DEF Blocked
                <5> QED BY <1>2, <2>1, <5>1, OwnedFrames DEF Typed
            <4>4. <<t, g>> # <<cur, h>>
                <5>1. SUFFICES ASSUME t = cur, g = h PROVE FALSE
                    OBVIOUS
                <5>2. k # c /\ Owned(cur, c)
                    BY <1>14, <3>2, <5>1 DEF Ready
                <5>3. /\ meta[<<cur, c>>].head # meta[<<cur, k>>].head
                      /\ meta[<<cur, c>>].front_meta = NoPage => meta[<<cur, k>>].head # c
                    BY <1>2, <2>1, <4>2, <5>1, <5>2, HeapsApart
                <5> QED BY <5>1, <5>3 DEF HeapOf
            <4>5. <<t, g>> \in Page /\ Given(<<t, g>>)
                BY <4>3, OwnedPlaces
            <4>6. ContentOf(<<t, g>>)' = ContentOf(<<t, g>>)
                BY <1>11, <4>4, <4>5
            <4>7. ContentOf(<<t, meta[<<t, k>>].head>>)' = ContentOf(<<t, g>>)'
                BY <4>1 DEF ContentOf
            <4> QED BY <4>1, <4>2, <4>6, <4>7
        <3> QED BY <3>1, <3>2
    <2> QED BY <1>13, <2>1 DEF Counted
<1>18. ASSUME Bounded, free \in 0 .. PageUnits PROVE Bounded'
    <2>1. \A r \in Page : meta'[r].free_page_mem \in 0 .. PageUnits \cup {-1}
        BY <1>8, <1>15, <1>18 DEF Bounded
    <2>2. \A f \in Place : Fits(mem[f])'
        BY <1>2, <1>4, <1>6, <1>18 DEF Bounded, Fits, Typed, Shaped
    <2>3. \A o \in DOMAIN disk' : Fits(disk[o])'
        BY <1>7, <1>18 DEF Bounded, Fits
    <2> QED BY <2>1, <2>2, <2>3 DEF Bounded
<1> QED BY <1>9, <1>10, <1>11, <1>12, <1>16, <1>17, <1>18 DEF Sound

-----------------------------------------------------------------------------
(* The end of a call, and mymalloc.                                        *)

\* A thread that is in no call.
LEMMA IdleType == Idle \in CallType /\ Idle.at = "user"
BY DEF Idle, CallType, Points

\* A thread that is back in its own code, or not yet in the manager, has nothing to
\* rely on.
LEMMA AtUser ==
  ASSUME Typed, Calls, cur' = cur, \A t \in Thread \ {cur} : call'[t] = call[t],
         \A t \in Thread : \A k : Owned(t, k) => Owned(t, k)', Call'.at = "user"
  PROVE  Calls'
<1>1. /\ Resting'
      /\ \A t \in Thread \ {cur} :
           call'[t].at = "handler" => call'[t].i \in Frame /\ Owned(t, call[t].i)'
    BY OthersRest
<1>2. call'[cur].at = "user"
    BY DEF Call
<1>3. AtHandler'
    <2>1. ASSUME NEW t \in Thread, call'[t].at = "handler"
          PROVE  call'[t].i \in Frame /\ Owned(t, call[t].i)'
        BY <1>1, <1>2, <2>1
    <2> QED BY <1>2, <2>1 DEF AtHandler, At, Call
<1>4. AtLocate' /\ AtLoad' /\ AtChunk' /\ AtTry' /\ AtScan' /\ AtTake' /\ AtEvict' /\ AtFree'
    BY <1>2 DEF AtLocate, AtLoad, AtChunk, AtTry, AtScan, AtTake, AtEvict, AtFree, At, Call
<1>5. Asked'
    BY DEF Asked, MallocPoints
<1> QED BY <1>1, <1>3, <1>4, <1>5 DEF Calls

\* What Return does: the thread is in its own code, with all frames protected.
LEMMA Returned ==
  ASSUME Typed, Return, cur' = cur
  PROVE  /\ call' \in [Thread -> CallType] /\ Call'.at = "user" /\ open' = {} /\ mem_flag' = FALSE
         /\ \A t \in Thread \ {cur} : call'[t] = call[t]
         /\ Quiet' /\ Opened'
<1>1. /\ call' \in [Thread -> CallType] /\ call'[cur] = Idle
      /\ \A t \in Thread \ {cur} : call'[t] = call[t]
    BY IdleType, CallNext DEF Return
<1>2. open' = {} /\ mem_flag' = FALSE
    BY DEF Return
<1>3. Call'.at = "user" /\ call'[cur].at = "user"
    BY <1>1, IdleType DEF Call
<1>4. Quiet' /\ Opened'
    BY <1>2, <1>3 DEF Quiet, Opened, At
<1> QED BY <1>1, <1>2, <1>3, <1>4

\* The call is over and gives no page.
LEMMA ReturnOwners ==
  ASSUME Typed, Quiet, Return, cur' = cur, first_page' = first_page, malloc_frame' = malloc_frame
  PROVE  SameOwners /\ SameVacant /\ \A t \in Thread : \A k : Owned(t, k)' <=> Owned(t, k)
<1>1. /\ \A t \in Thread \ {cur} : call'[t] = call[t]
      /\ Quiet' /\ Call'.at = "user"
    BY Returned
<1>2. SameOwners
    BY <1>1 DEF SameOwners, Quiet, At, Call
<1>3. SameVacant
    BY <1>1 DEF SameVacant, Quiet, Vacant
<1> QED BY <1>2, <1>3, OwnedKept

\* One page of the running thread has another content, and the rest of the metadata
\* agrees with it.
Writes ==
  /\ \A t \in Thread, k \in Place : Owned(t, k)' <=> Owned(t, k)
  /\ Wrote /\ (Sound => Sound')

\* A call ends with the heap of a page changed.
LEMMA SaveReturns ==
  ASSUME Inv, Quiet, cur' = cur, first_page' = first_page, malloc_frame' = malloc_frame,
         NEW c, NEW h, NEW free \in Int, Ready(c), HeapOf(c, h), h # Null, Sound => free \in 0 .. PageUnits,
         Save(<<cur, c>>, h, free), UNCHANGED <<disk, frame_table, page_counter>>, Return,
         current_page_meta' \in Page \cup {NoPage}, head' \in Place \cup {Null}
  PROVE  Inv' /\ Writes
<1>1. Typed /\ Placement /\ Structure /\ Calls
    BY DEF Inv
<1>2. /\ call' \in [Thread -> CallType] /\ Call'.at = "user" /\ open' = {} /\ mem_flag' = FALSE
      /\ \A t \in Thread \ {cur} : call'[t] = call[t]
      /\ Quiet' /\ Opened'
    BY <1>1, Returned
<1>3. SameOwners /\ SameVacant /\ \A t \in Thread : \A k : Owned(t, k)' <=> Owned(t, k)
    BY <1>1, ReturnOwners
<1>4. Placement' /\ Structure' /\ MemoryTyped' /\ Wrote /\ (Sound => Sound')
    BY <1>1, <1>2, <1>3, SaveKeeps
<1>5. Typed'
    BY <1>1, <1>2, <1>4, TypedNext DEF Typed, Shaped
<1>6. Calls'
    BY <1>1, <1>2, <1>3, AtUser
<1> QED BY <1>2, <1>3, <1>4, <1>5, <1>6 DEF Inv, Writes

\* The chain is searched from the start, after the last page was tried.
LEMMA ScanBegins ==
  ASSUME Inv, Quiet, cur' = cur, first_page' = first_page, malloc_frame' = malloc_frame,
         NEW c, NEW h, NEW free \in Int, Ready(c), HeapOf(c, h), h # Null, Sound => free \in 0 .. PageUnits,
         Save(<<cur, c>>, h, free), UNCHANGED <<disk, frame_table, page_counter, mem_flag, open, current_page_meta>>,
         head' \in Place \cup {Null}, Room, FrontHere, LastHere, Call.at \in MallocPoints,
         call' = [call EXCEPT ![cur].at = "scan", ![cur].counter = 0,
                         ![cur].temp = first_page[cur], ![cur].then = "scanTry"]
  PROVE  Inv' /\ Writes
<1>1. Typed /\ Placement /\ Structure /\ Chained /\ Calls
    BY DEF Inv, Structure
<1>2. cur \in Thread /\ Call = call[cur] /\ Call \in CallType
    BY <1>1, CallFacts
<1>3. Has(cur) /\ Owned(cur, 0) /\ first_page[cur] = <<cur, 0>> /\ <<cur, 0>> \in Page
    <2>1. Has(cur)
        BY DEF Ready, Owned
    <2> QED BY <1>1, <1>2, <2>1, OwnedFrames, PagePair, Numbers
<1> DEFINE n == [Call EXCEPT !.at = "scan", !.counter = 0, !.temp = <<cur, 0>>, !.then = "scanTry"]
<1>4. n \in CallType /\ n.at = "scan" /\ n.counter = 0 /\ n.temp = <<cur, 0>> /\ n.then = "scanTry" /\ n.x = Call.x
    BY <1>2, <1>3 DEF CallType, Points
<1>5. call' = [call EXCEPT ![cur] = n]
    BY <1>2, <1>3
<1> HIDE DEF n
<1>6. /\ call' \in [Thread -> CallType] /\ Call' = n
      /\ \A t \in Thread \ {cur} : call'[t] = call[t]
      /\ SameOwners /\ Quiet' /\ SameVacant
      /\ \A t : Has(t)' <=> Has(t)
      /\ \A t \in Thread : \A k : Owned(t, k)' <=> Owned(t, k)
    BY <1>1, <1>4, <1>5, CallGoesOn
<1>7. Placement' /\ Structure' /\ MemoryTyped' /\ SavedAt(c, h, free) /\ Wrote /\ (Sound => Sound')
    BY <1>1, <1>6, SaveKeeps
<1>8. Typed'
    BY <1>1, <1>6, <1>7, TypedNext DEF Typed, Shaped
<1>9. Has(cur)' /\ Room' /\ FrontHere' /\ LastHere'
    <2>1. meta'[<<cur, 0>>].front_meta = meta[<<cur, 0>>].front_meta
        BY <1>3, <1>7 DEF SavedAt
    <2>2. frame_table' = frame_table /\ page_counter' = page_counter
        OBVIOUS
    <2> QED BY <1>3, <1>6, <2>1, <2>2 DEF Room, FrontHere, LastHere, Here
<1>10. Call'.at = "scan" /\ Call'.counter = 0 /\ Call'.temp = <<cur, 0>> /\ Call'.then = "scanTry"
    BY <1>4, <1>6
<1>11. AtScan'
    <2>1. Owned(cur, 0)'
        BY <1>2, <1>3, <1>6
    <2> QED BY <1>9, <1>10, <2>1 DEF AtScan, At, Call
<1>12. AtLocate' /\ AtLoad' /\ AtChunk' /\ AtTry' /\ AtTake' /\ AtEvict' /\ AtFree'
    BY <1>10 DEF AtLocate, AtLoad, AtChunk, AtTry, AtTake, AtEvict, AtFree, At, Call
<1>13. Asked'
    BY <1>1, <1>4, <1>6, AskedStill
<1>14. Calls' /\ Opened'
    BY <1>1, <1>6, <1>10, <1>11, <1>12, <1>13, AtPoint
<1> QED BY <1>6, <1>7, <1>8, <1>14 DEF Inv, Writes

\* Try allocates in the last page, or begins the search of the chain.
LEMMA TryKeeps ==
  ASSUME Inv, Try
  PROVE  Inv' /\ Writes
<1>1. Typed /\ Placement /\ Structure /\ Chained /\ Blocked /\ Calls
    BY DEF Inv, Structure
<1>2. cur \in Thread /\ Call = call[cur] /\ Call.x \in Nat
    BY <1>1, CallFacts
<1>3. /\ At("try") /\ current_page_meta = <<cur, malloc_frame[cur]>> /\ HeapHere(malloc_frame[cur])
      /\ head = meta[current_page_meta].head
      /\ head # Null => Room /\ FrontHere
    BY <1>1 DEF Try, Calls, AtTry
<1>4. Quiet /\ call[cur].at # "new" /\ Call.at \in MallocPoints
    BY <1>3 DEF Quiet, At, MallocPoints, Call
<1>5. Call.x <= PageUnits
    BY <1>1, <1>4 DEF Calls, Asked
<1> PICK c : c = malloc_frame[cur]
    OBVIOUS
<1>6. c \in Place /\ Owned(cur, c) /\ Here(c) /\ ~Owned(cur, c + 1) /\ 0 \in Place /\ c \in Nat
    BY <1>1, <1>2, <1>3, <1>4, OwnedFrames, Numbers DEF HeapHere
<1>7. Ready(c)
    <2>1. meta[<<cur, c>>].front_meta # NoPage => Here(0)
        <3>1. c = 0 \/ 0 < c
            BY <1>6, SMT
        <3> QED BY <1>3, <1>6, <3>1 DEF HeapHere
    <2> QED BY <1>6, <2>1 DEF Ready
<1> PICK h : h = IF head = Null THEN c ELSE head
    OBVIOUS
<1>8. HeapOf(c, h) /\ h # Null
    <2>1. head = Null => meta[<<cur, c>>].front_meta = NoPage
        BY <1>1, <1>2, <1>3, <1>6 DEF Blocked
    <2>2. c # Null
        BY <1>6, Numbers
    <2> QED BY <1>3, <2>1, <2>2 DEF HeapOf
<1>9. h \in Place
    BY <1>1, <1>7, <1>8, HeapBegins
<1> PICK free : free = IF head = Null THEN PageUnits ELSE mem[h].free
    OBVIOUS
<1>10. free \in Int /\ (Sound => free \in 0 .. PageUnits)
    <2>1. PageUnits \in Int /\ PageUnits \in 0 .. PageUnits
        BY Numbers, SMT
    <2>2. mem[h].free \in Int
        BY <1>1, <1>9 DEF Typed, Shaped, AnyContent
    <2>3. Sound => mem[h].free \in 0 .. PageUnits
        BY <1>9 DEF Sound, Bounded, Fits
    <2> QED BY <2>1, <2>2, <2>3
<1>11. /\ head' = h
       /\ \/ Allocates(Call.x, free) /\ Save(<<cur, c>>, h, free - Call.x) /\ Return
          \/ /\ Refuses(Call.x, free) /\ Save(<<cur, c>>, h, free)
             /\ call' = [call EXCEPT ![cur].at = "scan", ![cur].counter = 0,
                           ![cur].temp = first_page[cur], ![cur].then = "scanTry"]
             /\ UNCHANGED <<mem_flag, open>>
       /\ UNCHANGED <<disk, frame_table, page_counter, threads, current_page_meta, cur>>
    BY <1>3 DEF Try
<1>12. /\ cur' = cur /\ first_page' = first_page /\ malloc_frame' = malloc_frame
       /\ current_page_meta' = current_page_meta /\ UNCHANGED <<disk, frame_table, page_counter>>
    BY <1>11 DEF threads
<1>13. current_page_meta' \in Page \cup {NoPage} /\ head' \in Place \cup {Null}
    BY <1>1, <1>9, <1>11, <1>12 DEF Typed, Shaped
<1>14. CASE Allocates(Call.x, free) /\ Save(<<cur, c>>, h, free - Call.x) /\ Return
    <2>1. Call.x <= free
        BY <1>14 DEF Allocates
    <2> PICK left : left = free - Call.x
        OBVIOUS
    <2>2. left \in Int /\ (Sound => left \in 0 .. PageUnits)
        BY <1>2, <1>10, <2>1, Numbers, SMT
    <2>3. Save(<<cur, c>>, h, left)
        BY <1>14
    <2> QED BY <1>4, <1>7, <1>8, <1>12, <1>13, <1>14, <2>2, <2>3, SaveReturns
<1>15. CASE /\ Refuses(Call.x, free) /\ Save(<<cur, c>>, h, free)
            /\ call' = [call EXCEPT ![cur].at = "scan", ![cur].counter = 0,
                          ![cur].temp = first_page[cur], ![cur].then = "scanTry"]
            /\ UNCHANGED <<mem_flag, open>>
    <2>1. head # Null
        <3>1. Call.x > free \/ free < PageUnits
            BY <1>15 DEF Refuses
        <3>2. free # PageUnits
            BY <1>2, <1>5, <1>10, <3>1, Numbers, SMT
        <3> QED BY <3>2
    <2>2. Room /\ FrontHere /\ LastHere
        BY <1>3, <1>6, <2>1 DEF LastHere
    <2>3. UNCHANGED <<disk, frame_table, page_counter, mem_flag, open, current_page_meta>>
        BY <1>12, <1>15
    <2> QED BY <1>4, <1>7, <1>8, <1>10, <1>12, <1>13, <1>15, <2>2, <2>3, ScanBegins
<1> QED BY <1>11, <1>14, <1>15

\* The page in hand is left for the next of the chain.
LEMMA NextPageKeeps ==
  ASSUME Inv, Call.at \in {"scan", "scanTry"}, Call.temp # NoPage, NextPage, UNCHANGED <<pages, threads, globals, cur>>
  PROVE  Inv' /\ Steady
<1>1. Typed /\ Placement /\ Structure /\ Chained /\ Calls
    BY DEF Inv, Structure
<1>2. cur \in Thread /\ Call = call[cur] /\ Call \in CallType /\ Call.counter \in Nat
    BY <1>1, CallFacts
<1>3. /\ Has(cur) /\ Room /\ FrontHere /\ LastHere /\ Call.then = "scanTry"
      /\ Call.temp = <<cur, Call.counter>> /\ Owned(cur, Call.counter)
    BY <1>1 DEF Calls, AtScan, At, Call, HeapHere
<1>4. Quiet /\ call[cur].at # "new" /\ Call.at \in MallocPoints
    BY <1>2 DEF Quiet, At, MallocPoints
<1>5. /\ cur' = cur /\ first_page' = first_page /\ malloc_frame' = malloc_frame
      /\ current_page_meta' = current_page_meta /\ head' = head /\ mem_flag' = mem_flag /\ open' = open
    BY DEF threads, globals
<1> PICK k : k = Call.counter
    OBVIOUS
<1> PICK p : p = meta[Call.temp].next
    OBVIOUS
<1>6. k \in Nat /\ k \in Place /\ k + 1 \in Nat
    BY <1>1, <1>2, <1>3, OwnedFrames
<1>7. p = NoPage \/ (p = <<cur, k + 1>> /\ Owned(cur, k + 1) /\ p \in Page)
    <2>1. Owned(cur, k + 1) => p = <<cur, k + 1>> /\ k + 1 \in Place
        BY <1>1, <1>2, <1>3, <1>6, OwnedFrames DEF Chained
    <2>2. ~Owned(cur, k + 1) => p = NoPage
        BY <1>1, <1>2, <1>3, <1>6 DEF Chained
    <2> QED BY <1>2, <2>1, <2>2, PagePair
<1> DEFINE n == [Call EXCEPT !.at = "scan", !.counter = k + 1, !.temp = p]
<1>8. /\ n \in CallType /\ n.at = "scan" /\ n.counter = k + 1 /\ n.temp = p /\ n.then = "scanTry"
      /\ n.x = Call.x
    BY <1>2, <1>3, <1>6, <1>7 DEF CallType, Points
<1>9. call' = [call EXCEPT ![cur] = n]
    BY <1>2 DEF NextPage
<1> HIDE DEF n
<1>10. /\ call' \in [Thread -> CallType] /\ Call' = n
       /\ \A t \in Thread \ {cur} : call'[t] = call[t]
       /\ SameOwners /\ Quiet' /\ SameVacant
       /\ \A t : Has(t)' <=> Has(t)
       /\ \A t \in Thread : \A j : Owned(t, j)' <=> Owned(t, j)
    BY <1>1, <1>4, <1>5, <1>8, <1>9, CallGoesOn
<1>11. Moved
    BY <1>1, <1>5, <1>10, NothingMoved
<1>12. Has(cur)' /\ Room' /\ FrontHere' /\ LastHere'
    BY <1>1, <1>3, <1>4, <1>5, <1>10, <1>11, RoomKept
<1>13. Typed'
    <2>1. MemoryTyped' /\ page_counter' = page_counter
        BY <1>11 DEF Moved
    <2> QED BY <1>1, <1>5, <1>10, <2>1, TypedNext DEF Typed, Shaped
<1>14. Call'.at = "scan" /\ Call'.counter = k + 1 /\ Call'.temp = p /\ Call'.then = "scanTry"
    BY <1>8, <1>10
<1>15. AtScan'
    <2>1. p = NoPage \/ (p = <<cur', k + 1>> /\ Owned(cur, k + 1)')
        BY <1>2, <1>5, <1>7, <1>10
    <2> QED BY <1>12, <1>14, <2>1 DEF AtScan, At, Call
<1>16. AtLocate' /\ AtLoad' /\ AtChunk' /\ AtTry' /\ AtTake' /\ AtEvict' /\ AtFree'
    BY <1>14 DEF AtLocate, AtLoad, AtChunk, AtTry, AtTake, AtEvict, AtFree, At, Call
<1>17. Asked'
    BY <1>1, <1>4, <1>8, <1>10, AskedStill
<1>18. Calls' /\ Opened'
    BY <1>1, <1>5, <1>10, <1>14, <1>15, <1>16, <1>17, AtPoint
<1> QED BY <1>10, <1>11, <1>13, <1>18 DEF Inv, Steady, Moved

\* Scan passes a page over, or brings it home, or finds no more.
LEMMA ScanKeeps ==
  ASSUME Inv, Scan
  PROVE  Inv' /\ Steady
<1>1. Typed /\ Placement /\ Structure /\ Chained /\ Calls
    BY DEF Inv, Structure
<1>2. cur \in Thread /\ Call = call[cur] /\ Call \in CallType /\ Call.counter \in Nat
    BY <1>1, CallFacts
<1>3. /\ At("scan") /\ Has(cur) /\ Room /\ FrontHere /\ LastHere /\ Call.then = "scanTry"
      /\ Call.temp = NoPage \/ (Call.temp = <<cur, Call.counter>> /\ Owned(cur, Call.counter))
    BY <1>1 DEF Scan, Calls, AtScan
<1>4. Quiet /\ call[cur].at # "new" /\ Call.at = "scan" /\ Call.at \in MallocPoints
    BY <1>3 DEF Quiet, At, MallocPoints, Call
<1>5. cur' = cur /\ first_page' = first_page /\ malloc_frame' = malloc_frame /\ head' = head
    BY DEF Scan, threads
<1>6. CASE Call.temp = NoPage
    <2>1. Goto("take") /\ UNCHANGED <<pages, current_page_meta, mem_flag, open>>
        BY <1>6 DEF Scan
    <2> DEFINE n == [Call EXCEPT !.at = "take"]
    <2>2. n \in CallType /\ n.at = "take" /\ n.x = Call.x
        BY <1>2 DEF CallType, Points
    <2>3. call' = [call EXCEPT ![cur] = n]
        BY <1>2, <2>1 DEF Goto
    <2> HIDE DEF n
    <2>4. /\ call' \in [Thread -> CallType] /\ Call' = n
          /\ \A t \in Thread \ {cur} : call'[t] = call[t]
          /\ SameOwners /\ Quiet' /\ SameVacant
          /\ \A t \in Thread : \A k : Owned(t, k)' <=> Owned(t, k)
        BY <1>1, <1>4, <1>5, <2>2, <2>3, CallGoesOn
    <2>5. Moved
        BY <1>1, <1>5, <2>1, <2>4, NothingMoved
    <2>6. Has(cur)' /\ Room' /\ FrontHere' /\ LastHere'
        BY <1>1, <1>3, <1>4, <1>5, <2>4, <2>5, RoomKept
    <2>7. Typed'
        <3>1. MemoryTyped' /\ page_counter' = page_counter
            BY <2>5 DEF Moved
        <3>2. current_page_meta' = current_page_meta /\ mem_flag' = mem_flag /\ open' = open
            BY <2>1
        <3> QED BY <1>1, <1>5, <2>4, <3>1, <3>2, TypedNext DEF Typed, Shaped
    <2>8. Call'.at = "take"
        BY <2>2, <2>4
    <2>9. AtTake'
        BY <2>6, <2>8 DEF AtTake, At, Call
    <2>10. AtLocate' /\ AtLoad' /\ AtChunk' /\ AtTry' /\ AtScan' /\ AtEvict' /\ AtFree'
        BY <2>8 DEF AtLocate, AtLoad, AtChunk, AtTry, AtScan, AtEvict, AtFree, At, Call
    <2>11. Asked'
        BY <1>1, <1>4, <2>2, <2>4, AskedStill
    <2>12. Calls' /\ Opened'
        BY <1>1, <1>5, <2>4, <2>8, <2>9, <2>10, <2>11, AtPoint
    <2> QED BY <2>4, <2>5, <2>7, <2>12 DEF Inv, Steady, Moved
<1>7. CASE Call.temp # NoPage /\ meta[Call.temp].free_page_mem < Call.x
    <2>1. NextPage /\ UNCHANGED <<pages, current_page_meta, mem_flag, open>>
        BY <1>7 DEF Scan
    <2>2. UNCHANGED <<pages, threads, globals, cur>>
        BY <1>5, <2>1 DEF threads, globals
    <2> QED BY <1>4, <1>7, <2>1, <2>2, NextPageKeeps
<1>8. CASE Call.temp # NoPage /\ ~(meta[Call.temp].free_page_mem < Call.x)
    <2> PICK k : k = Call.counter
        OBVIOUS
    <2>1. k \in Place /\ k \in Nat /\ Owned(cur, k) /\ Call.temp = <<cur, k>> /\ <<cur, k>> \in Page
        BY <1>1, <1>2, <1>3, <1>8, OwnedFrames, PagePair
    <2>2. /\ current_page_meta' = <<cur, k>>
          /\ IF meta[<<cur, k>>].page_frame = k
             THEN UNCHANGED <<pages, mem_flag, open>>
             ELSE Exchange(k, meta[<<cur, k>>].page_frame) /\ SwapDone
          /\ Goto("load")
        BY <1>8, <2>1 DEF Scan
    <2> DEFINE n == [Call EXCEPT !.at = "load"]
    <2>3. /\ n \in CallType /\ n.at = "load" /\ n.x = Call.x /\ n.then = "scanTry" /\ n.counter = k
          /\ n.temp = <<cur, k>>
        BY <1>2, <1>3, <2>1 DEF CallType, Points
    <2>4. call' = [call EXCEPT ![cur] = n]
        BY <1>2, <2>2 DEF Goto
    <2> HIDE DEF n
    <2>5. /\ call' \in [Thread -> CallType] /\ Call' = n
          /\ \A t \in Thread \ {cur} : call'[t] = call[t]
          /\ SameOwners /\ Quiet' /\ SameVacant
          /\ \A t \in Thread : \A j : Owned(t, j)' <=> Owned(t, j)
        BY <1>1, <1>4, <1>5, <2>3, <2>4, CallGoesOn
    <2>6. Moved /\ Here(k)'
        <3>1. PICK d : d = Where(<<cur, k>>)
            OBVIOUS
        <3>2. Here(k) <=> d = k
            <4>1. Where(<<cur, k>>) \in Place => frame_table[Where(<<cur, k>>)] = <<cur, k>>
                BY <1>1, <1>2, <2>1, OwnedPlaces
            <4>2. Where(frame_table[k]) = k
                BY <1>1, <1>2, <1>4, <2>1, InHome
            <4> QED BY <2>1, <3>1, <4>1, <4>2 DEF Here
        <3>3. IF Here(k) THEN UNCHANGED pages ELSE Exchange(k, d)
            BY <2>2, <3>1, <3>2 DEF Where
        <3> QED BY <1>1, <1>4, <1>5, <2>1, <2>5, <3>1, <3>3, BroughtHome
    <2>7. Has(cur)' /\ Room' /\ FrontHere' /\ LastHere'
        BY <1>1, <1>3, <1>4, <1>5, <2>5, <2>6, RoomKept
    <2>8. Typed'
        <3>1. MemoryTyped' /\ page_counter' = page_counter
            BY <2>6 DEF Moved
        <3>2. mem_flag' \in BOOLEAN /\ open' \subseteq Frame
            BY <1>1, <2>2 DEF SwapDone, Typed, Shaped
        <3> QED BY <1>1, <1>5, <2>1, <2>2, <2>5, <3>1, <3>2, TypedNext DEF Typed, Shaped
    <2>9. /\ Call'.at = "load" /\ Call'.then = "scanTry" /\ Call'.counter = k /\ Call'.temp = <<cur, k>>
        BY <2>3, <2>5
    <2>10. AtLoad'
        <3>1. Owned(cur, k)'
            BY <1>2, <1>5, <2>1, <2>5
        <3> QED BY <1>5, <2>2, <2>6, <2>7, <2>9, <3>1 DEF AtLoad
    <2>11. AtLocate' /\ AtChunk' /\ AtTry' /\ AtScan' /\ AtTake' /\ AtEvict' /\ AtFree'
        BY <2>9 DEF AtLocate, AtChunk, AtTry, AtScan, AtTake, AtEvict, AtFree, At, Call
    <2>12. Asked'
        BY <1>1, <1>4, <2>3, <2>5, AskedStill
    <2>13. Calls' /\ Opened'
        BY <1>1, <1>5, <2>5, <2>9, <2>10, <2>11, <2>12, AtPoint
    <2> QED BY <2>5, <2>6, <2>8, <2>13 DEF Inv, Steady, Moved
<1> QED BY <1>6, <1>7, <1>8

\* ScanTry allocates in the page that was found, or goes on to the next.
LEMMA ScanTryKeeps ==
  ASSUME Inv, ScanTry
  PROVE  Inv' /\ (Steady \/ Writes)
<1>1. Typed /\ Placement /\ Structure /\ Chained /\ Blocked /\ Calls
    BY DEF Inv, Structure
<1>2. cur \in Thread /\ Call = call[cur] /\ Call.x \in Nat /\ Call.counter \in Nat
    BY <1>1, CallFacts
<1> PICK c : c = Call.counter
    OBVIOUS
<1>3. /\ At("scanTry") /\ head # Null /\ current_page_meta = <<cur, c>> /\ Call.temp = <<cur, c>>
      /\ HeapHere(c) /\ head = meta[<<cur, c>>].head
    BY <1>1 DEF ScanTry, Calls, AtScan
<1>4. Quiet /\ Call.at = "scanTry"
    BY <1>3 DEF Quiet, At, Call
<1>5. c \in Place /\ Owned(cur, c) /\ Here(c) /\ 0 \in Place /\ c \in Nat
    BY <1>1, <1>2, <1>3, OwnedFrames, Numbers DEF HeapHere
<1>6. Ready(c) /\ HeapOf(c, head)
    <2>1. meta[<<cur, c>>].front_meta # NoPage => Here(0)
        <3>1. c = 0 \/ 0 < c
            BY <1>5, SMT
        <3> QED BY <1>3, <1>5, <3>1 DEF HeapHere
    <2> QED BY <1>3, <1>5, <2>1 DEF Ready, HeapOf
<1>7. head \in Place
    BY <1>1, <1>3, <1>6, HeapBegins
<1>8. /\ cur' = cur /\ first_page' = first_page /\ malloc_frame' = malloc_frame
      /\ current_page_meta' = current_page_meta /\ head' = head
      /\ UNCHANGED <<disk, frame_table, page_counter>>
    BY DEF ScanTry, threads
<1>9. CASE Allocates(Call.x, mem[head].free) /\ Save(current_page_meta, head, mem[head].free - Call.x) /\ Return
    <2>1. /\ Call.x <= mem[head].free /\ mem[head].free \in Int
          /\ Sound => mem[head].free \in 0 .. PageUnits
        BY <1>1, <1>7, <1>9 DEF Allocates, Typed, Shaped, AnyContent, Sound, Bounded, Fits
    <2> PICK left : left = mem[head].free - Call.x
        OBVIOUS
    <2> PICK h : h = head
        OBVIOUS
    <2>2. left \in Int /\ (Sound => left \in 0 .. PageUnits)
        BY <1>2, <2>1, Numbers, SMT
    <2>3. Save(<<cur, c>>, h, left)
        BY <1>3, <1>9 DEF Save
    <2>4. HeapOf(c, h) /\ h # Null
        BY <1>3, <1>6
    <2>5. current_page_meta' \in Page \cup {NoPage} /\ head' \in Place \cup {Null}
        BY <1>1, <1>8 DEF Typed, Shaped
    <2> QED BY <1>4, <1>6, <1>8, <1>9, <2>2, <2>3, <2>4, <2>5, SaveReturns
<1>10. CASE Refuses(Call.x, mem[head].free) /\ NextPage /\ UNCHANGED <<mem, meta, mem_flag, open>>
    <2>1. UNCHANGED <<pages, threads, globals, cur>>
        BY <1>8, <1>10 DEF pages, threads, globals
    <2>2. Call.temp # NoPage
        BY <1>2, <1>3, <1>5, PagePair
    <2> QED BY <1>4, <1>10, <2>1, <2>2, NextPageKeeps
<1> QED BY <1>9, <1>10 DEF ScanTry

-----------------------------------------------------------------------------
(* Evict.                                                                  *)

\* The page p that was in frame k left for place n, the next that was never used.
Evicted(p, k, n) ==
  /\ k \in Place /\ n \in Nat /\ n < TotalPages /\ page_counter = n /\ page_counter' = n + 1
  /\ p = NoPage => k = n
  /\ p # NoPage => p \in Page /\ Given(p) /\ Where(p) = k /\ k < n
  /\ meta' \in [Page -> AnyMeta] /\ frame_table' \in [Place -> Page \cup {NoPage}]
  /\ \A r \in Page : meta'[r].page_frame = IF r = p THEN n ELSE meta[r].page_frame
  /\ \A f \in Place \ {k, n} : frame_table'[f] = frame_table[f]
  /\ p # NoPage /\ n \in Place => frame_table'[n] = p

\* What an eviction does to the metadata and the frame table.
LEMMA EvictMoves ==
  ASSUME Typed, Placement, NEW k \in Place, ~Vacant(k), k <= page_counter, page_counter < TotalPages,
         Evict(k)
  PROVE  Evicted(frame_table[k], k, page_counter) /\ MetaKept
<1> PICK p : p = frame_table[k]
    OBVIOUS
<1> PICK n : n = page_counter
    OBVIOUS
<1>1. n \in Nat /\ n < TotalPages /\ k \in Nat /\ (n \in Place <=> n <= NumFrames)
    <2>1. page_counter \in Nat
        BY SMT DEF Typed, Shaped
    <2> QED BY <2>1, Numbers
<1>2. meta \in [Page -> AnyMeta] /\ frame_table \in [Place -> Page \cup {NoPage}]
    BY DEF Typed, Shaped
<1>3. p # NoPage => p \in Page /\ Given(p) /\ Where(p) = k /\ k < n
    <2>1. SUFFICES ASSUME p # NoPage PROVE p \in Page /\ Given(p) /\ Where(p) = k /\ k < n
        OBVIOUS
    <2>2. p \in Page /\ Given(p) /\ Where(p) = k
        BY <1>2, <2>1 DEF Placement, Tabled
    <2>3. Where(p) \in 0 .. page_counter - 1
        BY <2>2 DEF Placement, Placed
    <2> QED BY <1>1, <2>2, <2>3, SMT
<1>4. p = NoPage => k = n
    <2>1. SUFFICES ASSUME p = NoPage, k # n PROVE FALSE
        OBVIOUS
    <2>2. k \in 0 .. page_counter - 1
        BY <1>1, <2>1, SMT
    <2>3. PICK r \in Page : Given(r) /\ Where(r) = k
        BY <2>2 DEF Placement, Full
    <2>4. frame_table[k] = r
        BY <2>3, Numbers DEF Placement, Placed
    <2> QED BY <2>1, <2>4, PagePair
<1>5. /\ page_counter' = n + 1
      /\ meta' = IF p = NoPage THEN meta ELSE [meta EXCEPT ![p].page_frame = n]
      /\ frame_table' = IF n <= NumFrames /\ p # NoPage THEN [frame_table EXCEPT ![n] = p, ![k] = NoPage]
                        ELSE frame_table
    BY DEF Evict
<1>6. /\ meta' \in [Page -> AnyMeta]
      /\ \A r \in Page : meta'[r].page_frame = IF r = p THEN n ELSE meta[r].page_frame
      /\ MetaKept
    <2>1. CASE p = NoPage
        BY <1>2, <1>5, <2>1, PagePair DEF MetaKept
    <2>2. CASE p # NoPage
        <3>1. p \in Page /\ meta' = [meta EXCEPT ![p].page_frame = n]
            BY <1>3, <1>5, <2>2
        <3>2. ASSUME NEW r \in Page
              PROVE  /\ meta'[r] \in AnyMeta
                     /\ meta'[r].page_frame = IF r = p THEN n ELSE meta[r].page_frame
                     /\ meta'[r].next = meta[r].next /\ meta'[r].front_meta = meta[r].front_meta
                     /\ meta'[r].head = meta[r].head /\ meta'[r].free_page_mem = meta[r].free_page_mem
            <4>1. meta[r] \in AnyMeta
                BY <1>2
            <4>2. meta'[r] = IF r = p THEN [meta[r] EXCEPT !.page_frame = n] ELSE meta[r]
                BY <1>2, <3>1
            <4> QED BY <1>1, <4>1, <4>2 DEF AnyMeta
        <3>3. meta' \in [Page -> AnyMeta]
            <4>1. DOMAIN meta' = Page /\ meta' = [r \in Page |-> meta'[r]]
                BY <1>2, <3>1
            <4> QED BY <3>2, <4>1
        <3> QED BY <3>2, <3>3 DEF MetaKept
    <2> QED BY <2>1, <2>2
<1>7. /\ frame_table' \in [Place -> Page \cup {NoPage}]
      /\ \A f \in Place \ {k, n} : frame_table'[f] = frame_table[f]
      /\ p # NoPage /\ n \in Place => frame_table'[n] = p
    <2>1. CASE n <= NumFrames /\ p # NoPage
        <3>1. k # n
            BY <1>1, <1>3, <2>1, SMT
        <3> QED BY <1>1, <1>2, <1>3, <1>5, <2>1, <3>1
    <2>2. CASE ~(n <= NumFrames /\ p # NoPage)
        BY <1>1, <1>2, <1>5, <2>2
    <2> QED BY <2>1, <2>2
<1>8. Evicted(p, k, n)
    BY <1>1, <1>3, <1>4, <1>5, <1>6, <1>7 DEF Evicted
<1> QED BY <1>6, <1>8

\* After an eviction every page is where the metadata and the frame table say, and one
\* more frame is vacant.
LEMMA EvictPlacement ==
  ASSUME Typed, Placement, NEW p, NEW k, NEW n, Evicted(p, k, n), ~Vacant(k),
         \A t \in Thread, j \in Place : Owned(t, j)' <=> Owned(t, j),
         \A f \in Nat : Vacant(f)' <=> Vacant(f) \/ f = k
  PROVE  Placement'
<1>1. /\ k \in Place /\ n \in Nat /\ page_counter = n /\ page_counter' = n + 1
      /\ p = NoPage => k = n
      /\ p # NoPage => p \in Page /\ Given(p) /\ Where(p) = k /\ k < n
    BY DEF Evicted
<1>2. /\ \A r \in Page : Where(r)' = IF r = p THEN n ELSE Where(r)
      /\ \A r \in Page : Given(r)' <=> Given(r)
    <2>1. n # -1
        BY <1>1, SMT
    <2>2. \A r \in Page : meta'[r].page_frame = IF r = p THEN n ELSE meta[r].page_frame
        BY DEF Evicted
    <2>3. p \in Page => Given(p)
        BY <1>1, PagePair
    <2> QED BY <2>1, <2>2, <2>3 DEF Where, Given
<1>3. /\ \A f \in Place \ {k, n} : frame_table'[f] = frame_table[f]
      /\ p # NoPage /\ n \in Place => frame_table'[n] = p
    BY DEF Evicted
<1>4. k \in Nat /\ k <= n /\ ~Vacant(n) /\ \A f \in Place : f \in Nat
    <2>1. k \in Nat /\ \A f \in Place : f \in Nat
        BY <1>1, Numbers
    <2>2. n \in Place => ~Vacant(n)
        BY <1>1, SMT DEF Placement, Below
    <2>3. n \notin Place => ~Vacant(n)
        <3>1. SUFFICES ASSUME n \notin Place, Vacant(n) PROVE FALSE
            OBVIOUS
        <3>2. n > NumFrames
            BY <1>1, <3>1, Numbers, SMT
        <3>3. cur \in Thread /\ malloc_frame[cur] \in Place
            BY DEF Typed, Shaped
        <3>4. CASE At("new") /\ n = malloc_frame[cur]
            BY <3>1, <3>3, <3>4
        <3>5. CASE At("evict") /\ n < Call.i
            <4>1. Call.i \in Nat
                BY CallFacts
            <4>2. NumFrames < Call.i
                BY <1>1, <3>2, <3>5, <4>1, Numbers, SMT
            <4>3. Vacant(NumFrames)
                BY <3>5, <4>2 DEF Vacant
            <4>4. Vacant(k)
                BY <1>1, <2>1, <3>5, <4>1, <4>2, Numbers, SMT DEF Vacant
            <4> QED BY <4>4
        <3> QED BY <3>1, <3>4, <3>5 DEF Vacant
    <2> QED BY <1>1, <2>1, <2>2, <2>3, SMT
<1>5. \A r \in Page : Given(r) =>
        /\ Where(r) \in Nat /\ Where(r) < n /\ ~Vacant(Where(r))
        /\ Where(r) \in Place => frame_table[Where(r)] = r
        /\ r # p => Where(r) # k
    <2>1. ASSUME NEW r \in Page, Given(r)
          PROVE  /\ Where(r) \in Nat /\ Where(r) < n /\ ~Vacant(Where(r))
                 /\ Where(r) \in Place => frame_table[Where(r)] = r
                 /\ r # p => Where(r) # k
        <3>1. /\ Where(r) \in 0 .. page_counter - 1 /\ ~Vacant(Where(r))
              /\ Where(r) <= NumFrames => frame_table[Where(r)] = r
            BY <2>1 DEF Placement, Placed
        <3>2. Where(r) \in Nat /\ Where(r) < n
            BY <1>1, <2>1, <3>1, GivenWhere, SMT
        <3>3. r # p => Where(r) # k
            <4>1. CASE p = NoPage
                BY <1>1, <3>2, <4>1, SMT
            <4>2. CASE p # NoPage
                BY <1>1, <2>1, <4>2 DEF Placement, Apart
            <4> QED BY <4>1, <4>2
        <3> QED BY <3>1, <3>2, <3>3, Numbers
    <2> QED BY <2>1
<1>6. Placed'
    <2>1. \A t \in Thread, j \in Place : Given(<<t, j>>)' <=> Owned(t, j)'
        BY <1>2, PagePair DEF Placement, Placed
    <2>2. ASSUME NEW r \in Page, Given(r)'
          PROVE  /\ Where(r)' \in 0 .. page_counter' - 1 /\ ~Vacant(Where(r))'
                 /\ Where(r)' <= NumFrames => frame_table'[Where(r)'] = r
        <3>1. Given(r)
            BY <1>2, <2>2
        <3>2. CASE r = p
            <4>1. Where(r)' = n /\ k < n /\ p # NoPage
                BY <1>1, <1>2, <2>2, <3>2, PagePair
            <4>2. n \in 0 .. page_counter' - 1
                BY <1>1, SMT
            <4>3. ~Vacant(n)'
                BY <1>1, <1>4, <4>1
            <4>4. ~Vacant(Where(r))'
                BY <4>1, <4>3 DEF Vacant, At, Call
            <4>5. n <= NumFrames => frame_table'[n] = r
                BY <1>1, <1>3, <3>2, <4>1, Numbers
            <4> QED BY <4>1, <4>2, <4>4, <4>5
        <3>3. CASE r # p
            <4>1. /\ Where(r)' = Where(r) /\ Where(r) \in Nat /\ Where(r) < n /\ ~Vacant(Where(r)) /\ Where(r) # k
                  /\ Where(r) \in Place => frame_table[Where(r)] = r
                BY <1>2, <1>5, <3>1, <3>3
            <4> PICK w : w = Where(r)
                OBVIOUS
            <4>2. w \in 0 .. page_counter' - 1
                BY <1>1, <4>1, SMT
            <4>3. ~Vacant(w)'
                BY <4>1
            <4>4. ~Vacant(Where(r))'
                BY <4>1, <4>3 DEF Vacant, At, Call
            <4>5. w <= NumFrames => frame_table'[w] = r
                <5>1. w # n
                    BY <1>1, <4>1, SMT
                <5> QED BY <1>3, <4>1, <5>1, Numbers
            <4> QED BY <4>1, <4>2, <4>4, <4>5
        <3> QED BY <3>2, <3>3
    <2> QED BY <2>1, <2>2 DEF Placed
<1>7. Tabled'
    <2>1. ASSUME NEW f \in Place, frame_table'[f] # NoPage, ~Vacant(f)'
          PROVE  Given(frame_table[f])' /\ Where(frame_table[f])' = f
        <3>1. PICK r : r = frame_table'[f]
            OBVIOUS
        <3>2. f # k /\ ~Vacant(f)
            BY <1>4, <2>1
        <3>3. r \in Page /\ Given(r)' /\ Where(r)' = f
            <4>1. CASE f = n
                <5>1. p # NoPage
                    BY <1>1, <3>2, <4>1
                <5> QED BY <1>1, <1>2, <1>3, <2>1, <3>1, <4>1, <5>1
            <4>2. CASE f # n
                <5>1. r = frame_table[f] /\ r # NoPage
                    BY <1>3, <2>1, <3>1, <3>2, <4>2
                <5>2. r \in Page
                    BY <5>1 DEF Typed, Shaped
                <5>3. Given(r) /\ Where(r) = f
                    BY <3>2, <5>1 DEF Placement, Tabled
                <5>4. r # p
                    BY <1>1, <3>2, <5>1, <5>3
                <5> QED BY <1>2, <5>2, <5>3, <5>4
            <4> QED BY <4>1, <4>2
        <3> QED BY <3>1, <3>3 DEF Given, Where
    <2> QED BY <2>1 DEF Tabled
<1>8. Apart'
    <2>1. ASSUME NEW r \in Page, NEW s \in Page, r # s, Given(r)' PROVE Where(r)' # Where(s)'
        <3>1. Given(r) /\ Where(r) # Where(s)
            BY <1>2, <2>1 DEF Placement, Apart
        <3>2. Where(r) # n /\ Where(s) # n
            <4>1. \A u \in Page : Given(u) => Where(u) # n
                BY <1>1, <1>5, SMT
            <4>2. ~Given(s) => Where(s) # n
                BY <1>1, SMT DEF Given, Where
            <4> QED BY <3>1, <4>1, <4>2
        <3> QED BY <1>2, <2>1, <3>1, <3>2
    <2> QED BY <2>1 DEF Apart
<1>9. Full'
    <2>1. ASSUME NEW m \in 0 .. n, ~Vacant(m)'
          PROVE  \E r \in Page : Given(r)' /\ Where(r)' = m
        <3>1. m \in Nat /\ m # k /\ ~Vacant(m)
            BY <2>1, SMT
        <3>2. CASE m = n
            BY <1>1, <1>2, <3>1, <3>2
        <3>3. CASE m # n
            <4>1. m \in 0 .. page_counter - 1
                BY <1>1, <3>3, SMT
            <4>2. PICK r \in Page : Given(r) /\ Where(r) = m
                BY <3>1, <4>1 DEF Placement, Full
            <4>3. r # p
                BY <1>1, <3>1, <4>2, PagePair
            <4> QED BY <1>2, <4>2, <4>3
        <3> QED BY <3>2, <3>3
    <2>2. 0 .. page_counter' - 1 = 0 .. n
        BY <1>1, SMT
    <2> QED BY <2>1, <2>2 DEF Full
<1>10. Below'
    <2>1. \A t \in Thread, j \in Place : Owned(t, j)' => j < page_counter'
        <3>1. ASSUME NEW t \in Thread, NEW j \in Place, Owned(t, j) PROVE j < n + 1
            BY <1>1, <1>4, <3>1, SMT DEF Placement, Below
        <3> QED BY <1>1, <3>1
    <2>2. \A f \in Place : Vacant(f)' => f < page_counter'
        <3>1. ASSUME NEW f \in Place, Vacant(f)' PROVE f < n + 1
            <4>1. f \in Nat /\ (Vacant(f) \/ f = k)
                BY <1>4, <3>1
            <4>2. Vacant(f) => f < n
                BY <1>1 DEF Placement, Below
            <4> QED BY <1>1, <1>4, <4>1, <4>2, SMT
        <3> QED BY <1>1, <3>1
    <2> QED BY <2>1, <2>2 DEF Below
<1>11. Homes'
    <2>1. ASSUME NEW u \in Thread, NEW j \in Place, Owned(u, j), ~Vacant(j)'
          PROVE  frame_table'[j] # NoPage /\ home(frame_table'[j]) = j
        <3>1. j \in Nat /\ j # k /\ ~Vacant(j) /\ j < n
            BY <1>1, <1>4, <2>1 DEF Placement, Below
        <3>2. j # n
            BY <1>1, <3>1, SMT
        <3>3. frame_table'[j] = frame_table[j]
            BY <1>3, <3>1, <3>2
        <3> QED BY <2>1, <3>1, <3>3 DEF Placement, Homes
    <2>2. \A u \in Thread, j \in Place : Owned(u, j)' /\ ~Vacant(j)' =>
             frame_table'[j] # NoPage /\ home(frame_table'[j]) = j
        BY <2>1
    <2> QED BY <2>2 DEF Homes, home
<1> QED BY <1>6, <1>7, <1>8, <1>9, <1>10, <1>11 DEF Placement

\* What an eviction does to the contents of memory and of the swap file.
LEMMA EvictCopies ==
  ASSUME Typed, NEW k \in Place, NEW n \in Nat, n = page_counter, Evict(k)
  PROVE  /\ mem' \in [Place -> AnyContent]
         /\ \A o \in DOMAIN disk' : o \in Nat /\ disk'[o] \in AnyContent
         /\ n \in Place => /\ mem'[n] = mem[k] /\ disk' = disk
                           /\ \A f \in Place \ {n} : mem'[f] = mem[f]
         /\ n \notin Place => disk' = Written(Slot(n) * WriteStride, mem[k]) /\ mem' = mem
<1>1. mem \in [Place -> AnyContent] /\ \A o \in DOMAIN disk : o \in Nat /\ disk[o] \in AnyContent
    BY DEF Typed, Shaped
<1>2. CASE n \in Place
    <2>1. page_counter <= NumFrames
        BY <1>2, Numbers
    <2>2. mem' = [mem EXCEPT ![n] = mem[k]] /\ disk' = disk
        BY <2>1 DEF Evict
    <2> QED BY <1>1, <1>2, <2>2
<1>3. CASE n \notin Place
    <2>1. ~(page_counter <= NumFrames)
        BY <1>3, Numbers
    <2>2. disk' = Written(Slot(n) * WriteStride, mem[k]) /\ mem' = mem
        BY <2>1 DEF Evict
    <2>3. Slot(n) * WriteStride \in Nat
        BY <1>3, SlotFacts, Products, MemoryAssumption
    <2>4. mem[k] \in AnyContent
        BY <1>1
    <2>5. \A o \in DOMAIN disk' : o \in Nat /\ disk'[o] \in AnyContent
        BY <2>2, <2>3, <2>4, WriteReads
    <2> QED BY <1>1, <1>3, <2>2, <2>5
<1> QED BY <1>2, <1>3

\* An eviction changes no page.
LEMMA EvictContents ==
  ASSUME Typed, Placement, SwapSound, NEW p, NEW k, NEW n, Evicted(p, k, n), Evict(k),
         NEW r \in Page, Given(r)
  PROVE  ContentOf(r)' = ContentOf(r)
<1>1. /\ k \in Place /\ n \in Nat /\ n < TotalPages /\ page_counter = n
      /\ r = p => Where(r) = k /\ k < n
      /\ meta'[r].page_frame = IF r = p THEN n ELSE meta[r].page_frame
    BY PagePair DEF Evicted
<1>2. /\ n \in Place => /\ mem'[n] = mem[k] /\ disk' = disk
                        /\ \A f \in Place \ {n} : mem'[f] = mem[f]
      /\ n \notin Place => disk' = Written(Slot(n) * WriteStride, mem[k]) /\ mem' = mem
    BY <1>1, EvictCopies
<1>3. mem[k] \in AnyContent
    BY <1>1 DEF Typed, Shaped
<1>4. n \notin Place => Offset(n) \in Nat /\ Slot(n) * WriteStride = Offset(n)
    BY <1>1, SlotsApart
<1>5. Where(r) \in Nat /\ Where(r) # n
    <2>1. Where(r) \in Nat /\ Where(r) \in 0 .. page_counter - 1
        BY GivenWhere DEF Placement, Placed
    <2> QED BY <1>1, <2>1, SMT
<1>6. CASE r = p
    <2>1. ContentOf(r) = mem[k]
        BY <1>1, <1>6, ContentWhere
    <2>2. CASE n \in Place
        BY <1>1, <1>2, <1>6, <2>1, <2>2, ContentWhereNext
    <2>3. CASE n \notin Place
        <3>1. ContentOf(r)' = Read(Offset(n))'
            BY <1>1, <1>6, <2>3, ContentWhereNext
        <3>2. Read(Offset(n))' = mem[k]
            BY <1>2, <1>3, <1>4, <2>3, WriteReads
        <3> QED BY <2>1, <3>1, <3>2
    <2> QED BY <2>2, <2>3
<1>7. CASE r # p
    <2>1. meta'[r].page_frame = Where(r)
        BY <1>1, <1>7 DEF Where
    <2>2. CASE Where(r) \in Place
        <3>1. mem'[Where(r)] = mem[Where(r)]
            BY <1>2, <1>5, <2>2
        <3> QED BY <1>5, <2>1, <2>2, <3>1, ContentWhere, ContentWhereNext
    <2>3. CASE Where(r) \notin Place
        <3>1. ContentOf(r)' = Read(Offset(Where(r)))' /\ ContentOf(r) = Read(Offset(Where(r)))
            BY <1>5, <2>1, <2>3, ContentWhere, ContentWhereNext DEF Where
        <3>2. CASE n \in Place
            BY <1>2, <2>1, <3>1, <3>2 DEF Read, Where
        <3>3. CASE n \notin Place
            <4>1. PICK w : w = Where(r)
                OBVIOUS
            <4>2. /\ Offset(w) \in Nat
                  /\ Offset(w) + PageBytes <= Offset(n) \/ Offset(n) + PageBytes <= Offset(w)
                BY <1>1, <1>5, <2>3, <3>3, <4>1, SlotOwn
            <4>3. Read(Offset(w))' = Read(Offset(w))
                BY <1>2, <1>3, <1>4, <3>3, <4>2, WriteReads
            <4>4. ContentOf(r)' = Read(Offset(w))'
                BY <2>1, <3>1, <4>1 DEF Where, Read
            <4> QED BY <3>1, <4>1, <4>3, <4>4
        <3> QED BY <3>2, <3>3
    <2> QED BY <2>2, <2>3
<1> QED BY <1>6, <1>7

\* A frame is vacated for the running thread.
LEMMA EvictDone ==
  ASSUME Typed, Placement, NEW k \in Place, ~Vacant(k), k <= page_counter, page_counter < TotalPages, Evict(k),
         \A t \in Thread, j \in Place : Owned(t, j)' <=> Owned(t, j),
         \A f \in Nat : Vacant(f)' <=> Vacant(f) \/ f = k
  PROVE  /\ Placement' /\ MemoryTyped' /\ page_counter' = page_counter + 1 /\ page_counter' \in 0 .. TotalPages
         /\ MetaKept /\ (SwapSound => SameContents) /\ (Bounded => Bounded')
         /\ \A f \in Place : f < page_counter /\ f # k => frame_table'[f] = frame_table[f]
<1> PICK p, n : p = frame_table[k] /\ n = page_counter
    OBVIOUS
<1>1. Evicted(p, k, n) /\ MetaKept
    <2>1. Evicted(frame_table[k], k, page_counter) /\ MetaKept
        BY EvictMoves
    <2> QED BY <2>1
<1>2. Placement'
    BY <1>1, EvictPlacement
<1>3. n \in Nat /\ n < TotalPages /\ page_counter' = n + 1
    BY <1>1 DEF Evicted
<1>4. MemoryTyped'
    <2>1. mem' \in [Place -> AnyContent] /\ \A o \in DOMAIN disk' : o \in Nat /\ disk'[o] \in AnyContent
        BY <1>3, EvictCopies
    <2> QED BY <1>1, <2>1 DEF MemoryTyped, Evicted
<1>5. ASSUME SwapSound PROVE SameContents
    <2>1. \A r \in Page : Given(r) => ContentOf(r)' = ContentOf(r)
        BY <1>1, <1>5, EvictContents
    <2>2. ASSUME NEW r \in Page PROVE Given(r)' <=> Given(r)
        <3>1. /\ meta'[r].page_frame = IF r = p THEN n ELSE meta[r].page_frame
              /\ r = p => Given(r)
            BY <1>1, PagePair DEF Evicted
        <3>2. n # -1
            BY <1>3, SMT
        <3> QED BY <3>1, <3>2 DEF Given
    <2> QED BY <2>1, <2>2 DEF SameContents
<1>6. page_counter' \in 0 .. TotalPages
    BY <1>3, Numbers, SMT
<1>7. \A f \in Place : f < page_counter /\ f # k => frame_table'[f] = frame_table[f]
    BY <1>1, Numbers DEF Evicted
<1>8. ASSUME Bounded PROVE Bounded'
    <2>1. /\ n \in Place => /\ mem'[n] = mem[k] /\ disk' = disk
                            /\ \A f \in Place \ {n} : mem'[f] = mem[f]
          /\ n \notin Place => disk' = Written(Slot(n) * WriteStride, mem[k]) /\ mem' = mem
        BY <1>3, EvictCopies
    <2>2. \A f \in Place : Fits(mem[f])
        BY <1>8 DEF Bounded
    <2>3. \A f \in Place : Fits(mem'[f])
        BY <2>1, <2>2
    <2> QED BY <1>1, <1>8, <2>1, <2>2, <2>3, BoundedKept
<1> QED BY <1>1, <1>2, <1>3, <1>4, <1>5, <1>6, <1>7, <1>8

-----------------------------------------------------------------------------
(* Taking a page, or finding that there is none.                           *)

\* The chains and the chunks when a thread's malloc_frame runs ahead of its pages.
LEMMA ChainsKept ==
  ASSUME Structure, MetaKept, \A t \in Thread : \A k : Owned(t, k)' <=> Owned(t, k),
         \A t \in Thread :
           /\ Has(t)' => first_page'[t] = <<t, 0>>
           /\ ~Has(t)' => malloc_frame'[t] = 0
           /\ malloc_frame'[t] < NumFrames
           /\ Has(t)' /\ call'[t].at = "new" => malloc_frame'[t] > 0
  PROVE  Structure'
<1>1. \A t \in Thread, k \in Place : <<t, k>> \in Page
    BY PagePair
<1>2. \A t \in Thread, k \in Place :
        /\ meta'[<<t, k>>].next = meta[<<t, k>>].next /\ meta'[<<t, k>>].front_meta = meta[<<t, k>>].front_meta
        /\ meta'[<<t, k>>].head = meta[<<t, k>>].head
    BY <1>1 DEF MetaKept
<1>3. Chained'
    BY <1>2 DEF Structure, Chained
<1>4. Blocked'
    BY <1>2 DEF Structure, Blocked
<1> QED BY <1>3, <1>4 DEF Structure

\* Take counts one more page for the thread, and vacates the frame for it.
LEMMA TakeKeeps ==
  ASSUME Inv, Take
  PROVE  Inv' /\ Steady
<1>1. Typed /\ Placement /\ Structure /\ Chained /\ Calls
    BY DEF Inv, Structure
<1>2. cur \in Thread /\ Call = call[cur] /\ Call \in CallType
    BY <1>1, CallFacts
<1>3. At("take") /\ Room /\ (Has(cur) => LastHere)
    BY <1>1 DEF Take, Calls, AtTake
<1>4. Quiet /\ call[cur].at # "new" /\ Call.at = "take" /\ Call.at \in MallocPoints
    BY <1>3 DEF Quiet, At, MallocPoints, Call
<1> PICK m : m = malloc_frame[cur]
    OBVIOUS
<1> PICK k : k = IF first_page[cur] = NoPage THEN 0 ELSE m + 1
    OBVIOUS
<1>5. /\ m \in Nat /\ m < NumFrames - 1 /\ page_counter < TotalPages /\ page_counter \in Nat
      /\ Has(cur) => Owned(cur, m) /\ m \in Place /\ m < page_counter
      /\ ~Has(cur) => m = 0
    <2>1. m \in Nat /\ m < NumFrames - 1 /\ (Has(cur) => Owned(cur, m) /\ m \in Place)
        BY <1>1, <1>2, <1>3, <1>4, OwnedFrames DEF Room
    <2>2. page_counter < TotalPages
        BY DEF Take, MayGrow
    <2>3. page_counter \in Nat
        BY <1>1, SMT DEF Typed, Shaped
    <2> QED BY <1>1, <1>2, <2>1, <2>2, <2>3 DEF Placement, Below, Chained
<1>6. k \in Nat /\ k <= page_counter /\ k < NumFrames /\ k \in Place /\ (Has(cur) => k = m + 1) /\ (~Has(cur) => k = 0)
    <2>1. (Has(cur) => k = m + 1) /\ (~Has(cur) => k = 0)
        BY DEF Has
    <2>2. k \in Nat /\ k <= page_counter /\ k < NumFrames
        BY <1>5, <2>1, Numbers, SMT
    <2> QED BY <2>1, <2>2, Numbers
<1>7. /\ malloc_frame' = [malloc_frame EXCEPT ![cur] = k]
      /\ Evict(k) /\ SwapDone /\ Goto("new")
      /\ cur' = cur /\ first_page' = first_page /\ current_page_meta' = current_page_meta /\ head' = head
    BY DEF Take
<1>8. malloc_frame'[cur] = k /\ (\A t \in Thread \ {cur} : malloc_frame'[t] = malloc_frame[t]) /\ malloc_frame' \in [Thread -> Place]
    BY <1>1, <1>2, <1>6, <1>7 DEF Typed, Shaped
<1> DEFINE n == [Call EXCEPT !.at = "new"]
<1>9. n \in CallType /\ n.at = "new" /\ n.x = Call.x
    BY <1>2 DEF CallType, Points
<1>10. call' = [call EXCEPT ![cur] = n]
    BY <1>2, <1>7 DEF Goto
<1> HIDE DEF n
<1>11. call' \in [Thread -> CallType] /\ call'[cur] = n /\ \A t \in Thread \ {cur} : call'[t] = call[t]
    BY <1>1, <1>9, <1>10, CallNext
<1>12. Call' = n /\ Call'.at = "new" /\ call'[cur].at = "new" /\ Call'.x = Call.x
    BY <1>7, <1>9, <1>11 DEF Call
<1>13. \A t \in Thread : \A j : Owned(t, j)' <=> Owned(t, j)
    <2>1. ASSUME NEW t \in Thread \ {cur}, NEW j PROVE Owned(t, j)' <=> Owned(t, j)
        BY <1>7, <1>8, <1>11 DEF Owned, Has
    <2>2. ASSUME NEW j PROVE Owned(cur, j)' <=> Owned(cur, j)
        <3>1. CASE ~Has(cur)
            BY <1>7, <3>1 DEF Owned, Has
        <3>2. CASE Has(cur) /\ j \notin Place
            BY <3>2 DEF Owned
        <3>3. CASE Has(cur) /\ j \in Place
            <4>1. Has(cur)' /\ j \in Nat
                BY <1>7, <3>3, Numbers DEF Has
            <4>2. Owned(cur, j)' <=> j < k
                BY <1>7, <1>8, <1>12, <3>3, <4>1 DEF Owned
            <4>3. Owned(cur, j) <=> j <= m
                BY <1>4, <1>5, <3>3, <4>1, SMT DEF Owned
            <4> QED BY <1>5, <1>6, <3>3, <4>1, <4>2, <4>3, SMT
        <3> QED BY <3>1, <3>2, <3>3
    <2> QED BY <1>7, <2>1, <2>2 DEF Owned, Has
<1>14. ~Vacant(k) /\ \A f \in Nat : Vacant(f)' <=> Vacant(f) \/ f = k
    BY <1>4, <1>7, <1>8, <1>12 DEF Vacant, Quiet, At
<1>15. /\ Placement' /\ MemoryTyped' /\ page_counter' \in 0 .. TotalPages
       /\ MetaKept /\ (SwapSound => SameContents) /\ (Bounded => Bounded')
       /\ \A f \in Place : f < page_counter /\ f # k => frame_table'[f] = frame_table[f]
    BY <1>1, <1>5, <1>6, <1>7, <1>13, <1>14, EvictDone
<1>16. Structure'
    <2>1. ASSUME NEW t \in Thread
          PROVE  /\ Has(t)' => first_page'[t] = <<t, 0>>
                 /\ ~Has(t)' => malloc_frame'[t] = 0
                 /\ malloc_frame'[t] < NumFrames
                 /\ Has(t)' /\ call'[t].at = "new" => malloc_frame'[t] > 0
        <3>1. /\ Has(t) => first_page[t] = <<t, 0>>
              /\ ~Has(t) => malloc_frame[t] = 0
              /\ malloc_frame[t] < NumFrames
              /\ Has(t) /\ call[t].at = "new" => malloc_frame[t] > 0
            BY <1>1 DEF Chained
        <3>2. Has(t)' <=> Has(t)
            BY <1>7 DEF Has
        <3>3. CASE t = cur
            BY <1>5, <1>6, <1>7, <1>8, <3>1, <3>2, <3>3, SMT
        <3>4. CASE t # cur
            BY <1>7, <1>8, <1>11, <3>1, <3>2, <3>4
        <3> QED BY <3>3, <3>4
    <2> QED BY <1>1, <1>13, <1>15, <2>1, ChainsKept
<1>17. Typed'
    <2>1. mem_flag' \in BOOLEAN /\ open' \subseteq Frame
        BY <1>7 DEF SwapDone
    <2> QED BY <1>1, <1>7, <1>8, <1>11, <1>15, <2>1, TypedNext DEF Typed, Shaped
<1>18. AtTake'
    <2>1. ASSUME Has(cur)' PROVE Here(malloc_frame[cur] - 1)'
        <3>1. Has(cur)
            BY <1>7, <2>1 DEF Has
        <3>2. k - 1 = m /\ m # k
            BY <1>5, <1>6, <3>1, SMT
        <3>3. frame_table'[m] = <<cur, m>>
            BY <1>3, <1>5, <1>15, <3>1, <3>2 DEF LastHere, Here
        <3> QED BY <1>7, <1>8, <3>2, <3>3 DEF Here
    <2> QED BY <1>12, <2>1 DEF AtTake, At, Call
<1>19. AtLocate' /\ AtLoad' /\ AtChunk' /\ AtTry' /\ AtScan' /\ AtEvict' /\ AtFree'
    BY <1>12 DEF AtLocate, AtLoad, AtChunk, AtTry, AtScan, AtEvict, AtFree, At, Call
<1>20. Asked'
    BY <1>1, <1>4, <1>12, AskedStill
<1>21. Calls' /\ Opened'
    BY <1>1, <1>7, <1>11, <1>12, <1>13, <1>18, <1>19, <1>20, AtPoint
<1> QED BY <1>13, <1>15, <1>16, <1>17, <1>21 DEF Inv, Steady

\* TakeFails gives the call up, if the client lets it come to that.
LEMMA TakeFailsKeeps ==
  ASSUME Inv, TakeFails
  PROVE  Inv' /\ Steady
<1>1. Typed /\ Placement /\ Structure /\ Chained /\ Calls
    BY DEF Inv, Structure
<1>2. cur \in Thread /\ Call = call[cur] /\ Call \in CallType
    BY <1>1, CallFacts
<1>3. At("take") /\ Room /\ ~MayGrow
    BY <1>1 DEF TakeFails, Calls, AtTake
<1>4. Quiet
    BY <1>3 DEF Quiet, At
<1>5. /\ call' = [call EXCEPT ![cur] = Idle] /\ UNCHANGED pages
      /\ cur' = cur /\ first_page' = first_page /\ malloc_frame' = malloc_frame
      /\ current_page_meta' = current_page_meta /\ head' = head /\ mem_flag' = mem_flag /\ open' = open
    BY DEF TakeFails, threads, globals
<1>6. Idle \in CallType /\ Idle.at \notin {"new", "evict"} /\ Idle.at = "user"
    BY IdleType
<1>7. /\ call' \in [Thread -> CallType] /\ Call' = Idle
      /\ \A t \in Thread \ {cur} : call'[t] = call[t]
      /\ SameOwners /\ Quiet' /\ SameVacant
      /\ \A t \in Thread : \A k : Owned(t, k)' <=> Owned(t, k)
    BY <1>1, <1>4, <1>5, <1>6, CallGoesOn
<1>8. Moved
    BY <1>1, <1>5, <1>7, NothingMoved
<1>9. Typed'
    <2>1. MemoryTyped' /\ page_counter' = page_counter
        BY <1>8 DEF Moved
    <2> QED BY <1>1, <1>5, <1>7, <2>1, TypedNext DEF Typed, Shaped
<1>10. Calls'
    BY <1>1, <1>5, <1>6, <1>7, AtUser
<1>11. Opened'
    <2>1. Careless # {}
        <3>1. malloc_frame[cur] \in Nat
            BY <1>1, <1>2, OwnedFrames
        <3>2. malloc_frame[cur] < NumFrames
            BY <1>3, <3>1, Numbers, SMT DEF Room
        <3> QED BY <1>3, <3>2 DEF Room, MayGrow
    <2> QED BY <2>1 DEF Opened
<1> QED BY <1>7, <1>8, <1>9, <1>10, <1>11 DEF Inv, Steady, Moved

-----------------------------------------------------------------------------
(* The threads' own use of their memory, and swap_handler.                 *)

\* A thread is in swap_handler, or about to open the frame where its page is.
LEMMA AtFault ==
  ASSUME Typed, Calls, cur' = cur, \A t \in Thread \ {cur} : call'[t] = call[t],
         \A t \in Thread : \A k : Owned(t, k) => Owned(t, k)', Call'.at \in {"handler", "unprotect"},
         Call'.i \in Frame, Owned(cur, Call.i)', Call'.at = "unprotect" => Here(Call.i)'
  PROVE  Calls'
<1>1. /\ Resting'
      /\ \A t \in Thread \ {cur} :
           call'[t].at = "handler" => call'[t].i \in Frame /\ Owned(t, call[t].i)'
    BY OthersRest
<1>2. call'[cur].at \in {"handler", "unprotect"} /\ call'[cur].i \in Frame /\ Owned(cur, call[cur].i)'
    BY DEF Call
<1>3. AtHandler'
    <2>1. ASSUME NEW t \in Thread, call'[t].at = "handler"
          PROVE  call'[t].i \in Frame /\ Owned(t, call[t].i)'
        <3>1. CASE t = cur
            <4>1. Owned(t, call[t].i)'
                BY <1>2, <3>1
            <4> QED BY <1>2, <3>1, <4>1
        <3>2. CASE t # cur
            BY <1>1, <2>1, <3>2
        <3> QED BY <3>1, <3>2
    <2> QED BY <2>1 DEF AtHandler, At, Call
<1>4. AtLocate' /\ AtLoad' /\ AtChunk' /\ AtTry' /\ AtScan' /\ AtTake' /\ AtEvict' /\ AtFree'
    BY <1>2 DEF AtLocate, AtLoad, AtChunk, AtTry, AtScan, AtTake, AtEvict, AtFree, At, Call
<1>5. Asked'
    BY DEF Asked, MallocPoints
<1> QED BY <1>1, <1>3, <1>4, <1>5 DEF Calls

\* The frames of a thread that is not just taking a page are its pages' homes.
LEMMA OwnFrameOwned ==
  ASSUME Typed, Chained, NEW f \in Place, OwnFrame(f), call[cur].at # "new"
  PROVE  Owned(cur, f) /\ Has(cur)
<1>1. cur \in Thread /\ Has(cur) /\ f <= malloc_frame[cur]
    BY DEF OwnFrame, Has, Typed, Shaped
<1>2. malloc_frame[cur] \in Nat /\ f \in Nat /\ Owned(cur, malloc_frame[cur])
    BY <1>1, OwnedFrames, Numbers
<1> QED BY <1>1, <1>2, OwnedFrames

\* A step that leaves the pages and the threads alone while the thread is in its own code.
LEMMA UserSteps ==
  ASSUME Inv, cur' = cur, UNCHANGED <<threads, call>>, At("user")
  PROVE  /\ Quiet /\ Quiet' /\ SameOwners /\ SameVacant /\ Call'.at = "user" /\ call' \in [Thread -> CallType]
         /\ \A t \in Thread : \A k : Owned(t, k)' <=> Owned(t, k)
         /\ Calls'
<1>1. Typed /\ Calls /\ call' = call /\ first_page' = first_page /\ malloc_frame' = malloc_frame
    BY DEF Inv, threads
<1>2. Quiet /\ Quiet' /\ Call'.at = "user"
    BY <1>1 DEF Quiet, At, Call
<1>3. SameOwners /\ SameVacant
    BY <1>1, <1>2 DEF SameOwners, SameVacant, Vacant, Quiet
<1>4. \A t \in Thread : \A k : Owned(t, k)' <=> Owned(t, k)
    BY <1>3, OwnedKept
<1>5. Calls'
    BY <1>1, <1>2, <1>4, AtUser
<1> QED BY <1>1, <1>2, <1>3, <1>4, <1>5 DEF Typed

\* A request of the thread library protects all frames.
LEMMA LibraryRequestKeeps ==
  ASSUME Inv, LibraryRequest
  PROVE  Inv' /\ Steady
<1>1. Typed /\ Placement /\ Structure
    BY DEF Inv
<1>2. /\ At("user") /\ open' = {} /\ mem_flag' = FALSE /\ UNCHANGED pages /\ UNCHANGED <<threads, call>>
      /\ cur' = cur /\ current_page_meta' = current_page_meta /\ head' = head
    BY DEF LibraryRequest
<1>3. /\ SameOwners /\ SameVacant /\ call' \in [Thread -> CallType] /\ Calls'
      /\ \A t \in Thread : \A k : Owned(t, k)' <=> Owned(t, k)
    BY <1>2, UserSteps
<1>4. Moved
    BY <1>1, <1>2, <1>3, NothingMoved
<1>5. Typed'
    <2>1. MemoryTyped' /\ page_counter' = page_counter
        BY <1>4 DEF Moved
    <2> QED BY <1>1, <1>2, <1>3, <2>1, TypedNext DEF Typed, Shaped, threads
<1>6. Opened'
    BY <1>2 DEF Opened
<1> QED BY <1>3, <1>4, <1>5, <1>6 DEF Inv, Steady, Moved

\* A thread that touches a protected frame is sent to swap_handler.
LEMMA TouchKeeps ==
  ASSUME Inv, Touch
  PROVE  Inv' /\ Steady
<1>1. Typed /\ Placement /\ Structure /\ Chained /\ Calls /\ Opened
    BY DEF Inv, Structure
<1>2. cur \in Thread /\ Call = call[cur]
    BY <1>1, CallFacts
<1>3. PICK f \in Frame : /\ OwnFrame(f)
                         /\ call' = [call EXCEPT ![cur] = [Idle EXCEPT !.at = "handler", !.i = f]]
    BY DEF Touch
<1>4. f \in Place /\ f \in Nat
    BY Numbers
<1>5. At("user") /\ Quiet /\ call[cur].at # "new"
    BY DEF Touch, Quiet, At
<1>6. Owned(cur, f)
    BY <1>1, <1>3, <1>4, <1>5, OwnFrameOwned
<1>7. /\ UNCHANGED pages /\ cur' = cur /\ first_page' = first_page /\ malloc_frame' = malloc_frame
      /\ current_page_meta' = current_page_meta /\ head' = head /\ mem_flag' = mem_flag /\ open' = open
    BY DEF Touch, threads, globals
<1> DEFINE n == [Idle EXCEPT !.at = "handler", !.i = f]
<1>8. n \in CallType /\ n.at = "handler" /\ n.i = f
    BY <1>4 DEF Idle, CallType, Points
<1>9. call' = [call EXCEPT ![cur] = n]
    BY <1>3
<1> HIDE DEF n
<1>10. /\ call' \in [Thread -> CallType] /\ Call' = n
       /\ \A t \in Thread \ {cur} : call'[t] = call[t]
       /\ SameOwners /\ SameVacant
       /\ \A t \in Thread : \A k : Owned(t, k)' <=> Owned(t, k)
    BY <1>1, <1>5, <1>7, <1>8, <1>9, CallGoesOn
<1>11. Moved
    BY <1>1, <1>7, <1>10, NothingMoved
<1>12. Typed'
    <2>1. MemoryTyped' /\ page_counter' = page_counter
        BY <1>11 DEF Moved
    <2> QED BY <1>1, <1>7, <1>10, <2>1, TypedNext DEF Typed, Shaped
<1>13. Calls'
    <2>1. Call'.i = f /\ Call'.at = "handler"
        BY <1>8, <1>10
    <2>2. Owned(cur, Call.i)'
        <3>1. Owned(cur, f)'
            BY <1>2, <1>6, <1>7, <1>10
        <3> QED BY <2>1, <3>1
    <2> QED BY <1>1, <1>7, <1>10, <2>1, <2>2, AtFault
<1>14. Opened'
    BY <1>1, <1>5, <1>7 DEF Opened, Here, pages
<1> QED BY <1>10, <1>11, <1>12, <1>13, <1>14 DEF Inv, Steady, Moved

\* A place that holds a page of the running thread holds one that was given to it.
LEMMA HereOwned ==
  ASSUME Typed, Placement, Quiet, NEW f \in Place, Here(f)
  PROVE  Owned(cur, f)
<1>1. frame_table[f] = <<cur, f>> /\ <<cur, f>> \in Page /\ <<cur, f>> # NoPage /\ cur \in Thread
    BY PagePair DEF Here, Typed, Shaped
<1>2. ~Vacant(f)
    BY DEF Quiet, Vacant
<1>3. Given(<<cur, f>>)
    BY <1>1, <1>2 DEF Placement, Tabled
<1> QED BY <1>1, <1>3 DEF Placement, Placed

\* Handler brings the page home that the thread touched.
LEMMA HandlerKeeps ==
  ASSUME Inv, Handler
  PROVE  Inv' /\ Steady
<1>1. Typed /\ Placement /\ Structure /\ Chained /\ Calls /\ Opened
    BY DEF Inv, Structure
<1>2. cur \in Thread /\ Call = call[cur] /\ Call \in CallType
    BY <1>1, CallFacts
<1>3. At("handler") /\ Quiet
    BY DEF Handler, Quiet, At
<1> PICK f : f = Call.i
    OBVIOUS
<1>4. f \in Frame /\ Owned(cur, f)
    BY <1>1, <1>2, <1>3 DEF Calls, AtHandler, At
<1>5. f \in Place /\ f \in Nat
    BY <1>4, Numbers
<1>6. Walk(cur, f) = <<cur, f>> /\ (Resident(cur, f) <=> Here(f))
    BY <1>1, <1>2, <1>3, <1>4, <1>5, WalkFinds, ResidentHere
<1> PICK d : d = Where(<<cur, f>>)
    OBVIOUS
<1>7. /\ IF Here(f) THEN UNCHANGED pages ELSE Exchange(f, d)
      /\ Here(f) => UNCHANGED pages /\ mem_flag' = mem_flag /\ open' = open
      /\ ~Here(f) => mem_flag' = FALSE /\ open' = {}
      /\ cur' = cur /\ first_page' = first_page /\ malloc_frame' = malloc_frame
      /\ current_page_meta' = current_page_meta /\ head' = head /\ Goto("unprotect")
    BY <1>6 DEF Handler, threads, Where
<1> DEFINE n == [Call EXCEPT !.at = "unprotect"]
<1>8. n \in CallType /\ n.at = "unprotect" /\ n.i = f
    BY <1>2 DEF CallType, Points
<1>9. call' = [call EXCEPT ![cur] = n]
    BY <1>2, <1>7 DEF Goto
<1> HIDE DEF n
<1>10. /\ call' \in [Thread -> CallType] /\ Call' = n
       /\ \A t \in Thread \ {cur} : call'[t] = call[t]
       /\ SameOwners /\ Quiet' /\ SameVacant
       /\ \A t \in Thread : \A k : Owned(t, k)' <=> Owned(t, k)
    BY <1>1, <1>3, <1>7, <1>8, <1>9, CallGoesOn
<1>11. Moved /\ Here(f)'
    BY <1>1, <1>3, <1>4, <1>5, <1>7, <1>10, BroughtHome
<1>12. Typed'
    <2>1. MemoryTyped' /\ page_counter' = page_counter
        BY <1>11 DEF Moved
    <2>2. mem_flag' \in BOOLEAN /\ open' \subseteq Frame
        BY <1>1, <1>7 DEF Typed, Shaped
    <2> QED BY <1>1, <1>7, <1>10, <2>1, <2>2, TypedNext DEF Typed, Shaped
<1>13. Calls'
    <2>1. Call'.i = f /\ Call'.at = "unprotect"
        BY <1>8, <1>10
    <2>2. Owned(cur, Call.i)'
        <3>1. Owned(cur, f)'
            BY <1>2, <1>4, <1>7, <1>10
        <3> QED BY <2>1, <3>1
    <2>3. Here(Call.i)'
        BY <1>11, <2>1
    <2> QED BY <1>1, <1>4, <1>7, <1>10, <2>1, <2>2, <2>3, AtFault
<1>14. Opened'
    <2>1. CASE Here(f)
        BY <1>1, <1>3, <1>7, <2>1 DEF Opened, Here, pages
    <2>2. CASE ~Here(f)
        BY <1>7, <2>2 DEF Opened
    <2> QED BY <2>1, <2>2
<1> QED BY <1>10, <1>11, <1>12, <1>13, <1>14 DEF Inv, Steady, Moved

\* Unprotect opens the frame, where the thread's page is.
LEMMA UnprotectKeeps ==
  ASSUME Inv, Unprotect
  PROVE  Inv' /\ Steady
<1>1. Typed /\ Placement /\ Structure /\ Calls /\ Opened
    BY DEF Inv
<1>2. cur \in Thread /\ Call = call[cur]
    BY <1>1, CallFacts
<1>3. At("unprotect") /\ Quiet
    BY DEF Unprotect, Quiet, At
<1> PICK f : f = Call.i
    OBVIOUS
<1>4. f \in Frame /\ Here(f)
    BY <1>1, <1>3 DEF Calls, AtHandler
<1>5. /\ open' = open \cup {f} /\ call' = [call EXCEPT ![cur] = Idle] /\ UNCHANGED pages
      /\ cur' = cur /\ first_page' = first_page /\ malloc_frame' = malloc_frame
      /\ current_page_meta' = current_page_meta /\ head' = head /\ mem_flag' = mem_flag
    BY DEF Unprotect, threads
<1>6. Idle \in CallType /\ Idle.at \notin {"new", "evict"} /\ Idle.at = "user"
    BY IdleType
<1>7. /\ call' \in [Thread -> CallType] /\ Call' = Idle
      /\ \A t \in Thread \ {cur} : call'[t] = call[t]
      /\ SameOwners /\ SameVacant
      /\ \A t \in Thread : \A k : Owned(t, k)' <=> Owned(t, k)
    BY <1>1, <1>3, <1>5, <1>6, CallGoesOn
<1>8. Moved
    BY <1>1, <1>5, <1>7, NothingMoved
<1>9. Typed'
    <2>1. MemoryTyped' /\ page_counter' = page_counter
        BY <1>8 DEF Moved
    <2>2. open' \subseteq Frame
        BY <1>1, <1>4, <1>5 DEF Typed, Shaped
    <2> QED BY <1>1, <1>5, <1>7, <2>1, <2>2, TypedNext DEF Typed, Shaped
<1>10. Calls'
    BY <1>1, <1>5, <1>6, <1>7, AtUser
<1>11. Opened'
    BY <1>1, <1>3, <1>4, <1>5 DEF Opened, Here, pages
<1> QED BY <1>7, <1>8, <1>9, <1>10, <1>11 DEF Inv, Steady, Moved

\* The processor goes to another thread, all frames protected.
LEMMA SwitchKeeps ==
  ASSUME Inv, Switch, Preemptible \subseteq {"user", "handler"}
  PROVE  Inv' /\ Steady
<1>1. Typed /\ Placement /\ Structure /\ Calls
    BY DEF Inv
<1>2. cur \in Thread /\ Call = call[cur]
    BY <1>1, CallFacts
<1>3. /\ Call.at \in {"user", "handler"} /\ cur' \in Thread \ {cur} /\ open' = {} /\ UNCHANGED pages
      /\ first_page' = first_page /\ malloc_frame' = malloc_frame /\ call' = call
      /\ current_page_meta' = current_page_meta /\ head' = head /\ mem_flag' = mem_flag
    BY DEF Switch, threads
<1>4. \A t \in Thread : call'[t].at \in {"user", "handler"}
    BY <1>1, <1>2, <1>3 DEF Calls, Resting
<1>5. Call'.at \in {"user", "handler"}
    BY <1>3, <1>4 DEF Call
<1>6. SameOwners /\ SameVacant
    BY <1>3, <1>5 DEF SameOwners, SameVacant, Vacant, At, Call
<1>7. \A t \in Thread : \A k : Owned(t, k)' <=> Owned(t, k)
    BY <1>6, OwnedKept
<1>8. /\ Placement' /\ Structure' /\ MemoryTyped' /\ page_counter' = page_counter /\ MetaKept /\ SameContents
      /\ (Bounded => Bounded')
    BY <1>1, <1>3, <1>6, PagesUnchanged
<1>9. Typed'
    BY <1>1, <1>3, <1>8, TypedNext DEF Typed, Shaped
<1>10. Calls'
    <2>1. Resting'
        BY <1>4 DEF Resting
    <2>2. AtHandler'
        BY <1>1, <1>3, <1>5, <1>7 DEF Calls, AtHandler, At, Call
    <2>3. AtLocate' /\ AtLoad' /\ AtChunk' /\ AtTry' /\ AtScan' /\ AtTake' /\ AtEvict' /\ AtFree'
        BY <1>5 DEF AtLocate, AtLoad, AtChunk, AtTry, AtScan, AtTake, AtEvict, AtFree, At, Call
    <2>4. Asked'
        BY <1>5 DEF Asked, MallocPoints
    <2> QED BY <2>1, <2>2, <2>3, <2>4 DEF Calls
<1>11. Opened'
    BY <1>3 DEF Opened
<1> QED BY <1>7, <1>8, <1>9, <1>10, <1>11 DEF Inv, Steady

-----------------------------------------------------------------------------
(* The free counts.                                                        *)

\* The heap that a page answers for begins in a page of the same thread.
LEMMA HeadOwned ==
  ASSUME Typed, Structure, NEW t \in Thread, NEW k \in Place, Owned(t, k), meta[<<t, k>>].head # Null
  PROVE  meta[<<t, k>>].head \in Place /\ Owned(t, meta[<<t, k>>].head)
<1>1. meta[<<t, k>>].head \in {0, k}
    BY DEF Structure, Blocked
<1>2. Has(t)
    BY DEF Owned
<1>3. 0 \in Place /\ Owned(t, 0)
    BY <1>2, Numbers, OwnedFrames DEF Structure
<1> QED BY <1>1, <1>3

\* The counts stay true when no page and no count changes.
LEMMA CountedKept ==
  ASSUME Typed, Placement, Structure, Counted, MetaKept,
         \A t \in Thread, k \in Place : Owned(t, k)' <=> Owned(t, k),
         \A r \in Page : Given(r) => ContentOf(r)'.free = ContentOf(r).free
  PROVE  Counted'
<1>1. ASSUME NEW t \in Thread, NEW k \in Place, Owned(t, k), meta'[<<t, k>>].head # Null
      PROVE  meta'[<<t, k>>].free_page_mem = ContentOf(<<t, meta[<<t, k>>].head>>)'.free
    <2>1. <<t, k>> \in Page
        BY PagePair
    <2>2. meta'[<<t, k>>].head = meta[<<t, k>>].head /\ meta'[<<t, k>>].free_page_mem = meta[<<t, k>>].free_page_mem
        BY <2>1 DEF MetaKept
    <2> PICK g : g = meta[<<t, k>>].head
        OBVIOUS
    <2>3. meta[<<t, k>>].free_page_mem = ContentOf(<<t, g>>).free /\ g # Null
        BY <1>1, <2>2 DEF Counted
    <2>4. g \in Place /\ Owned(t, g)
        BY <1>1, <2>3, HeadOwned
    <2>5. <<t, g>> \in Page /\ Given(<<t, g>>)
        BY <2>4, OwnedPlaces
    <2>6. ContentOf(<<t, g>>)'.free = ContentOf(<<t, g>>).free
        BY <2>5
    <2>7. ContentOf(<<t, meta[<<t, k>>].head>>)' = ContentOf(<<t, g>>)'
        BY <2>2 DEF ContentOf
    <2> QED BY <2>2, <2>3, <2>6, <2>7
<1> QED BY <1>1 DEF Counted

\* A step that gives no page and changes none leaves the counts true.
LEMMA SteadySound ==
  ASSUME Inv, Steady, SwapSound, Sound
  PROVE  Sound'
<1>1. Bounded' /\ SameContents /\ MetaKept
    BY DEF Steady, Sound
<1>2. Counted'
    BY <1>1, CountedKept DEF Inv, Steady, Sound, SameContents
<1> QED BY <1>1, <1>2 DEF Sound

-----------------------------------------------------------------------------
(* mydeallocate.                                                           *)

\* myfree is refused in a page that has no heap, or adds to what is free, and the call is
\* over.
LEMMA MyFreeKeeps ==
  ASSUME Inv, Quiet, cur' = cur, first_page' = first_page, malloc_frame' = malloc_frame,
         NEW c, NEW h, NEW y \in Nat, Ready(c), h = meta[<<cur, c>>].head,
         h # Null => y + meta[<<cur, c>>].free_page_mem <= PageUnits,
         MyFree(<<cur, c>>, h, y), UNCHANGED <<disk, frame_table, page_counter>>, Return,
         current_page_meta' \in Page \cup {NoPage}, head' \in Place \cup {Null}
  PROVE  Inv' /\ Writes
<1>1. Typed /\ Placement /\ Structure /\ Chained /\ Calls
    BY DEF Inv, Structure
<1>2. cur \in Thread
    BY <1>1, CallFacts
<1>3. Owned(cur, c) /\ Here(c)
    BY DEF Ready
<1>4. c \in Place
    BY <1>3 DEF Owned
<1> PICK p : p = <<cur, c>>
    OBVIOUS
<1>5. p \in Page /\ meta[p] \in AnyMeta /\ Given(p) /\ ContentOf(p) \in AnyContent
    BY <1>1, <1>2, <1>3, <1>4, OwnedPlaces, ContentType DEF Typed, Shaped
<1>6. CASE h # Null
    <2>1. Save(p, h, mem[h].free + y)
        BY <1>6 DEF MyFree
    <2> PICK free : free = mem[h].free + y
        OBVIOUS
    <2>2. HeapOf(c, h)
        BY DEF HeapOf
    <2>3. h \in Place /\ Owned(cur, h) /\ Here(h)
        BY <1>1, <1>6, <2>2, HeapBegins
    <2>4. mem[h].free \in Int
        BY <1>1, <2>3 DEF Typed, Shaped, AnyContent
    <2>5. ASSUME Sound PROVE free \in 0 .. PageUnits
        <3>1. meta[<<cur, c>>].free_page_mem = ContentOf(<<cur, h>>).free
            BY <1>2, <1>3, <1>4, <1>6, <2>5 DEF Sound, Counted
        <3>2. ContentOf(<<cur, h>>) = mem[h]
            BY <1>1, <2>3, FrameOwn
        <3>3. mem[h].free \in 0 .. PageUnits
            BY <2>3, <2>5 DEF Sound, Bounded, Fits
        <3>4. y + mem[h].free <= PageUnits
            BY <1>6, <3>1, <3>2
        <3> QED BY <3>3, <3>4, Numbers, SMT
    <2>6. free \in Int
        BY <2>4, SMT
    <2> QED BY <1>6, <2>1, <2>2, <2>5, <2>6, SaveReturns
<1>7. CASE h = Null
    <2>1. meta' = [meta EXCEPT ![p].free_page_mem = 0] /\ mem' = mem
        BY <1>7 DEF MyFree
    <2> DEFINE m == [meta[p] EXCEPT !.free_page_mem = 0]
    <2>2. /\ m \in AnyMeta /\ m.page_frame = meta[p].page_frame /\ m.next = meta[p].next
          /\ m.front_meta = meta[p].front_meta /\ m.head = meta[p].head /\ m.free_page_mem = 0
        BY <1>5 DEF AnyMeta
    <2>3. meta' = [meta EXCEPT ![p] = m]
        BY <2>1
    <2> HIDE DEF m
    <2>4. meta' \in [Page -> AnyMeta] /\ meta'[p] = m /\ \A r \in Page : r # p => meta'[r] = meta[r]
        BY <1>1, <1>5, <2>2, <2>3 DEF Typed, Shaped
    <2>5. \A r \in Page : /\ meta'[r].page_frame = meta[r].page_frame /\ meta'[r].next = meta[r].next
                          /\ meta'[r].front_meta = meta[r].front_meta /\ meta'[r].head = meta[r].head
        BY <2>2, <2>4
    <2>6. /\ call' \in [Thread -> CallType] /\ Call'.at = "user" /\ open' = {} /\ mem_flag' = FALSE
          /\ \A t \in Thread \ {cur} : call'[t] = call[t]
          /\ Quiet' /\ Opened'
        BY <1>1, Returned
    <2>7. SameOwners /\ SameVacant /\ \A t \in Thread : \A k : Owned(t, k)' <=> Owned(t, k)
        BY <1>1, ReturnOwners
    <2>8. Placement'
        <3>1. \A r \in Page : Where(r)' = Where(r)
            BY <2>5 DEF Where
        <3> QED BY <1>1, <2>7, <3>1, PlacementKept
    <2>9. Structure'
        BY <1>1, <2>5, <2>7, StructureKept
    <2>10. \A r \in Page : (Given(r)' <=> Given(r)) /\ ContentOf(r)' = ContentOf(r)
        BY <2>1, <2>5 DEF Given, ContentOf, Read
    <2>11. Typed'
        <3>1. MemoryTyped'
            BY <1>1, <2>1, <2>4 DEF MemoryTyped, Typed, Shaped
        <3> QED BY <1>1, <2>6, <3>1, TypedNext DEF Typed, Shaped
    <2>12. Wrote
        <3>1. ContentOf(p)' \in AnyContent
            BY <1>5, <2>10
        <3>2. ContentOf(<<cur, c>>)' \in AnyContent
            BY <3>1 DEF ContentOf
        <3> QED BY <1>3, <1>4, <2>10, <3>2 DEF Wrote
    <2>13. Calls'
        BY <1>1, <2>6, <2>7, AtUser
    <2>14. ASSUME Sound PROVE Counted'
        <3>1. ASSUME NEW t \in Thread, NEW k \in Place, Owned(t, k), meta'[<<t, k>>].head # Null
              PROVE  meta'[<<t, k>>].free_page_mem = ContentOf(<<t, meta[<<t, k>>].head>>)'.free
            <4>1. <<t, k>> \in Page /\ meta'[<<t, k>>].head = meta[<<t, k>>].head
                BY <2>5, PagePair
            <4>2. <<t, k>> # p
                BY <1>7, <3>1, <4>1
            <4> PICK g : g = meta[<<t, k>>].head
                OBVIOUS
            <4>3. meta[<<t, k>>].free_page_mem = ContentOf(<<t, g>>).free /\ g # Null
                BY <2>14, <3>1, <4>1 DEF Sound, Counted
            <4>4. <<t, g>> \in Page
                BY <1>1, <3>1, <4>3, HeadOwned, PagePair
            <4>5. ContentOf(<<t, g>>)' = ContentOf(<<t, g>>)
                BY <2>10, <4>4
            <4>6. ContentOf(<<t, meta[<<t, k>>].head>>)' = ContentOf(<<t, g>>)'
                BY <4>1 DEF ContentOf
            <4> QED BY <2>4, <4>1, <4>2, <4>3, <4>5, <4>6
        <3> QED BY <2>7, <3>1 DEF Counted
    <2>15. ASSUME Sound PROVE Bounded'
        <3>1. 0 \in 0 .. PageUnits
            BY Numbers, SMT
        <3>2. \A r \in Page : meta'[r].free_page_mem \in 0 .. PageUnits \cup {-1}
            BY <2>2, <2>4, <2>15, <3>1 DEF Sound, Bounded
        <3> QED BY <2>1, <2>15, <3>2 DEF Sound, Bounded, Fits
    <2> QED BY <2>6, <2>7, <2>8, <2>9, <2>11, <2>12, <2>13, <2>14, <2>15 DEF Inv, Writes, Sound
<1> QED BY <1>6, <1>7

\* What the client frees in a page, and that the heap may be used, when its chunk is in
\* its place.
LEMMA ToFree ==
  ASSUME Inv, Careless \subseteq {"giveUp"}, At("user"), NEW f \in Place, OwnFrame(f), ChunkInPlace(<<cur, f>>)
  PROVE  /\ cur \in Thread /\ Quiet /\ Owned(cur, f) /\ Has(cur) /\ <<cur, f>> \in Page /\ f \in Nat
         /\ meta[<<cur, f>>].front_meta # NoPage => Here(0)
         /\ meta[<<cur, f>>] \in AnyMeta
         /\ \A y \in Freeable(<<cur, f>>) :
              y \in Nat /\ (meta[<<cur, f>>].head # Null => y + meta[<<cur, f>>].free_page_mem <= PageUnits)
<1>1. Typed /\ Structure /\ Chained /\ Blocked
    BY DEF Inv, Structure
<1>2. cur \in Thread /\ Quiet /\ call[cur].at # "new"
    BY <1>1, CallFacts DEF Quiet, At
<1>3. Owned(cur, f) /\ Has(cur) /\ <<cur, f>> \in Page /\ f \in Nat
    BY <1>1, <1>2, OwnFrameOwned, PagePair, Numbers
<1>4. meta[<<cur, f>>] \in AnyMeta
    BY <1>1, <1>3 DEF Typed, Shaped
<1>5. meta[<<cur, f>>].front_meta # NoPage => Here(0)
    <2>1. SUFFICES ASSUME meta[<<cur, f>>].front_meta # NoPage PROVE Here(0)
        OBVIOUS
    <2>2. meta[<<cur, f>>].front_meta = <<cur, 0>>
        BY <1>1, <1>2, <1>3, <2>1 DEF Blocked
    <2>3. frame_table[home(<<cur, 0>>)] = <<cur, 0>>
        BY <2>1, <2>2 DEF ChunkInPlace
    <2> QED BY <2>3 DEF Here, home
<1>6. ASSUME NEW y \in Freeable(<<cur, f>>)
      PROVE  y \in Nat /\ (meta[<<cur, f>>].head # Null => y + meta[<<cur, f>>].free_page_mem <= PageUnits)
    <2>1. meta[<<cur, f>>].free_page_mem \in Int
        BY <1>4 DEF AnyMeta
    <2>2. CASE meta[<<cur, f>>].head = Null
        BY <2>2 DEF Freeable
    <2>3. CASE meta[<<cur, f>>].head # Null
        <3>1. y \in 1 .. PageUnits - meta[<<cur, f>>].free_page_mem
            BY <2>3 DEF Freeable
        <3> QED BY <2>1, <3>1, Numbers, SMT
    <2> QED BY <2>2, <2>3
<1> QED BY <1>2, <1>3, <1>4, <1>5, <1>6

\* Free gives back to the heap of a page that is at home.
LEMMA FreeKeeps ==
  ASSUME Inv, Free, Careless \subseteq {"giveUp"}
  PROVE  Inv' /\ Writes
<1>1. Typed /\ Placement /\ Structure
    BY DEF Inv
<1>2. /\ At("user") /\ Return /\ UNCHANGED <<disk, frame_table, page_counter>>
      /\ first_page' = first_page /\ malloc_frame' = malloc_frame /\ cur' = cur
    BY DEF Free, threads
<1>3. PICK f \in Place :
        /\ OwnFrame(f) /\ Resident(cur, f) /\ ChunkInPlace(<<cur, f>>)
        /\ current_page_meta' = frame_table[f] /\ head' = meta[frame_table[f]].head
        /\ \E y \in Freeable(<<cur, f>>) : MyFree(frame_table[f], head', y)
    BY DEF Free
<1>4. /\ cur \in Thread /\ Quiet /\ Owned(cur, f) /\ <<cur, f>> \in Page /\ meta[<<cur, f>>] \in AnyMeta
      /\ meta[<<cur, f>>].front_meta # NoPage => Here(0)
      /\ \A y \in Freeable(<<cur, f>>) :
           y \in Nat /\ (meta[<<cur, f>>].head # Null => y + meta[<<cur, f>>].free_page_mem <= PageUnits)
    BY <1>2, <1>3, ToFree
<1>5. Here(f) /\ frame_table[f] = <<cur, f>>
    BY <1>1, <1>3, <1>4, ResidentHere DEF Here
<1>6. PICK h : h = meta[<<cur, f>>].head
    OBVIOUS
<1>7. PICK y \in Freeable(<<cur, f>>) : MyFree(<<cur, f>>, h, y)
    BY <1>3, <1>5, <1>6
<1>8. current_page_meta' \in Page \cup {NoPage} /\ head' \in Place \cup {Null}
    BY <1>3, <1>4, <1>5 DEF AnyMeta
<1>9. Ready(f) /\ y \in Nat /\ (h # Null => y + meta[<<cur, f>>].free_page_mem <= PageUnits)
    BY <1>4, <1>5, <1>6, <1>7 DEF Ready
<1> QED BY <1>2, <1>4, <1>6, <1>7, <1>8, <1>9, MyFreeKeeps

\* FreeSwapped does so in the page that was brought home.
LEMMA FreeSwappedKeeps ==
  ASSUME Inv, FreeSwapped
  PROVE  Inv' /\ Writes
<1>1. Typed /\ Calls
    BY DEF Inv
<1>2. /\ At("free") /\ MyFree(current_page_meta, head, Call.x) /\ Return
      /\ UNCHANGED <<disk, frame_table, page_counter>>
      /\ first_page' = first_page /\ malloc_frame' = malloc_frame /\ cur' = cur
      /\ current_page_meta' = current_page_meta /\ head' = head
    BY DEF FreeSwapped, threads
<1>3. Quiet
    BY <1>2 DEF Quiet, At
<1>4. PICK c \in Place :
        /\ current_page_meta = <<cur, c>> /\ Owned(cur, c) /\ Here(c)
        /\ meta[<<cur, c>>].front_meta # NoPage => Here(0)
        /\ head = meta[<<cur, c>>].head
        /\ head # Null => Call.x + meta[<<cur, c>>].free_page_mem <= PageUnits
    BY <1>1, <1>2 DEF Calls, AtFree
<1>5. Ready(c)
    BY <1>4 DEF Ready
<1>6. PICK h, y : h = head /\ y = Call.x
    OBVIOUS
<1>7. y \in Nat
    BY <1>1, <1>6, CallFacts
<1>8. MyFree(<<cur, c>>, h, y)
    BY <1>2, <1>4, <1>6
<1>9. current_page_meta' \in Page \cup {NoPage} /\ head' \in Place \cup {Null}
    BY <1>1, <1>2 DEF Typed, Shaped
<1>10. h = meta[<<cur, c>>].head /\ (h # Null => y + meta[<<cur, c>>].free_page_mem <= PageUnits)
    BY <1>4, <1>6
<1> QED BY <1>2, <1>3, <1>5, <1>7, <1>8, <1>9, <1>10, MyFreeKeeps

\* FreeSwaps finds the page that has another in its home, and brings it there.
LEMMA FreeSwapsKeeps ==
  ASSUME Inv, FreeSwaps, Careless \subseteq {"giveUp"}
  PROVE  Inv' /\ Steady
<1>1. Typed /\ Placement /\ Structure /\ Chained /\ Calls
    BY DEF Inv, Structure
<1>2. At("user") /\ SwapDone /\ first_page' = first_page /\ malloc_frame' = malloc_frame /\ cur' = cur
    BY DEF FreeSwaps, threads
<1>3. PICK f \in Place :
       /\ OwnFrame(f) /\ ~Resident(cur, f) /\ ChunkInPlace(<<cur, f>>)
       /\ \E y \in Freeable(<<cur, f>>) :
            call' = [call EXCEPT ![cur] = [Idle EXCEPT !.at = "free", !.x = y]]
       /\ current_page_meta' = Sought(f)
       /\ head' = meta[Sought(f)].head
       /\ Exchange(f, meta[Sought(f)].page_frame)
    BY DEF FreeSwaps
<1>4. /\ cur \in Thread /\ Quiet /\ Owned(cur, f) /\ Has(cur) /\ <<cur, f>> \in Page /\ f \in Nat
      /\ meta[<<cur, f>>] \in AnyMeta
      /\ meta[<<cur, f>>].front_meta # NoPage => Here(0)
      /\ \A y \in Freeable(<<cur, f>>) :
           y \in Nat /\ (meta[<<cur, f>>].head # Null => y + meta[<<cur, f>>].free_page_mem <= PageUnits)
    BY <1>2, <1>3, ToFree
<1>5. ~Here(f)
    BY <1>1, <1>3, <1>4, ResidentHere
<1>6. Sought(f) = <<cur, f>>
    <2>1. Walk(cur, f) = <<cur, f>>
        BY <1>1, <1>4, WalkFinds
    <2>2. ASSUME f # 0, Resident(cur, f - 1) PROVE meta[frame_table[f - 1]].next = <<cur, f>>
        <3>1. f - 1 \in Nat /\ f - 1 <= f /\ f - 1 + 1 = f
            BY <1>4, <2>2, SMT
        <3>2. Owned(cur, f - 1) /\ f - 1 \in Place
            BY <1>1, <1>4, <3>1, OwnedFrames
        <3>3. frame_table[f - 1] = <<cur, f - 1>>
            BY <1>1, <1>4, <2>2, <3>2, ResidentHere DEF Here
        <3> QED BY <1>1, <1>4, <3>1, <3>2, <3>3 DEF Chained
    <2> QED BY <2>1, <2>2 DEF Sought
<1> PICK d : d = Where(<<cur, f>>)
    OBVIOUS
<1>7. /\ current_page_meta' = <<cur, f>> /\ head' = meta[<<cur, f>>].head /\ Exchange(f, d)
    BY <1>3, <1>6 DEF Where
<1>8. PICK y \in Freeable(<<cur, f>>) :
        call' = [call EXCEPT ![cur] = [Idle EXCEPT !.at = "free", !.x = y]]
    BY <1>3
<1>9. y \in Nat /\ (meta[<<cur, f>>].head # Null => y + meta[<<cur, f>>].free_page_mem <= PageUnits)
    BY <1>4
<1> DEFINE n == [Idle EXCEPT !.at = "free", !.x = y]
<1>10. n \in CallType /\ n.at = "free" /\ n.x = y
    BY <1>9 DEF Idle, CallType, Points
<1>11. call' = [call EXCEPT ![cur] = n]
    BY <1>8
<1> HIDE DEF n
<1>12. /\ call' \in [Thread -> CallType] /\ Call' = n
       /\ \A t \in Thread \ {cur} : call'[t] = call[t]
       /\ SameOwners /\ Quiet' /\ SameVacant
       /\ \A t \in Thread : \A k : Owned(t, k)' <=> Owned(t, k)
    BY <1>1, <1>2, <1>4, <1>10, <1>11, CallGoesOn
<1>13. Moved /\ Here(f)'
    BY <1>1, <1>2, <1>4, <1>5, <1>7, <1>12, ExchangeDone
<1>14. Typed'
    <2>1. MemoryTyped' /\ page_counter' = page_counter
        BY <1>13 DEF Moved
    <2>2. mem_flag' \in BOOLEAN /\ open' \subseteq Frame
        BY <1>2 DEF SwapDone
    <2>3. current_page_meta' \in Page \cup {NoPage} /\ head' \in Place \cup {Null}
        BY <1>4, <1>7 DEF AnyMeta
    <2> QED BY <1>1, <1>2, <1>12, <2>1, <2>2, <2>3, TypedNext DEF Typed, Shaped
<1>15. AtFree'
    <2>1. Call'.x = y
        BY <1>10, <1>12
    <2>2. Owned(cur, f)'
        BY <1>2, <1>4, <1>12
    <2>3. /\ meta'[<<cur, f>>].front_meta = meta[<<cur, f>>].front_meta /\ meta'[<<cur, f>>].head = meta[<<cur, f>>].head
          /\ meta'[<<cur, f>>].free_page_mem = meta[<<cur, f>>].free_page_mem
        BY <1>4, <1>13 DEF Moved, MetaKept
    <2>4. meta'[<<cur, f>>].front_meta # NoPage => Here(0)'
        <3>1. Owned(cur, 0) /\ 0 \in Place
            BY <1>1, <1>4, OwnedFrames, Numbers
        <3> QED BY <1>4, <1>13, <2>3, <3>1 DEF Moved
    <2>5. /\ current_page_meta' = <<cur', f>> /\ head' = meta'[<<cur', f>>].head
          /\ head' # Null => Call'.x + meta'[<<cur', f>>].free_page_mem <= PageUnits
          /\ meta'[<<cur', f>>].front_meta # NoPage => Here(0)'
        BY <1>2, <1>7, <1>9, <2>1, <2>3, <2>4
    <2> QED BY <1>13, <2>2, <2>5 DEF AtFree
<1>16. AtLocate' /\ AtLoad' /\ AtChunk' /\ AtTry' /\ AtScan' /\ AtTake' /\ AtEvict' /\ Asked'
    BY <1>10, <1>12 DEF AtLocate, AtLoad, AtChunk, AtTry, AtScan, AtTake, AtEvict, Asked, MallocPoints, At, Call
<1>17. Calls' /\ Opened'
    BY <1>1, <1>2, <1>10, <1>12, <1>15, <1>16, AtPoint
<1> QED BY <1>12, <1>13, <1>14, <1>17 DEF Inv, Steady, Moved

-----------------------------------------------------------------------------
(* A request begins, and what the thread stores.                           *)

\* MallocEnter begins a request when the thread's chunks are in their places.
LEMMA MallocEnterKeeps ==
  ASSUME Inv, MallocEnter, Careless \subseteq {"giveUp"}
  PROVE  Inv' /\ Steady
<1>1. Typed /\ Placement /\ Structure /\ Chained /\ Blocked /\ Calls
    BY DEF Inv, Structure
<1>2. cur \in Thread
    BY <1>1, CallFacts
<1>3. At("user") /\ Quiet /\ call[cur].at # "new"
    BY DEF MallocEnter, Quiet, At
<1>4. Room
    BY DEF MallocEnter, Serviceable, Room
<1>5. /\ mem_flag' = TRUE /\ open' = Frame /\ UNCHANGED pages /\ first_page' = first_page
      /\ malloc_frame' = malloc_frame /\ current_page_meta' = current_page_meta /\ head' = head /\ cur' = cur
    BY DEF MallocEnter, threads
<1>6. PICK x \in Requests :
        call' = [call EXCEPT ![cur] = [Idle EXCEPT !.at = IF first_page[cur] = NoPage THEN "take" ELSE "locate", !.x = x]]
    BY DEF MallocEnter
<1>7. x \in Nat /\ x <= PageUnits
    <2>1. x \in 1 .. PageUnits
        BY MemoryAssumption
    <2> QED BY <2>1, Numbers, SMT
<1> DEFINE n == [Idle EXCEPT !.at = IF first_page[cur] = NoPage THEN "take" ELSE "locate", !.x = x]
<1>8. /\ n \in CallType /\ n.x = x /\ n.then = "try"
      /\ n.at = IF first_page[cur] = NoPage THEN "take" ELSE "locate"
    BY <1>7 DEF Idle, CallType, Points
<1>9. call' = [call EXCEPT ![cur] = n]
    BY <1>6
<1> HIDE DEF n
<1>10. n.at \in {"take", "locate"} /\ (n.at = "take" => ~Has(cur)) /\ (n.at = "locate" => Has(cur))
    BY <1>8 DEF Has
<1>11. /\ call' \in [Thread -> CallType] /\ Call' = n
       /\ \A t \in Thread \ {cur} : call'[t] = call[t]
       /\ SameOwners /\ Quiet' /\ SameVacant
       /\ \A t : Has(t)' <=> Has(t)
       /\ \A t \in Thread : \A k : Owned(t, k)' <=> Owned(t, k)
    BY <1>1, <1>3, <1>5, <1>8, <1>9, <1>10, CallGoesOn
<1>12. Moved
    BY <1>1, <1>5, <1>11, NothingMoved
<1>13. Typed'
    <2>1. MemoryTyped' /\ page_counter' = page_counter
        BY <1>12 DEF Moved
    <2> QED BY <1>1, <1>5, <1>11, <2>1, TypedNext DEF Typed, Shaped
<1>14. ASSUME Has(cur) PROVE FrontHere
    <2>1. first_page[cur] # NoPage /\ Owned(cur, 0)
        BY <1>1, <1>2, <1>14, OwnedFrames DEF Has
    <2>2. 0 \in 0 .. malloc_frame[cur] /\ 0 \in Place
        <3>1. malloc_frame[cur] \in Nat /\ 0 \in Place
            BY <1>1, <1>2, OwnedFrames, Numbers
        <3> QED BY <3>1, SMT
    <2>3. ChunkInPlace(<<cur, 0>>)
        BY <2>1, <2>2 DEF MallocEnter
    <2>4. ASSUME meta[<<cur, 0>>].front_meta # NoPage PROVE Here(0)
        <3>1. meta[<<cur, 0>>].front_meta = <<cur, 0>>
            BY <1>1, <1>2, <2>1, <2>2, <2>4 DEF Blocked
        <3>2. frame_table[home(<<cur, 0>>)] = <<cur, 0>>
            BY <2>3, <2>4, <3>1 DEF ChunkInPlace
        <3> QED BY <3>2 DEF Here, home
    <2> QED BY <2>4 DEF FrontHere
<1>15. Room' /\ (Has(cur) => Has(cur)' /\ FrontHere')
    BY <1>4, <1>5, <1>11, <1>14 DEF Room, FrontHere, Here, pages
<1>16. AtLocate' /\ AtTake'
    <2>1. At("locate")' => Has(cur)'
        BY <1>5, <1>10, <1>11, <1>15 DEF At, Call
    <2>2. At("take")' => ~Has(cur)'
        BY <1>5, <1>10, <1>11 DEF At, Call
    <2>3. ~At("new")'
        BY <1>10, <1>11 DEF At, Call
    <2>4. At("locate")' => FrontHere'
        BY <1>10, <1>11, <1>15 DEF At, Call
    <2> QED BY <1>8, <1>11, <1>15, <2>1, <2>2, <2>3, <2>4 DEF AtLocate, AtTake
<1>17. AtLoad' /\ AtChunk' /\ AtTry' /\ AtScan' /\ AtEvict' /\ AtFree'
    BY <1>10, <1>11 DEF AtLoad, AtChunk, AtTry, AtScan, AtEvict, AtFree, At, Call
<1>18. Asked'
    BY <1>7, <1>8, <1>11 DEF Asked
<1>19. Calls' /\ Opened'
    BY <1>1, <1>5, <1>10, <1>11, <1>16, <1>17, <1>18, AtPoint
<1> QED BY <1>11, <1>12, <1>13, <1>19 DEF Inv, Steady, Moved

\* Store changes what is in a frame that is open, but nothing that the manager knows; if
\* the clients are careful, the frame holds a page of the thread's own.
LEMMA StoreKeeps ==
  ASSUME Inv, Store
  PROVE  /\ Inv' /\ (\A t \in Thread, k \in Place : Owned(t, k)' <=> Owned(t, k))
         /\ (Sound => Sound') /\ (Careless = {} => Wrote)
<1>1. Typed /\ Placement /\ Structure /\ Chained /\ Opened
    BY DEF Inv, Structure
<1>2. /\ At("user") /\ UNCHANGED <<disk, frame_table, meta, page_counter>> /\ UNCHANGED <<threads, call>>
      /\ cur' = cur /\ current_page_meta' = current_page_meta /\ head' = head /\ mem_flag' = mem_flag
      /\ open' = open
    BY DEF Store, globals
<1>3. PICK f \in Place, d \in Datum :
        OwnFrame(f) /\ f \in open \cup {NumFrames} /\ mem' = [mem EXCEPT ![f].data = d]
    BY DEF Store
<1>4. /\ Quiet /\ SameOwners /\ SameVacant /\ call' \in [Thread -> CallType] /\ Calls'
      /\ \A t \in Thread : \A k : Owned(t, k)' <=> Owned(t, k)
    BY <1>2, UserSteps
<1> DEFINE n == [mem[f] EXCEPT !.data = d]
<1>5. n \in AnyContent /\ n.free = mem[f].free
    BY <1>1, <1>3 DEF Typed, Shaped, AnyContent
<1>6. mem' = [mem EXCEPT ![f] = n]
    BY <1>3
<1> HIDE DEF n
<1>7. /\ mem' \in [Place -> AnyContent] /\ mem'[f] = n
      /\ \A g \in Place : mem'[g].free = mem[g].free
    BY <1>1, <1>5, <1>6 DEF Typed, Shaped
<1>8. Placement' /\ Structure'
    <2>1. \A r \in Page : Where(r)' = Where(r)
        BY <1>2 DEF Where
    <2>2. meta' = meta /\ frame_table' = frame_table /\ page_counter' = page_counter
        BY <1>2
    <2> QED BY <1>1, <1>4, <2>1, <2>2, PlacementKept, StructureKept
<1>9. Typed'
    <2>1. MemoryTyped'
        BY <1>1, <1>2, <1>7 DEF MemoryTyped, Typed, Shaped
    <2> QED BY <1>1, <1>2, <1>4, <2>1, TypedNext DEF Typed, Shaped, threads
<1>10. Opened'
    BY <1>1, <1>2 DEF Opened, At, Here
<1>11. MetaKept
    BY <1>2 DEF MetaKept
<1>12. ASSUME Sound PROVE Sound'
    <2>1. ASSUME NEW r \in Page, Given(r) PROVE ContentOf(r)'.free = ContentOf(r).free
        <3>1. Where(r) \in Nat /\ meta'[r].page_frame = Where(r)
            BY <1>1, <1>2, <2>1, GivenWhere DEF Where
        <3>2. CASE Where(r) \in Place
            BY <1>1, <1>7, <2>1, <3>1, <3>2, ContentWhere, ContentWhereNext
        <3>3. CASE Where(r) \notin Place
            <4>1. ContentOf(r)' = Read(Offset(Where(r)))' /\ ContentOf(r) = Read(Offset(Where(r)))
                BY <1>1, <2>1, <3>1, <3>3, ContentWhere, ContentWhereNext DEF Where
            <4> QED BY <1>2, <3>1, <4>1 DEF Read, Where
        <3> QED BY <3>2, <3>3
    <2>2. Counted'
        BY <1>1, <1>4, <1>11, <1>12, <2>1, CountedKept DEF Sound
    <2>3. Bounded'
        BY <1>2, <1>7, <1>12 DEF Sound, Bounded, Fits
    <2> QED BY <2>2, <2>3 DEF Sound
<1>13. ASSUME Careless = {} PROVE Wrote
    <2>1. Owned(cur, f)
        BY <1>1, <1>2, <1>3, OwnFrameOwned DEF At
    <2>2. f # NumFrames
        BY <1>1, <1>3, <2>1, OwnedFrames, Numbers, SMT DEF Typed, Shaped
    <2>3. Here(f)
        BY <1>1, <1>2, <1>3, <1>13, <2>2 DEF Opened
    <2>4. \A r \in Page : meta'[r].page_frame = meta[r].page_frame
        BY <1>2
    <2> QED BY <1>1, <1>2, <1>4, <1>5, <1>6, <2>1, <2>3, <2>4, OneFrame
<1> QED BY <1>4, <1>8, <1>9, <1>10, <1>12, <1>13 DEF Inv

\* LargeFails: a chunk that does not fit is refused, with all frames open.
LEMMA LargeFailsKeeps ==
  ASSUME Inv, LargeFails
  PROVE  Inv' /\ Steady
<1>1. Typed /\ Placement /\ Structure
    BY DEF Inv
<1>2. /\ At("user") /\ Careless # {} /\ open' = Frame /\ mem_flag' = TRUE /\ UNCHANGED pages
      /\ UNCHANGED <<threads, call>>
      /\ cur' = cur /\ current_page_meta' = current_page_meta /\ head' = head
    BY DEF LargeFails
<1>3. /\ SameOwners /\ SameVacant /\ call' \in [Thread -> CallType] /\ Calls'
      /\ \A t \in Thread : \A k : Owned(t, k)' <=> Owned(t, k)
    BY <1>2, UserSteps
<1>4. Moved
    BY <1>1, <1>2, <1>3, NothingMoved
<1>5. Typed'
    <2>1. MemoryTyped' /\ page_counter' = page_counter
        BY <1>4 DEF Moved
    <2> QED BY <1>1, <1>2, <1>3, <2>1, TypedNext DEF Typed, Shaped, threads
<1>6. Opened'
    BY <1>2 DEF Opened
<1> QED BY <1>3, <1>4, <1>5, <1>6 DEF Inv, Steady, Moved

-----------------------------------------------------------------------------
(* A chunk is begun.                                                       *)

\* A thread in the loop that vacates the frames of a chunk.
LEMMA AtChunkLoop ==
  ASSUME Typed, Calls, cur' = cur, \A t \in Thread \ {cur} : call'[t] = call[t],
         \A t \in Thread : \A k : Owned(t, k) => Owned(t, k)', Call'.at = "evict", AtEvict'
  PROVE  Calls' /\ Opened'
<1>1. call'[cur].at = "evict"
    BY DEF Call
<1>2. AtLocate' /\ AtLoad' /\ AtChunk' /\ AtTry' /\ AtScan' /\ AtTake' /\ AtFree'
    BY <1>1 DEF AtLocate, AtLoad, AtChunk, AtTry, AtScan, AtTake, AtFree, At, Call
<1>3. Asked'
    BY DEF Asked, MallocPoints
<1> QED BY <1>2, <1>3, AtPoint

\* LargeEnter begins a chunk for a thread that has no page yet.
LEMMA LargeEnterKeeps ==
  ASSUME Inv, LargeEnter, Careless \subseteq {"giveUp"}
  PROVE  Inv' /\ Steady
<1>1. Typed /\ Placement /\ Structure /\ Chained /\ Calls
    BY DEF Inv, Structure
<1>2. cur \in Thread
    BY <1>1, CallFacts
<1>3. At("user") /\ Quiet
    BY DEF LargeEnter, Quiet, At
<1>4. ~Has(cur) /\ malloc_frame[cur] = 0 /\ ChunkBase = 0
    BY <1>1, <1>2 DEF LargeEnter, Has, Chained, ChunkBase
<1>5. /\ mem_flag' = TRUE /\ open' = Frame /\ UNCHANGED pages /\ first_page' = first_page
      /\ current_page_meta' = current_page_meta /\ head' = head /\ cur' = cur
      /\ malloc_frame' = [malloc_frame EXCEPT ![cur] = 0]
    BY <1>4 DEF LargeEnter
<1>6. malloc_frame' = malloc_frame
    BY <1>1, <1>2, <1>4, <1>5 DEF Typed, Shaped
<1>7. PICK n \in ChunkPages :
        /\ 0 + n <= NumFrames /\ page_counter + n <= TotalPages
        /\ call' = [call EXCEPT ![cur] = [Idle EXCEPT !.at = "evict", !.x = n, !.i = 0]]
    BY <1>4 DEF LargeEnter, ChunkFits
<1>8. n \in Nat /\ n > 1 /\ n <= NumFrames /\ page_counter + n - 0 <= TotalPages
    <2>1. n \in Nat \ {0, 1}
        BY MemoryAssumption
    <2>2. page_counter \in Nat
        BY <1>1, SMT DEF Typed, Shaped
    <2> QED BY <1>7, <2>1, <2>2, Numbers, SMT
<1> DEFINE c == [Idle EXCEPT !.at = "evict", !.x = n, !.i = 0]
<1>9. c \in CallType /\ c.x = n /\ c.i = 0 /\ c.at = "evict"
    BY <1>8 DEF Idle, CallType, Points
<1>10. call' = [call EXCEPT ![cur] = c]
    BY <1>7
<1> HIDE DEF c
<1>11. call' \in [Thread -> CallType] /\ call'[cur] = c /\ \A t \in Thread \ {cur} : call'[t] = call[t]
    BY <1>1, <1>9, <1>10, CallNext
<1>12. Call' = c /\ Call'.at = "evict"
    BY <1>5, <1>9, <1>11 DEF Call
<1>13. SameOwners
    BY <1>3, <1>5, <1>6, <1>9, <1>11 DEF SameOwners, At
<1>14. \A t \in Thread : \A k : Owned(t, k)' <=> Owned(t, k)
    BY <1>13, OwnedKept
<1>15. SameVacant
    <2>1. ASSUME NEW f \in Nat PROVE ~Vacant(f)'
        <3>1. ~(f < 0)
            BY SMT
        <3> QED BY <1>9, <1>12, <3>1 DEF Vacant, At, Call
    <2> QED BY <1>3, <2>1 DEF SameVacant, Vacant, Quiet
<1>16. Moved
    BY <1>1, <1>5, <1>13, <1>15, NothingMoved
<1>17. Typed'
    <2>1. MemoryTyped' /\ page_counter' = page_counter
        BY <1>16 DEF Moved
    <2> QED BY <1>1, <1>5, <1>6, <1>11, <2>1, TypedNext DEF Typed, Shaped
<1>18. AtEvict'
    <2>1. ~Has(cur)' /\ page_counter' = page_counter
        BY <1>4, <1>5 DEF Has, pages
    <2>2. 0 <= n
        BY <1>8, SMT
    <2> QED BY <1>8, <1>9, <1>12, <2>1, <2>2 DEF AtEvict
<1>19. Calls' /\ Opened'
    BY <1>1, <1>5, <1>11, <1>12, <1>14, <1>18, AtChunkLoop
<1> QED BY <1>14, <1>16, <1>17, <1>19 DEF Inv, Steady, Moved

\* LargeEvict vacates one more frame.
LEMMA LargeEvictKeeps ==
  ASSUME Inv, LargeEvict
  PROVE  Inv' /\ Steady
<1>1. Typed /\ Placement /\ Structure /\ Chained /\ Calls
    BY DEF Inv, Structure
<1>2. cur \in Thread /\ Call = call[cur] /\ Call \in CallType /\ Call.x \in Nat /\ Call.i \in Nat
    BY <1>1, CallFacts
<1>3. At("evict") /\ Call.i < malloc_frame[cur] + Call.x
    BY DEF LargeEvict
<1>4. /\ ~Has(cur) /\ Call.x > 1 /\ Call.x <= NumFrames
      /\ page_counter + Call.x - Call.i <= TotalPages
    BY <1>1, <1>3 DEF Calls, AtEvict
<1> PICK k, x : k = Call.i /\ x = Call.x
    OBVIOUS
<1>5. malloc_frame[cur] = 0 /\ k < x /\ k \in Nat /\ x \in Nat
    <2>1. malloc_frame[cur] = 0
        BY <1>1, <1>2, <1>4 DEF Chained
    <2> QED BY <1>2, <1>3, <2>1, SMT
<1>6. page_counter \in Nat
    BY <1>1, SMT DEF Typed, Shaped
<1>7. k <= page_counter /\ page_counter < TotalPages /\ k \in Place
    <2>1. k <= page_counter
        <3>1. CASE k = 0
            BY <1>6, <3>1, SMT
        <3>2. CASE k # 0
            <4>1. k - 1 \in Nat /\ k - 1 < k /\ k - 1 <= NumFrames
                BY <1>4, <1>5, <3>2, Numbers, SMT
            <4>2. Vacant(k - 1) /\ k - 1 \in Place
                BY <1>3, <4>1, Numbers DEF Vacant
            <4>3. k - 1 < page_counter
                BY <1>1, <4>2 DEF Placement, Below
            <4> QED BY <1>5, <1>6, <4>3, SMT
        <3> QED BY <3>1, <3>2
    <2>2. page_counter < TotalPages /\ k <= NumFrames
        BY <1>4, <1>5, <1>6, Numbers, SMT
    <2> QED BY <1>5, <2>1, <2>2, Numbers
<1>8. /\ Evict(k) /\ SwapDone /\ call' = [call EXCEPT ![cur].i = @ + 1]
      /\ cur' = cur /\ first_page' = first_page /\ malloc_frame' = malloc_frame
      /\ current_page_meta' = current_page_meta /\ head' = head
    BY DEF LargeEvict, threads
<1> DEFINE n == [Call EXCEPT !.i = k + 1]
<1>9. n \in CallType /\ n.at = "evict" /\ n.x = x /\ n.i = k + 1
    BY <1>2, <1>3, <1>5 DEF CallType, At
<1>10. call' = [call EXCEPT ![cur] = n]
    BY <1>2, <1>8
<1> HIDE DEF n
<1>11. call' \in [Thread -> CallType] /\ call'[cur] = n /\ \A t \in Thread \ {cur} : call'[t] = call[t]
    BY <1>1, <1>9, <1>10, CallNext
<1>12. Call' = n /\ Call'.at = "evict" /\ call'[cur].at = "evict"
    BY <1>8, <1>9, <1>11 DEF Call
<1>13. SameOwners
    BY <1>3, <1>8, <1>11, <1>12 DEF SameOwners, At
<1>14. \A t \in Thread : \A j : Owned(t, j)' <=> Owned(t, j)
    BY <1>13, OwnedKept
<1>15. ~Vacant(k) /\ \A f \in Nat : Vacant(f)' <=> Vacant(f) \/ f = k
    <2>1. \A f \in Nat : Vacant(f) <=> f < k
        BY <1>3 DEF Vacant, At
    <2>2. \A f \in Nat : Vacant(f)' <=> f < k + 1
        BY <1>9, <1>12 DEF Vacant, At, Call
    <2> QED BY <1>5, <2>1, <2>2, SMT
<1>16. /\ Placement' /\ MemoryTyped' /\ page_counter' = page_counter + 1 /\ page_counter' \in 0 .. TotalPages
       /\ MetaKept /\ (SwapSound => SameContents) /\ (Bounded => Bounded')
    BY <1>1, <1>7, <1>8, <1>14, <1>15, EvictDone
<1>17. Structure'
    BY <1>1, <1>13, <1>16, StructureKept DEF MetaKept
<1>18. Typed'
    <2>1. mem_flag' \in BOOLEAN /\ open' \subseteq Frame
        BY <1>8 DEF SwapDone
    <2> QED BY <1>1, <1>8, <1>11, <1>16, <2>1, TypedNext DEF Typed, Shaped
<1>19. AtEvict'
    <2>1. ~Has(cur)'
        BY <1>4, <1>8 DEF Has
    <2>2. k + 1 <= x /\ page_counter' + x - (k + 1) <= TotalPages
        BY <1>4, <1>5, <1>6, <1>16, Numbers, SMT
    <2> QED BY <1>4, <1>9, <1>12, <2>1, <2>2 DEF AtEvict
<1>20. Calls' /\ Opened'
    BY <1>1, <1>8, <1>11, <1>12, <1>14, <1>19, AtChunkLoop
<1> QED BY <1>14, <1>16, <1>17, <1>18, <1>20 DEF Inv, Steady

-----------------------------------------------------------------------------
(* Steps that give pages.                                                  *)

\* The running thread was given the pages whose homes are in S, which had been vacated
\* for them.
Gave(S) ==
  /\ S \subseteq Place /\ cur \in Thread /\ page_counter' = page_counter
  /\ \A f \in Nat : Vacant(f) <=> f \in S
  /\ \A f \in Nat : ~Vacant(f)'
  /\ \A k \in S : ~Owned(cur, k)
  /\ \A t \in Thread : \A k : Owned(t, k)' <=> Owned(t, k) \/ (t = cur /\ k \in S)
  /\ \A k \in S : meta'[<<cur, k>>].page_frame = k /\ frame_table'[k] = <<cur, k>>
  /\ \A t \in Thread, k \in Place : t # cur \/ k \notin S => meta'[<<t, k>>].page_frame = meta[<<t, k>>].page_frame
  /\ \A f \in Place \ S : frame_table'[f] = frame_table[f]

\* A page is one of the new ones, or it was given before and is not in a vacated place.
LEMMA GaveEither ==
  ASSUME Typed, Placement, NEW S, Gave(S), NEW p \in Page
  PROVE  \/ /\ p[1] = cur /\ home(p) \in S /\ p = <<cur, home(p)>> /\ ~Given(p)
            /\ Given(p)' /\ Where(p)' = home(p)
         \/ /\ p[1] # cur \/ home(p) \notin S
            /\ Where(p)' = Where(p) /\ (Given(p)' <=> Given(p))
            /\ Given(p) => Where(p) \in Nat /\ Where(p) \in 0 .. page_counter - 1 /\ Where(p) \notin S
<1>1. p[1] \in Thread /\ home(p) \in Place /\ p = <<p[1], home(p)>>
    BY PagePair
<1>2. CASE p[1] = cur /\ home(p) \in S
    <2> PICK k : k = home(p)
        OBVIOUS
    <2>1. p = <<cur, k>> /\ k \in S /\ k \in Place /\ k \in Nat /\ k # -1
        BY <1>1, <1>2, Numbers DEF Null
    <2>2. ~Given(p)
        BY <2>1 DEF Gave, Placement, Placed
    <2>3. meta'[p].page_frame = k
        BY <2>1 DEF Gave
    <2> QED BY <1>2, <2>1, <2>2, <2>3 DEF Given, Where
<1>3. CASE p[1] # cur \/ home(p) \notin S
    <2>1. meta'[p].page_frame = meta[p].page_frame
        BY <1>1, <1>3 DEF Gave
    <2>2. Given(p) => Where(p) \in Nat /\ Where(p) \in 0 .. page_counter - 1 /\ ~Vacant(Where(p))
        BY GivenWhere DEF Placement, Placed
    <2> QED BY <1>3, <2>1, <2>2 DEF Given, Where, Gave
<1> QED BY <1>2, <1>3

\* After pages were given every page is where the metadata and the frame table say.
LEMMA GavePlacement ==
  ASSUME Typed, Placement, NEW S, Gave(S)
  PROVE  Placement'
<1>1. /\ S \subseteq Place /\ cur \in Thread /\ page_counter' = page_counter
      /\ \A f \in Nat : Vacant(f) <=> f \in S
      /\ \A f \in Nat : ~Vacant(f)'
      /\ \A t \in Thread : \A k : Owned(t, k)' <=> Owned(t, k) \/ (t = cur /\ k \in S)
      /\ \A k \in S : ~Owned(cur, k)
      /\ \A k \in S : frame_table'[k] = <<cur, k>>
      /\ \A f \in Place \ S : frame_table'[f] = frame_table[f]
    BY DEF Gave
<1>2. /\ \A f \in Place : f \in Nat
      /\ \A n \in Nat : n \in Place <=> n <= NumFrames
      /\ \A t \in Thread, k \in Place : <<t, k>> \in Page /\ home(<<t, k>>) = k /\ <<t, k>>[1] = t
    BY Numbers, PagePair
<1>3. \A f \in S : f < page_counter /\ f \in Nat /\ f \in 0 .. page_counter - 1
    <2>1. ASSUME NEW f \in S PROVE f < page_counter /\ f \in Nat
        BY <1>1, <1>2 DEF Placement, Below
    <2>2. page_counter \in Int
        BY SMT DEF Typed, Shaped
    <2> QED BY <2>1, <2>2, SMT
<1>4. Placed'
    <2>1. ASSUME NEW t \in Thread, NEW k \in Place PROVE Given(<<t, k>>)' <=> Owned(t, k)'
        <3>1. PICK p \in Page : p = <<t, k>> /\ p[1] = t /\ home(p) = k
            BY <1>2
        <3>2. Given(p) <=> Owned(t, k)
            BY <3>1 DEF Placement, Placed
        <3>3. Given(p)' <=> Owned(t, k)'
            BY <1>1, <3>1, <3>2, GaveEither
        <3> QED BY <3>1, <3>3 DEF Given
    <2>2. ASSUME NEW p \in Page, Given(p)'
          PROVE  /\ Where(p)' \in 0 .. page_counter' - 1 /\ ~Vacant(Where(p))'
                 /\ Where(p)' <= NumFrames => frame_table'[Where(p)'] = p
        <3>1. PICK w : w = Where(p)'
            OBVIOUS
        <3>2. CASE p[1] = cur /\ home(p) \in S
            <4>1. w = home(p) /\ p = <<cur, home(p)>>
                BY <3>1, <3>2, GaveEither
            <4>2. w \in S /\ frame_table'[w] = p /\ w \in Nat /\ w \in 0 .. page_counter' - 1
                BY <1>1, <1>3, <3>2, <4>1
            <4>3. ~Vacant(Where(p))'
                BY <1>1, <3>1, <4>2 DEF Vacant
            <4> QED BY <3>1, <4>2, <4>3
        <3>3. CASE p[1] # cur \/ home(p) \notin S
            <4>1. w = Where(p) /\ Given(p) /\ w \in Nat /\ w \notin S /\ w \in 0 .. page_counter - 1
                BY <2>2, <3>1, <3>3, GaveEither
            <4>2. w <= NumFrames => frame_table[w] = p /\ frame_table'[w] = frame_table[w]
                BY <1>1, <1>2, <4>1 DEF Placement, Placed
            <4>3. ~Vacant(Where(p))'
                BY <1>1, <3>1, <4>1 DEF Vacant
            <4> QED BY <1>1, <3>1, <4>1, <4>2, <4>3
        <3> QED BY <3>2, <3>3
    <2> QED BY <2>1, <2>2 DEF Placed
<1>5. Tabled'
    <2>1. ASSUME NEW f \in Place, frame_table'[f] # NoPage
          PROVE  Given(frame_table[f])' /\ Where(frame_table[f])' = f
        <3> PICK p : p = frame_table'[f]
            OBVIOUS
        <3>1. CASE f \in S
            <4>1. PICK q \in Page : q = <<cur, f>> /\ q[1] = cur /\ home(q) = f
                BY <1>1, <1>2, <3>1
            <4>2. Given(q)' /\ Where(q)' = f
                BY <3>1, <4>1, GaveEither
            <4>3. frame_table'[f] = q
                BY <1>1, <3>1, <4>1
            <4> QED BY <4>2, <4>3 DEF Given, Where
        <3>2. CASE f \notin S
            <4>1. p = frame_table[f] /\ ~Vacant(f) /\ p # NoPage
                BY <1>1, <1>2, <2>1, <3>2
            <4>2. Given(p) /\ Where(p) = f /\ p \in Page
                BY <4>1 DEF Placement, Tabled, Typed, Shaped
            <4>3. Given(p)' /\ Where(p)' = f
                BY <4>2, GaveEither
            <4> QED BY <4>3 DEF Given, Where
        <3> QED BY <3>1, <3>2
    <2> QED BY <2>1 DEF Tabled
<1>6. Apart'
    <2>1. ASSUME NEW p \in Page, NEW q \in Page, p # q, Given(p)' PROVE Where(p)' # Where(q)'
        <3>1. \A r \in Page : Where(r) \in Nat \cup {-1} /\ (Given(r) <=> Where(r) \in Nat)
            BY GivenWhere
        <3>2. CASE p[1] = cur /\ home(p) \in S
            <4>1. Where(p)' = home(p) /\ p = <<cur, home(p)>> /\ Where(p)' \in Nat /\ Where(p)' \in S
                BY <1>3, <3>2, GaveEither
            <4>2. CASE q[1] = cur /\ home(q) \in S
                BY <2>1, <4>1, <4>2, GaveEither
            <4>3. CASE q[1] # cur \/ home(q) \notin S
                BY <3>1, <4>1, <4>3, GaveEither
            <4> QED BY <4>2, <4>3
        <3>3. CASE p[1] # cur \/ home(p) \notin S
            <4>1. Where(p)' = Where(p) /\ Given(p) /\ Where(p) \notin S
                BY <2>1, <3>3, GaveEither
            <4>2. CASE q[1] = cur /\ home(q) \in S
                BY <4>1, <4>2, GaveEither
            <4>3. CASE q[1] # cur \/ home(q) \notin S
                BY <2>1, <4>1, <4>3, GaveEither DEF Placement, Apart
            <4> QED BY <4>2, <4>3
        <3> QED BY <3>2, <3>3
    <2> QED BY <2>1 DEF Apart
<1>7. Full'
    <2>1. ASSUME NEW n \in 0 .. page_counter' - 1 PROVE \E p \in Page : Given(p)' /\ Where(p)' = n
        <3>1. n \in Nat
            BY SMT
        <3>2. CASE n \in S
            <4>1. PICK p \in Page : p = <<cur, n>> /\ p[1] = cur /\ home(p) = n
                BY <1>1, <1>2, <3>2
            <4> QED BY <3>2, <4>1, GaveEither
        <3>3. CASE n \notin S
            <4>1. PICK p \in Page : Given(p) /\ Where(p) = n
                BY <1>1, <3>1, <3>3 DEF Placement, Full
            <4> QED BY <4>1, GaveEither
        <3> QED BY <3>2, <3>3
    <2> QED BY <2>1 DEF Full
<1>8. Below'
    <2>1. \A t \in Thread, k \in Place : Owned(t, k)' => k < page_counter'
        BY <1>1, <1>3 DEF Placement, Below
    <2>2. \A f \in Place : ~Vacant(f)'
        BY <1>1, <1>2
    <2> QED BY <2>1, <2>2 DEF Below
<1>9. Homes'
    <2>1. ASSUME NEW t \in Thread, NEW k \in Place, Owned(t, k)'
          PROVE  frame_table'[k] # NoPage /\ home(frame_table'[k]) = k
        <3>1. CASE k \in S
            <4>1. PICK q \in Page : q = <<cur, k>> /\ home(q) = k /\ q # NoPage
                BY <1>1, <1>2, <3>1, PagePair
            <4>2. frame_table'[k] = q
                BY <1>1, <3>1, <4>1
            <4> QED BY <4>1, <4>2
        <3>2. CASE k \notin S
            <4>1. Owned(t, k) /\ ~Vacant(k) /\ frame_table'[k] = frame_table[k]
                BY <1>1, <1>2, <2>1, <3>2
            <4> QED BY <4>1 DEF Placement, Homes
        <3> QED BY <3>1, <3>2
    <2> QED BY <2>1 DEF Homes, home
<1> QED BY <1>4, <1>5, <1>6, <1>7, <1>8, <1>9 DEF Placement

\* Nothing is written where a page was.
LEMMA GaveContents ==
  ASSUME Typed, Placement, NEW S, Gave(S), disk' = disk, \A f \in Place \ S : mem'[f] = mem[f],
         NEW r \in Page, Given(r)
  PROVE  ContentOf(r)' = ContentOf(r)
<1>1. meta'[r].page_frame = Where(r) /\ Where(r) \in Nat /\ Where(r) \notin S
    BY GaveEither DEF Where
<1>2. CASE Where(r) \in Place
    BY <1>1, <1>2, ContentWhere, ContentWhereNext
<1>3. CASE Where(r) \notin Place
    <2>1. ContentOf(r)' = Read(Offset(Where(r)))' /\ ContentOf(r) = Read(Offset(Where(r)))
        BY <1>1, <1>3, ContentWhere, ContentWhereNext DEF Where
    <2> QED BY <1>1, <2>1 DEF Read, Where
<1> QED BY <1>2, <1>3

\* The running thread is given pages, and no other page is changed.
Gives ==
  /\ \A r \in Page : Given(r) => Given(r)' /\ ContentOf(r)' = ContentOf(r)
  /\ \A r \in Page : Given(r)' /\ ~Given(r) => r[1] = cur
  /\ Sound => Sound'

\* The counts are true after pages were given, if they are in the new ones.
LEMMA GaveCounted ==
  ASSUME Typed, Placement, Structure, Counted, NEW S, Gave(S), disk' = disk,
         \A f \in Place \ S : mem'[f] = mem[f],
         \A t \in Thread, k \in Place : t # cur \/ k \notin S =>
           meta'[<<t, k>>].head = meta[<<t, k>>].head /\ meta'[<<t, k>>].free_page_mem = meta[<<t, k>>].free_page_mem,
         \A k \in S : meta'[<<cur, k>>].head # Null =>
           meta'[<<cur, k>>].free_page_mem = ContentOf(<<cur, meta[<<cur, k>>].head>>)'.free,
         cur' = cur
  PROVE  Counted'
<1>1. ASSUME NEW t \in Thread, NEW k \in Place, Owned(t, k)', meta'[<<t, k>>].head # Null
      PROVE  meta'[<<t, k>>].free_page_mem = ContentOf(<<t, meta[<<t, k>>].head>>)'.free
    <2>1. CASE t = cur /\ k \in S
        <3>1. meta'[<<cur, k>>].free_page_mem = ContentOf(<<cur, meta[<<cur, k>>].head>>)'.free
            BY <1>1, <2>1
        <3> QED BY <2>1, <3>1 DEF ContentOf
    <2>2. CASE t # cur \/ k \notin S
        <3>1. /\ Owned(t, k) /\ meta'[<<t, k>>].head = meta[<<t, k>>].head
              /\ meta'[<<t, k>>].free_page_mem = meta[<<t, k>>].free_page_mem
            BY <1>1, <2>2 DEF Gave
        <3> PICK g : g = meta[<<t, k>>].head
            OBVIOUS
        <3>2. meta[<<t, k>>].free_page_mem = ContentOf(<<t, g>>).free /\ g # Null
            BY <1>1, <3>1 DEF Counted
        <3>3. g \in Place /\ Owned(t, g)
            BY <3>1, <3>2, HeadOwned
        <3>4. <<t, g>> \in Page /\ Given(<<t, g>>)
            BY <3>3, OwnedPlaces
        <3>5. ContentOf(<<t, g>>)' = ContentOf(<<t, g>>)
            BY <3>4, GaveContents
        <3>6. ContentOf(<<t, meta[<<t, k>>].head>>)' = ContentOf(<<t, g>>)'
            BY <3>1 DEF ContentOf
        <3> QED BY <3>1, <3>2, <3>5, <3>6
    <2> QED BY <2>1, <2>2
<1> QED BY <1>1 DEF Counted

\* What a step that gives pages shows to the threads.
LEMMA GaveGives ==
  ASSUME Typed, Placement, NEW S, Gave(S), disk' = disk, \A f \in Place \ S : mem'[f] = mem[f],
         Sound => Sound'
  PROVE  Gives
<1>1. \A r \in Page : Given(r) => Given(r)' /\ ContentOf(r)' = ContentOf(r)
    BY GaveContents, GaveEither
<1>2. \A r \in Page : Given(r)' /\ ~Given(r) => r[1] = cur
    BY GaveEither
<1> QED BY <1>1, <1>2 DEF Gives

\* LargeBuild gives the pages of a chunk, which is linked and answers for one heap.
LEMMA LargeBuildKeeps ==
  ASSUME Inv, LargeBuild
  PROVE  Inv' /\ Gives
<1>1. Typed /\ Placement /\ Structure /\ Chained /\ Blocked /\ Calls
    BY DEF Inv, Structure
<1>2. cur \in Thread /\ Call = call[cur] /\ Call.x \in Nat /\ Call.i \in Nat
    BY <1>1, CallFacts
<1>3. At("evict") /\ Call.i > malloc_frame[cur] + Call.x - 1 /\ Return /\ cur' = cur
      /\ disk' = disk /\ page_counter' = page_counter
    BY DEF LargeBuild
<1>4. ~Has(cur) /\ Call.x > 1 /\ Call.x <= NumFrames /\ Call.i <= Call.x
    BY <1>1, <1>3 DEF Calls, AtEvict
<1>5. malloc_frame[cur] = 0
    BY <1>1, <1>2, <1>4 DEF Chained
<1> PICK last : last = malloc_frame[cur] + Call.x - 1
    OBVIOUS
<1>6. last \in Nat /\ last > 0 /\ last < NumFrames /\ Call.i = last + 1 /\ last \in Place /\ 0 \in Place
    <2>1. last \in Nat /\ last > 0 /\ last < NumFrames /\ Call.i = last + 1
        BY <1>2, <1>3, <1>4, <1>5, Numbers, SMT
    <2>2. last <= NumFrames /\ 0 \in Nat /\ 0 <= NumFrames
        BY <2>1, Numbers, SMT
    <2> QED BY <2>1, <2>2, Numbers
<1> DEFINE S == 0 .. last
<1>7. /\ meta' = [p \in Page |->
                    IF p[1] = cur /\ home(p) \in S THEN ChunkMeta(0, last, home(p))
                    ELSE IF p = NoPage THEN [meta[p] EXCEPT !.next = <<cur, 0>>]
                    ELSE meta[p]]
      /\ frame_table' = [f \in Place |-> IF f \in S THEN <<cur, f>> ELSE frame_table[f]]
      /\ first_page' = [first_page EXCEPT ![cur] = <<cur, 0>>]
      /\ malloc_frame' = [malloc_frame EXCEPT ![cur] = last]
      /\ current_page_meta' = <<cur, last>> /\ head' = 0
      /\ mem' = [mem EXCEPT ![0].free = PageUnits]
    BY <1>5 DEF LargeBuild
<1>8. S \subseteq Place /\ (\A f \in Nat : f \in S <=> f <= last) /\ 0 \in S /\ last \in S
    <2>1. \A f \in S : f \in Nat /\ f <= NumFrames
        BY <1>6, Numbers, SMT
    <2>2. (\A f \in Nat : f \in S <=> f <= last) /\ 0 \in S /\ last \in S
        BY <1>6, SMT
    <2> QED BY <2>1, <2>2, Numbers
<1> HIDE DEF S
<1>9. /\ \A t \in Thread, k \in Place : <<t, k>> \in Page /\ home(<<t, k>>) = k /\ <<t, k>>[1] = t
      /\ \A p \in Page : p # NoPage
    BY PagePair
<1>10. \A k \in S : meta'[<<cur, k>>] = ChunkMeta(0, last, k)
    BY <1>2, <1>7, <1>8, <1>9
<1>11. \A p \in Page : p[1] # cur \/ home(p) \notin S => meta'[p] = meta[p]
    BY <1>7, <1>9
<1>12. \A t \in Thread, k \in Place : t # cur \/ k \notin S => meta'[<<t, k>>] = meta[<<t, k>>]
    BY <1>9, <1>11
<1>13. \A k \in S :
         /\ ChunkMeta(0, last, k) \in AnyMeta
         /\ ChunkMeta(0, last, k).page_frame = k /\ ChunkMeta(0, last, k).front_meta = <<cur, 0>>
         /\ k = last => /\ ChunkMeta(0, last, k).next = NoPage /\ ChunkMeta(0, last, k).head = 0
                        /\ ChunkMeta(0, last, k).free_page_mem = PageUnits
         /\ k # last => /\ ChunkMeta(0, last, k).next = <<cur, k + 1>> /\ ChunkMeta(0, last, k).head = Null
                        /\ ChunkMeta(0, last, k).free_page_mem = -1 /\ k < last
    <2>1. ASSUME NEW k \in S PROVE k \in Nat /\ k \in Place /\ (k # last => k < last /\ k + 1 \in S /\ k + 1 \in Place)
        <3>1. k \in Nat /\ k \in Place /\ k <= last
            BY <1>8, Numbers
        <3>2. ASSUME k # last PROVE k < last /\ k + 1 \in S /\ k + 1 \in Place
            <4>1. k < last /\ k + 1 \in Nat /\ k + 1 <= last
                BY <1>6, <3>1, <3>2, SMT
            <4> QED BY <1>8, <4>1
        <3> QED BY <3>1, <3>2
    <2>2. PageUnits \in Int /\ -1 \in Int
        BY Numbers, SMT
    <2> QED BY <1>2, <1>6, <1>9, <2>1, <2>2 DEF ChunkMeta, AnyMeta
<1>14. /\ call' \in [Thread -> CallType] /\ Call'.at = "user" /\ open' = {} /\ mem_flag' = FALSE
       /\ \A t \in Thread \ {cur} : call'[t] = call[t]
       /\ Quiet' /\ Opened'
    BY <1>1, <1>3, Returned
<1>15. call'[cur].at = "user"
    BY <1>3, <1>14 DEF Call
<1>16. /\ first_page'[cur] = <<cur, 0>> /\ first_page'[cur] # NoPage /\ malloc_frame'[cur] = last
       /\ \A t \in Thread \ {cur} : first_page'[t] = first_page[t] /\ malloc_frame'[t] = malloc_frame[t]
       /\ first_page' \in [Thread -> Page \cup {NoPage}] /\ malloc_frame' \in [Thread -> Place]
    BY <1>1, <1>2, <1>6, <1>7, <1>9 DEF Typed, Shaped
<1>17. \A t \in Thread : \A k : Owned(t, k)' <=> Owned(t, k) \/ (t = cur /\ k \in S)
    <2>1. ASSUME NEW t \in Thread \ {cur}, NEW k PROVE Owned(t, k)' <=> Owned(t, k)
        BY <1>14, <1>16 DEF Owned, Has
    <2>2. ASSUME NEW k PROVE ~Owned(cur, k) /\ (Owned(cur, k)' <=> k \in S)
        <3>1. ~Owned(cur, k)
            BY <1>4 DEF Owned
        <3>2. Owned(cur, k)' <=> k \in Place /\ (k < last \/ k = last)
            BY <1>3, <1>15, <1>16 DEF Owned, Has
        <3>3. k \in Place => (k \in S <=> k < last \/ k = last)
            <4>1. SUFFICES ASSUME k \in Place PROVE k \in S <=> k < last \/ k = last
                OBVIOUS
            <4>2. k \in Nat /\ (k \in S <=> k <= last)
                BY <1>8, <4>1, Numbers
            <4> QED BY <1>6, <4>2, SMT
        <3> QED BY <1>8, <3>1, <3>2, <3>3
    <2> QED BY <1>3, <2>1, <2>2 DEF Owned, Has
<1>18. \A k : ~Owned(cur, k)
    BY <1>4 DEF Owned
<1>19. Gave(S)
    <2>1. \A f \in Nat : Vacant(f) <=> f \in S
        <3>1. \A f \in Nat : Vacant(f) <=> f < last + 1
            BY <1>3, <1>6 DEF Vacant, At
        <3> QED BY <1>6, <1>8, <3>1, SMT
    <2>2. \A f \in Nat : ~Vacant(f)'
        BY <1>14 DEF Vacant, Quiet
    <2>3. \A k \in S : meta'[<<cur, k>>].page_frame = k /\ frame_table'[k] = <<cur, k>>
        BY <1>7, <1>8, <1>10, <1>13
    <2>4. \A t \in Thread, k \in Place : t # cur \/ k \notin S => meta'[<<t, k>>].page_frame = meta[<<t, k>>].page_frame
        BY <1>12
    <2>5. \A f \in Place \ S : frame_table'[f] = frame_table[f]
        BY <1>7
    <2> QED BY <1>2, <1>3, <1>8, <1>17, <1>18, <2>1, <2>2, <2>3, <2>4, <2>5 DEF Gave
<1>20. Placement'
    BY <1>1, <1>19, GavePlacement
<1>21. Chained'
    <2>1. ASSUME NEW t \in Thread
          PROVE  /\ Has(t)' => first_page'[t] = <<t, 0>>
                 /\ ~Has(t)' => malloc_frame'[t] = 0
                 /\ malloc_frame'[t] < NumFrames
                 /\ Has(t)' /\ call'[t].at = "new" => malloc_frame'[t] > 0
        <3>1. CASE t = cur
            BY <1>6, <1>15, <1>16, <3>1 DEF Has
        <3>2. CASE t # cur
            BY <1>1, <1>14, <1>16, <3>2 DEF Chained, Has
        <3> QED BY <3>1, <3>2
    <2>2. ASSUME NEW t \in Thread, NEW k \in Place, Owned(t, k)'
          PROVE  /\ Owned(t, k + 1)' => meta'[<<t, k>>].next = <<t, k + 1>>
                 /\ ~Owned(t, k + 1)' => meta'[<<t, k>>].next = NoPage
        <3>1. CASE t = cur
            <4>1. k \in S /\ (Owned(t, k + 1)' <=> k + 1 \in S)
                BY <1>17, <1>18, <2>2, <3>1
            <4>2. k + 1 \in S <=> k # last
                <5>1. k \in Nat /\ k <= last /\ k + 1 \in Nat
                    BY <1>8, <4>1, Numbers, SMT
                <5>2. k + 1 <= last <=> k # last
                    BY <1>6, <5>1, SMT
                <5> QED BY <1>8, <5>1, <5>2
            <4> QED BY <1>10, <1>13, <3>1, <4>1, <4>2
        <3>2. CASE t # cur
            BY <1>1, <1>12, <1>17, <2>2, <3>2 DEF Chained
        <3> QED BY <3>1, <3>2
    <2> QED BY <2>1, <2>2 DEF Chained
<1>22. Blocked'
    <2>1. ASSUME NEW t \in Thread, NEW k \in Place, Owned(t, k)'
          PROVE  LET m == meta'[<<t, k>>]
                 IN /\ m.front_meta \in {NoPage, <<t, 0>>}
                    /\ m.front_meta = NoPage => m.head \in {Null, k}
                    /\ m.front_meta # NoPage /\ m.head # Null => m.head = 0 /\ k > 0
                    /\ m.front_meta # NoPage /\ m.head = Null => Owned(t, k + 1)'
                    /\ m.front_meta # NoPage =>
                         \A j \in Place : j < k => meta'[<<t, j>>].front_meta # NoPage /\ meta'[<<t, j>>].head = Null
        <3>1. CASE t = cur
            <4>1. k \in S /\ k \in Nat /\ k <= last
                BY <1>8, <1>17, <1>18, <2>1, <3>1, Numbers
            <4>2. /\ meta'[<<t, k>>].front_meta = <<t, 0>> /\ <<t, 0>> # NoPage
                  /\ k = last => meta'[<<t, k>>].head = 0 /\ k > 0
                  /\ k # last => meta'[<<t, k>>].head = Null
                BY <1>2, <1>6, <1>9, <1>10, <1>13, <3>1, <4>1
            <4>3. ASSUME k # last PROVE Owned(t, k + 1)'
                <5>1. k + 1 \in Nat /\ k + 1 <= last
                    BY <1>6, <4>1, <4>3, SMT
                <5> QED BY <1>8, <1>17, <3>1, <5>1
            <4>4. ASSUME NEW j \in Place, j < k
                  PROVE  meta'[<<t, j>>].front_meta # NoPage /\ meta'[<<t, j>>].head = Null
                <5>1. j \in Nat
                    BY Numbers
                <5>2. j # last /\ j <= last
                    BY <1>6, <4>1, <4>4, <5>1, SMT
                <5>3. j \in S
                    BY <1>8, <5>1, <5>2
                <5> QED BY <1>9, <1>10, <1>13, <3>1, <4>2, <5>2, <5>3
            <4>5. Null # 0
                BY SMT DEF Null
            <4> QED BY <4>2, <4>3, <4>4, <4>5
        <3>2. CASE t # cur
            <4>1. Owned(t, k) /\ meta'[<<t, k>>] = meta[<<t, k>>] /\ \A j \in Place : meta'[<<t, j>>] = meta[<<t, j>>]
                BY <1>12, <1>17, <2>1, <3>2
            <4>2. Owned(t, k + 1) => Owned(t, k + 1)'
                BY <1>17
            <4> QED BY <1>1, <4>1, <4>2 DEF Blocked
        <3> QED BY <3>1, <3>2
    <2> QED BY <2>1 DEF Blocked
<1> DEFINE n == [mem[0] EXCEPT !.free = PageUnits]
<1>23. n \in AnyContent /\ n.free = PageUnits
    BY <1>1, <1>6, Numbers DEF Typed, Shaped, AnyContent
<1>24. mem' = [mem EXCEPT ![0] = n]
    BY <1>7
<1> HIDE DEF n
<1>25. mem' \in [Place -> AnyContent] /\ mem'[0] = n /\ \A f \in Place : f # 0 => mem'[f] = mem[f]
    BY <1>1, <1>6, <1>23, <1>24 DEF Typed, Shaped
<1>26. meta' \in [Page -> AnyMeta]
    <2>1. ASSUME NEW p \in Page PROVE meta'[p] \in AnyMeta
        <3>1. p = <<p[1], home(p)>> /\ home(p) \in Place
            BY PagePair
        <3>2. CASE p[1] = cur /\ home(p) \in S
            BY <1>10, <1>13, <3>1, <3>2
        <3>3. CASE p[1] # cur \/ home(p) \notin S
            BY <1>1, <1>11, <3>3 DEF Typed, Shaped
        <3> QED BY <3>2, <3>3
    <2> QED BY <1>7, <2>1
<1>27. Typed'
    <2>1. frame_table' \in [Place -> Page \cup {NoPage}]
        BY <1>1, <1>2, <1>7, <1>9 DEF Typed, Shaped
    <2>2. MemoryTyped'
        BY <1>1, <1>3, <1>25, <1>26, <2>1 DEF MemoryTyped, Typed, Shaped
    <2>3. current_page_meta' \in Page \cup {NoPage} /\ head' \in Place \cup {Null}
        BY <1>2, <1>6, <1>7, <1>9
    <2> QED BY <1>1, <1>3, <1>14, <1>16, <2>2, <2>3, TypedNext DEF Typed, Shaped
<1>28. Calls'
    BY <1>1, <1>3, <1>14, <1>17, AtUser
<1>29. \A f \in Place \ S : mem'[f] = mem[f]
    BY <1>8, <1>25
<1>30. ASSUME Sound PROVE Sound'
    <2>1. \A t \in Thread, k \in Place : t # cur \/ k \notin S =>
            meta'[<<t, k>>].head = meta[<<t, k>>].head /\ meta'[<<t, k>>].free_page_mem = meta[<<t, k>>].free_page_mem
        BY <1>12
    <2>2. ContentOf(<<cur, 0>>)'.free = PageUnits
        <3>1. meta'[<<cur, 0>>].page_frame = 0 /\ <<cur, 0>> \in Page
            BY <1>2, <1>6, <1>8, <1>9, <1>10, <1>13
        <3>2. ContentOf(<<cur, 0>>)' = mem'[0]
            BY <1>3, <1>6, <3>1, Numbers DEF ContentOf
        <3> QED BY <1>23, <1>25, <3>2
    <2>3. ASSUME NEW k \in S, meta'[<<cur, k>>].head # Null
          PROVE  meta'[<<cur, k>>].free_page_mem = ContentOf(<<cur, meta[<<cur, k>>].head>>)'.free
        <3>1. meta'[<<cur, k>>].head = 0 /\ meta'[<<cur, k>>].free_page_mem = PageUnits
            BY <1>10, <1>13, <2>3
        <3>2. ContentOf(<<cur, meta[<<cur, k>>].head>>)' = ContentOf(<<cur, 0>>)'
            BY <1>3, <3>1 DEF ContentOf
        <3> QED BY <2>2, <3>1, <3>2
    <2>4. Counted'
        BY <1>1, <1>3, <1>19, <1>29, <1>30, <2>1, <2>3, GaveCounted DEF Sound
    <2>5. PageUnits \in 0 .. PageUnits
        BY Numbers, SMT
    <2>6. \A p \in Page : meta'[p].free_page_mem \in 0 .. PageUnits \cup {-1}
        <3>1. ASSUME NEW p \in Page PROVE meta'[p].free_page_mem \in 0 .. PageUnits \cup {-1}
            <4>1. p = <<p[1], home(p)>> /\ home(p) \in Place
                BY PagePair
            <4>2. CASE p[1] = cur /\ home(p) \in S
                BY <1>10, <1>13, <2>5, <4>1, <4>2
            <4>3. CASE p[1] # cur \/ home(p) \notin S
                BY <1>11, <1>30, <4>3 DEF Sound, Bounded
            <4> QED BY <4>2, <4>3
        <3> QED BY <3>1
    <2>7. \A f \in Place : mem'[f].free \in 0 .. PageUnits
        BY <1>23, <1>25, <1>30, <2>5 DEF Sound, Bounded, Fits
    <2>8. \A o \in DOMAIN disk' : disk'[o].free \in 0 .. PageUnits
        BY <1>3, <1>30 DEF Sound, Bounded, Fits
    <2> QED BY <2>4, <2>6, <2>7, <2>8 DEF Sound, Bounded, Fits
<1>31. Gives
    BY <1>1, <1>3, <1>19, <1>29, <1>30, GaveGives
<1> QED BY <1>14, <1>20, <1>21, <1>22, <1>27, <1>28, <1>31 DEF Inv, Structure

\* New gives the page whose frame Take has vacated, linked behind the thread's last.
LEMMA NewKeeps ==
  ASSUME Inv, New
  PROVE  Inv' /\ Gives
<1>1. Typed /\ Placement /\ Structure /\ Chained /\ Blocked /\ Calls
    BY DEF Inv, Structure
<1>2. cur \in Thread /\ Call = call[cur] /\ Call \in CallType
    BY <1>1, CallFacts
<1>3. At("new") /\ call[cur].at = "new" /\ Call.at \in MallocPoints
    BY DEF New, At, MallocPoints, Call
<1> PICK k : k = malloc_frame[cur]
    OBVIOUS
<1>4. k \in Nat /\ k < NumFrames /\ k \in Place /\ (Has(cur) => k > 0) /\ (~Has(cur) => k = 0)
    <2>1. k \in Nat /\ k < NumFrames
        BY <1>1, <1>2, OwnedFrames
    <2>2. k <= NumFrames
        BY <2>1, Numbers, SMT
    <2> QED BY <1>1, <1>2, <1>3, <2>1, <2>2, Numbers DEF Chained
<1>5. /\ \A t \in Thread, j \in Place : <<t, j>> \in Page /\ home(<<t, j>>) = j /\ <<t, j>>[1] = t
      /\ \A p \in Page : p # NoPage
    BY PagePair
<1> PICK p, q : p = <<cur, k>> /\ q = <<cur, k - 1>>
    OBVIOUS
<1>6. p \in Page /\ p # NoPage /\ p[1] = cur /\ home(p) = k
    BY <1>2, <1>4, <1>5
<1>7. \A j : Owned(cur, j) <=> Has(cur) /\ j \in Place /\ j < k
    BY <1>3 DEF Owned
<1>8. Has(cur) => /\ q \in Page /\ q # p /\ frame_table[k - 1] = q /\ k - 1 \in Place /\ k - 1 \in Nat /\ Owned(cur, k - 1)
                  /\ k - 1 + 1 = k
    <2>1. SUFFICES ASSUME Has(cur)
                   PROVE  /\ q \in Page /\ q # p /\ frame_table[k - 1] = q /\ k - 1 \in Place /\ k - 1 \in Nat
                          /\ Owned(cur, k - 1) /\ k - 1 + 1 = k
        OBVIOUS
    <2>2. k - 1 \in Nat /\ k - 1 <= NumFrames /\ k - 1 # k /\ k - 1 + 1 = k /\ k - 1 < k
        BY <1>4, <2>1, Numbers, SMT
    <2>3. k - 1 \in Place
        BY <2>2, Numbers
    <2>4. frame_table[k - 1] = q
        BY <1>1, <1>3, <2>1 DEF Calls, AtTake, Here
    <2> QED BY <1>2, <1>5, <1>7, <2>1, <2>2, <2>3, <2>4
<1>9. /\ frame_table' = [frame_table EXCEPT ![k] = p] /\ current_page_meta' = p /\ head' = Null
      /\ mem_flag' = TRUE /\ open' = Frame /\ mem' = mem /\ disk' = disk /\ page_counter' = page_counter
      /\ malloc_frame' = malloc_frame /\ cur' = cur
      /\ call' = [call EXCEPT ![cur].at = "try", ![cur].then = "try"]
    BY DEF New
<1> DEFINE m == [NoMeta EXCEPT !.page_frame = k]
           l == [meta[q] EXCEPT !.next = p]
<1>10. /\ m \in AnyMeta /\ m.page_frame = k /\ m.next = NoPage /\ m.front_meta = NoPage /\ m.head = Null
       /\ m.free_page_mem = -1
    BY <1>4 DEF NoMeta, AnyMeta
<1>11. Has(cur) => /\ l \in AnyMeta /\ l.page_frame = meta[q].page_frame /\ l.next = p
                   /\ l.front_meta = meta[q].front_meta /\ l.head = meta[q].head
                   /\ l.free_page_mem = meta[q].free_page_mem
    <2>1. Has(cur) => meta[q] \in AnyMeta
        BY <1>1, <1>8 DEF Typed, Shaped
    <2> QED BY <1>6, <2>1 DEF AnyMeta
<1>12. /\ Has(cur) => meta' = [meta EXCEPT ![p] = m, ![q] = l] /\ first_page' = first_page
       /\ ~Has(cur) => meta' = [meta EXCEPT ![p] = m] /\ first_page' = [first_page EXCEPT ![cur] = p]
    <2>1. CASE Has(cur)
        <3>1. meta' = [meta EXCEPT ![p] = m, ![frame_table[k - 1]].next = p] /\ first_page' = first_page
            BY <2>1 DEF New, Has
        <3>2. meta' = [meta EXCEPT ![p] = m, ![q].next = p]
            BY <1>8, <2>1, <3>1
        <3>3. meta' = [meta EXCEPT ![p] = m, ![q] = l]
            BY <1>1, <1>6, <1>8, <2>1, <3>2 DEF Typed, Shaped
        <3> QED BY <2>1, <3>1, <3>3
    <2>2. CASE ~Has(cur)
        BY <2>2 DEF New, Has
    <2> QED BY <2>1, <2>2
<1> HIDE DEF m, l
<1>13. /\ meta' \in [Page -> AnyMeta] /\ meta'[p] = m
       /\ Has(cur) => meta'[q] = l /\ \A r \in Page : r # p /\ r # q => meta'[r] = meta[r]
       /\ ~Has(cur) => \A r \in Page : r # p => meta'[r] = meta[r]
    BY <1>1, <1>6, <1>8, <1>10, <1>11, <1>12 DEF Typed, Shaped
<1>14. \A r \in Page : r # p =>
         /\ meta'[r].page_frame = meta[r].page_frame /\ meta'[r].front_meta = meta[r].front_meta
         /\ meta'[r].head = meta[r].head /\ meta'[r].free_page_mem = meta[r].free_page_mem
         /\ ~Has(cur) \/ r # q => meta'[r].next = meta[r].next
    BY <1>11, <1>13
<1>15. \A t \in Thread, j \in Place : (<<t, j>> = p <=> t = cur /\ j = k) /\ (<<t, j>> = q <=> t = cur /\ j = k - 1)
    BY <1>5
<1> DEFINE n == [Call EXCEPT !.at = "try", !.then = "try"]
<1>16. n \in CallType /\ n.at = "try" /\ n.then = "try" /\ n.x = Call.x
    BY <1>2 DEF CallType, Points
<1>17. call' = [call EXCEPT ![cur] = n]
    BY <1>2, <1>9 DEF CallType, Typed
<1> HIDE DEF n
<1>18. call' \in [Thread -> CallType] /\ call'[cur] = n /\ \A t \in Thread \ {cur} : call'[t] = call[t]
    BY <1>1, <1>16, <1>17, CallNext
<1>19. Call' = n /\ Call'.at = "try" /\ call'[cur].at = "try" /\ Quiet'
    BY <1>9, <1>16, <1>18 DEF Call, Quiet, At
<1>20. /\ first_page'[cur] # NoPage /\ (Has(cur) => first_page'[cur] = first_page[cur])
       /\ ~Has(cur) => first_page'[cur] = p
       /\ \A t \in Thread \ {cur} : first_page'[t] = first_page[t]
       /\ first_page' \in [Thread -> Page \cup {NoPage}]
    BY <1>1, <1>2, <1>6, <1>12 DEF Typed, Shaped, Has
<1> DEFINE S == {k}
<1>21. \A t \in Thread : \A j : Owned(t, j)' <=> Owned(t, j) \/ (t = cur /\ j \in S)
    <2>1. ASSUME NEW t \in Thread \ {cur}, NEW j PROVE Owned(t, j)' <=> Owned(t, j)
        BY <1>9, <1>18, <1>20 DEF Owned, Has
    <2>2. ASSUME NEW j PROVE Owned(cur, j)' <=> Owned(cur, j) \/ j = k
        <3>1. Owned(cur, j)' <=> j \in Place /\ (j < k \/ j = k)
            BY <1>9, <1>19, <1>20 DEF Owned, Has
        <3>2. CASE Has(cur)
            BY <1>4, <1>7, <3>1, <3>2
        <3>3. CASE ~Has(cur)
            <4>1. j \in Place => ~(j < k)
                <5>1. j \in Place => j \in Nat
                    BY Numbers
                <5> QED BY <1>4, <3>3, <5>1, SMT
            <4> QED BY <1>4, <1>7, <3>1, <3>3, <4>1
        <3> QED BY <3>2, <3>3
    <2> QED BY <1>9, <2>1, <2>2 DEF Owned, Has
<1>22. ~Owned(cur, k)
    BY <1>3, <1>4, <1>7, SMT
<1>23. Gave(S)
    <2>1. \A f \in Nat : (Vacant(f) <=> f \in S) /\ ~Vacant(f)'
        BY <1>3, <1>19 DEF Vacant, At, Quiet
    <2>2. meta'[<<cur, k>>].page_frame = k /\ frame_table'[k] = <<cur, k>>
        BY <1>1, <1>4, <1>9, <1>10, <1>13 DEF Typed, Shaped
    <2>3. \A t \in Thread, j \in Place : t # cur \/ j \notin S => meta'[<<t, j>>].page_frame = meta[<<t, j>>].page_frame
        BY <1>5, <1>14, <1>15
    <2>4. \A f \in Place \ S : frame_table'[f] = frame_table[f]
        BY <1>1, <1>9 DEF Typed, Shaped
    <2>5. S \subseteq Place
        BY <1>4
    <2> QED BY <1>2, <1>9, <1>21, <1>22, <2>1, <2>2, <2>3, <2>4, <2>5 DEF Gave
<1> HIDE DEF S
<1>24. Placement'
    BY <1>1, <1>23, GavePlacement
<1>25. \A t \in Thread : \A j : Owned(t, j)' <=> Owned(t, j) \/ (t = cur /\ j = k)
    BY <1>21 DEF S
<1>26. Chained'
    <2>1. ASSUME NEW t \in Thread
          PROVE  /\ Has(t)' => first_page'[t] = <<t, 0>>
                 /\ ~Has(t)' => malloc_frame'[t] = 0
                 /\ malloc_frame'[t] < NumFrames
                 /\ Has(t)' /\ call'[t].at = "new" => malloc_frame'[t] > 0
        <3>1. CASE t = cur
            BY <1>1, <1>2, <1>4, <1>9, <1>19, <1>20, <3>1 DEF Has, Chained
        <3>2. CASE t # cur
            BY <1>1, <1>9, <1>18, <1>20, <3>2 DEF Chained, Has
        <3> QED BY <3>1, <3>2
    <2>2. ASSUME NEW t \in Thread, NEW j \in Place, Owned(t, j)'
          PROVE  /\ Owned(t, j + 1)' => meta'[<<t, j>>].next = <<t, j + 1>>
                 /\ ~Owned(t, j + 1)' => meta'[<<t, j>>].next = NoPage
        <3>1. j \in Nat
            BY Numbers
        <3>2. CASE t = cur /\ j = k
            <4>1. ~Owned(cur, k + 1)'
                <5>1. ~(k + 1 < k) /\ k + 1 # k
                    BY <1>4, SMT
                <5> QED BY <1>2, <1>7, <1>9, <1>25, <5>1
            <4>2. ~Owned(t, j + 1)'
                BY <1>9, <3>2, <4>1
            <4> QED BY <1>10, <1>13, <3>2, <4>2
        <3>3. CASE t = cur /\ j # k
            <4>1. Owned(cur, j) /\ Has(cur) /\ j < k
                BY <1>7, <1>25, <2>2, <3>3
            <4>2. CASE j = k - 1
                <5>1. Owned(t, j + 1)' /\ j + 1 = k /\ <<t, j>> = q
                    BY <1>8, <1>25, <3>3, <4>1, <4>2
                <5> QED BY <1>11, <1>13, <3>3, <4>1, <5>1
            <4>3. CASE j # k - 1
                <5>1. j + 1 < k /\ j + 1 # k /\ j + 1 \in Nat /\ j + 1 <= NumFrames
                    BY <1>4, <3>1, <4>1, <4>3, Numbers, SMT
                <5>2. Owned(cur, j + 1)
                    BY <1>7, <4>1, <5>1, Numbers
                <5>3. Owned(t, j + 1)' /\ meta[<<t, j>>].next = <<t, j + 1>>
                    BY <1>1, <1>25, <3>3, <4>1, <5>2 DEF Chained
                <5>4. meta'[<<t, j>>].next = meta[<<t, j>>].next
                    BY <1>5, <1>14, <1>15, <3>3, <4>3
                <5> QED BY <5>3, <5>4
            <4> QED BY <4>2, <4>3
        <3>4. CASE t # cur
            <4>1. meta'[<<t, j>>].next = meta[<<t, j>>].next
                BY <1>5, <1>14, <1>15, <3>4
            <4> QED BY <1>1, <1>25, <2>2, <3>4, <4>1 DEF Chained
        <3> QED BY <3>2, <3>3, <3>4
    <2> QED BY <2>1, <2>2 DEF Chained
<1>27. Blocked'
    <2>1. ASSUME NEW t \in Thread, NEW j \in Place, Owned(t, j)'
          PROVE  LET a == meta'[<<t, j>>]
                 IN /\ a.front_meta \in {NoPage, <<t, 0>>}
                    /\ a.front_meta = NoPage => a.head \in {Null, j}
                    /\ a.front_meta # NoPage /\ a.head # Null => a.head = 0 /\ j > 0
                    /\ a.front_meta # NoPage /\ a.head = Null => Owned(t, j + 1)'
                    /\ a.front_meta # NoPage =>
                         \A i \in Place : i < j => meta'[<<t, i>>].front_meta # NoPage /\ meta'[<<t, i>>].head = Null
        <3>1. CASE t = cur /\ j = k
            <4>1. meta'[<<t, j>>] = m
                BY <1>13, <3>1
            <4> QED BY <1>10, <4>1
        <3>2. CASE t # cur \/ j # k
            <4>1. /\ Owned(t, j) /\ meta'[<<t, j>>].front_meta = meta[<<t, j>>].front_meta
                  /\ meta'[<<t, j>>].head = meta[<<t, j>>].head
                BY <1>5, <1>14, <1>15, <1>25, <2>1, <3>2
            <4>2. \A i \in Place : i < j => meta'[<<t, i>>].front_meta = meta[<<t, i>>].front_meta
                                           /\ meta'[<<t, i>>].head = meta[<<t, i>>].head
                <5>1. ASSUME NEW i \in Place, i < j PROVE <<t, i>> # p
                    <6>1. CASE t = cur
                        <7>1. j < k /\ i \in Nat /\ j \in Nat
                            BY <1>7, <4>1, <6>1, Numbers
                        <7>2. i # k
                            BY <1>4, <5>1, <7>1, SMT
                        <7> QED BY <1>15, <7>2
                    <6>2. CASE t # cur
                        BY <1>15, <6>2
                    <6> QED BY <6>1, <6>2
                <5> QED BY <1>5, <1>14, <5>1
            <4>3. Owned(t, j + 1) => Owned(t, j + 1)'
                BY <1>25
            <4> QED BY <1>1, <4>1, <4>2, <4>3 DEF Blocked
        <3> QED BY <3>1, <3>2
    <2> QED BY <2>1 DEF Blocked
<1>28. Typed'
    <2>1. frame_table' \in [Place -> Page \cup {NoPage}]
        BY <1>1, <1>6, <1>9 DEF Typed, Shaped
    <2>2. MemoryTyped'
        BY <1>1, <1>9, <1>13, <2>1 DEF MemoryTyped, Typed, Shaped
    <2> QED BY <1>1, <1>6, <1>9, <1>18, <1>20, <2>2, TypedNext DEF Typed, Shaped
<1>29. AtTry'
    <2>1. malloc_frame'[cur'] = k /\ current_page_meta' = <<cur', k>>
        BY <1>9
    <2>2. Owned(cur, k)' /\ Here(k)'
        <3>1. frame_table'[k] = <<cur', k>>
            BY <1>1, <1>4, <1>9 DEF Typed, Shaped
        <3>2. Owned(cur, k)'
            BY <1>2, <1>9, <1>25
        <3> QED BY <3>1, <3>2 DEF Here
    <2>3. meta'[<<cur', k>>].front_meta = NoPage /\ meta'[<<cur', k>>].head = Null
        BY <1>9, <1>10, <1>13
    <2>4. HeapHere(k)'
        BY <2>2, <2>3 DEF HeapHere
    <2>5. HeapHere(malloc_frame[cur])'
        BY <2>1, <2>4 DEF HeapHere, Here
    <2>6. Call'.then = "try"
        BY <1>16, <1>19
    <2> QED BY <1>9, <2>1, <2>3, <2>5, <2>6 DEF AtTry
<1>30. AtLocate' /\ AtLoad' /\ AtChunk' /\ AtScan' /\ AtTake' /\ AtEvict' /\ AtFree'
    BY <1>19 DEF AtLocate, AtLoad, AtChunk, AtScan, AtTake, AtEvict, AtFree, At, Call
<1>31. Asked'
    BY <1>1, <1>3, <1>16, <1>19, AskedStill
<1>32. Calls' /\ Opened'
    BY <1>1, <1>9, <1>18, <1>19, <1>25, <1>29, <1>30, <1>31, AtPoint
<1>33. ASSUME Sound PROVE Sound'
    <2>1. \A t \in Thread, j \in Place : t # cur \/ j \notin S =>
            meta'[<<t, j>>].head = meta[<<t, j>>].head /\ meta'[<<t, j>>].free_page_mem = meta[<<t, j>>].free_page_mem
        BY <1>5, <1>14, <1>15 DEF S
    <2>2. \A j \in S : meta'[<<cur, j>>].head # Null =>
            meta'[<<cur, j>>].free_page_mem = ContentOf(<<cur, meta[<<cur, j>>].head>>)'.free
        BY <1>10, <1>13 DEF S
    <2>3. Counted'
        BY <1>1, <1>9, <1>23, <1>33, <2>1, <2>2, GaveCounted DEF Sound
    <2>4. \A r \in Page : meta'[r].free_page_mem \in 0 .. PageUnits \cup {-1}
        BY <1>10, <1>13, <1>14, <1>33 DEF Sound, Bounded
    <2> QED BY <1>9, <1>33, <2>3, <2>4 DEF Sound, Bounded, Fits
<1>34. Gives
    BY <1>1, <1>9, <1>23, <1>33, GaveGives
<1> QED BY <1>24, <1>26, <1>27, <1>28, <1>32, <1>34 DEF Inv, Structure

-----------------------------------------------------------------------------
(* The invariant.                                                          *)

\* What the theorems assume of the clients and of the scheduler: no client does what the
\* manager does not survive, but for giving up, and SIGALRM takes the processor from a
\* thread in its own code or on its way into swap_handler only.
Orderly == Careless \subseteq {"giveUp"} /\ Preemptible \subseteq {"user", "handler"}

\* In the beginning no page is given.
LEMMA InitInv ==
  ASSUME Init
  PROVE  Inv /\ Sound
<1>1. /\ mem = [f \in Place |-> Garbage] /\ disk = << >> /\ frame_table = [f \in Place |-> NoPage]
      /\ meta = [p \in Page |-> NoMeta] /\ page_counter = 0
      /\ first_page = [t \in Thread |-> NoPage] /\ malloc_frame = [t \in Thread |-> 0]
      /\ current_page_meta = NoPage /\ head = Null /\ mem_flag = FALSE /\ open = {}
      /\ call = [t \in Thread |-> Idle]
    BY DEF Init
<1>2. cur \in Thread
    <2>1. \E t \in Thread : TRUE
        BY MemoryAssumption
    <2> QED BY <2>1 DEF Init
<1>3. DOMAIN disk = {}
    BY <1>1
<1>4. Idle \in CallType /\ Idle.at = "user"
    BY IdleType
<1>5. Garbage \in AnyContent /\ Fits(Garbage)
    <2>1. 0 \in 0 .. PageUnits
        BY Numbers, SMT
    <2> QED BY <2>1, GarbageType DEF Fits, Garbage
<1>6. /\ NoMeta \in AnyMeta /\ NoMeta.page_frame = -1 /\ NoMeta.free_page_mem = -1
    BY DEF NoMeta, AnyMeta
<1>7. Typed
    <2>1. 0 \in Place /\ page_counter \in 0 .. TotalPages
        BY <1>1, Numbers, SMT
    <2> QED BY <1>1, <1>2, <1>3, <1>4, <1>5, <1>6, <2>1 DEF Typed, Shaped
<1>8. (\A p \in Page : ~Given(p)) /\ (\A t \in Thread : ~Has(t)) /\ \A t \in Thread : \A k : ~Owned(t, k)
    BY <1>1, <1>6 DEF Given, Has, Owned
<1>9. call[cur].at = "user" /\ (\A t \in Thread : call[t].at = "user") /\ \A f : ~Vacant(f)
    BY <1>1, <1>2, <1>4 DEF Vacant, At
<1>10. Placement
    <2>1. Placed
        BY <1>8, PagePair DEF Placed
    <2>2. Tabled
        BY <1>1 DEF Tabled
    <2>3. Apart
        BY <1>8 DEF Apart
    <2>4. Full
        <3>1. 0 .. page_counter - 1 = {}
            BY <1>1, SMT
        <3> QED BY <3>1 DEF Full
    <2>5. Below /\ Homes
        BY <1>8, <1>9 DEF Below, Homes
    <2> QED BY <2>1, <2>2, <2>3, <2>4, <2>5 DEF Placement
<1>11. Structure
    <2>1. \A t \in Thread : malloc_frame[t] = 0 /\ malloc_frame[t] < NumFrames
        BY <1>1, Numbers
    <2> QED BY <1>8, <2>1 DEF Structure, Chained, Blocked
<1>12. Calls
    <2>1. AtLocate /\ AtLoad /\ AtChunk /\ AtTry /\ AtScan /\ AtTake /\ AtEvict /\ AtFree /\ AtHandler
        BY <1>9 DEF AtLocate, AtLoad, AtChunk, AtTry, AtScan, AtTake, AtEvict, AtFree, AtHandler, At
    <2>2. Asked /\ Resting
        BY <1>9 DEF Asked, MallocPoints, Resting, Call
    <2> QED BY <2>1, <2>2 DEF Calls
<1>13. Opened
    BY <1>1 DEF Opened
<1>14. Sound
    BY <1>1, <1>3, <1>5, <1>6, <1>8 DEF Sound, Bounded, Counted
<1> QED BY <1>7, <1>10, <1>11, <1>12, <1>13, <1>14 DEF Inv

\* Every step keeps the invariant and the counts, and it changes a page of the running
\* thread, or gives it pages, or neither.
LEMMA NextKeeps ==
  ASSUME Inv, Next, Orderly
  PROVE  /\ Inv' /\ (SwapSound /\ Sound => Sound')
         /\ Careless = {} => Steady \/ (cur' = cur /\ (Writes \/ Gives))
<1>1. CASE Locate
    BY <1>1, LocateKeeps, SteadySound
<1>2. CASE Load
    BY <1>2, LoadKeeps, SteadySound
<1>3. CASE LoadChunk
    BY <1>3, LoadChunkKeeps, SteadySound
<1>4. CASE Try
    <2>1. cur' = cur
        BY <1>4 DEF Try
    <2> QED BY <1>4, <2>1, TryKeeps DEF Writes
<1>5. CASE Scan
    BY <1>5, ScanKeeps, SteadySound
<1>6. CASE ScanTry
    <2>1. cur' = cur
        BY <1>6 DEF ScanTry
    <2> QED BY <1>6, <2>1, ScanTryKeeps, SteadySound DEF Writes
<1>7. CASE Take
    BY <1>7, TakeKeeps, SteadySound
<1>8. CASE TakeFails
    BY <1>8, TakeFailsKeeps, SteadySound
<1>9. CASE New
    <2>1. cur' = cur
        BY <1>9 DEF New
    <2> QED BY <1>9, <2>1, NewKeeps DEF Gives
<1>10. CASE LargeEvict
    BY <1>10, LargeEvictKeeps, SteadySound
<1>11. CASE LargeBuild
    <2>1. cur' = cur
        BY <1>11 DEF LargeBuild
    <2> QED BY <1>11, <2>1, LargeBuildKeeps DEF Gives
<1>12. CASE FreeSwapped
    <2>1. cur' = cur
        BY <1>12 DEF FreeSwapped
    <2> QED BY <1>12, <2>1, FreeSwappedKeeps DEF Writes
<1>13. CASE Handler
    BY <1>13, HandlerKeeps, SteadySound
<1>14. CASE Unprotect
    BY <1>14, UnprotectKeeps, SteadySound
<1>15. CASE MallocEnter
    BY <1>15, MallocEnterKeeps, SteadySound DEF Orderly
<1>16. CASE LargeEnter
    BY <1>16, LargeEnterKeeps, SteadySound DEF Orderly
<1>17. CASE LargeFails
    BY <1>17, LargeFailsKeeps, SteadySound
<1>18. CASE Free
    <2>1. cur' = cur
        BY <1>18 DEF Free
    <2> QED BY <1>18, <2>1, FreeKeeps DEF Writes, Orderly
<1>19. CASE FreeSwaps
    BY <1>19, FreeSwapsKeeps, SteadySound DEF Orderly
<1>20. CASE Store
    <2>1. cur' = cur
        BY <1>20 DEF Store
    <2> QED BY <1>20, <2>1, StoreKeeps DEF Writes
<1>21. CASE Touch
    BY <1>21, TouchKeeps, SteadySound
<1>22. CASE LibraryRequest
    BY <1>22, LibraryRequestKeeps, SteadySound
<1>23. CASE Switch
    BY <1>23, SwitchKeeps, SteadySound DEF Orderly
<1> QED BY <1>1, <1>2, <1>3, <1>4, <1>5, <1>6, <1>7, <1>8, <1>9, <1>10, <1>11, <1>12, <1>13, <1>14, <1>15,
           <1>16, <1>17, <1>18, <1>19, <1>20, <1>21, <1>22, <1>23 DEF Next, Manager, Client

\* A step in which nothing happens.
LEMMA StutterKeeps ==
  ASSUME Inv, UNCHANGED vars
  PROVE  Inv' /\ (Sound => Sound')
<1>1. Typed /\ Placement /\ Structure /\ Calls /\ Opened
    BY DEF Inv
<1>2. /\ mem' = mem /\ disk' = disk /\ frame_table' = frame_table /\ meta' = meta
      /\ page_counter' = page_counter /\ first_page' = first_page /\ malloc_frame' = malloc_frame
      /\ current_page_meta' = current_page_meta /\ head' = head /\ mem_flag' = mem_flag /\ open' = open
      /\ cur' = cur /\ call' = call
    BY DEF vars, pages, threads, globals
<1>3. Typed'
    BY <1>1, <1>2 DEF Typed, Shaped
<1>4. Placement' /\ Structure'
    <2>1. SameOwners /\ SameVacant
        BY <1>2 DEF SameOwners, SameVacant, Vacant, At, Call
    <2>2. UNCHANGED pages
        BY <1>2 DEF pages
    <2> QED BY <1>1, <2>1, <2>2, PagesUnchanged
<1>5. AtLocate' /\ AtLoad' /\ AtTry'
    BY <1>1, <1>2 DEF Calls, AtLocate, AtLoad, AtTry, At, Call, Has, Room, FrontHere, LastHere, Here, HeapHere, Owned
<1>6. AtChunk'
    BY <1>1, <1>2 DEF Calls, AtChunk, At, Call, Has, Room, FrontHere, LastHere, Here, Owned
<1>7. AtScan'
    BY <1>1, <1>2 DEF Calls, AtScan, At, Call, Has, Room, FrontHere, LastHere, Here, HeapHere, Owned
<1>8. AtTake' /\ AtEvict' /\ AtFree'
    BY <1>1, <1>2 DEF Calls, AtTake, AtEvict, AtFree, At, Call, Has, Room, LastHere, Here, Owned
<1>9. AtHandler' /\ Asked' /\ Resting'
    BY <1>1, <1>2 DEF Calls, AtHandler, Asked, Resting, At, Call, Has, Here, Owned
<1>10. Opened'
    BY <1>1, <1>2 DEF Opened, At, Here
<1>11. Sound => Sound'
    BY <1>2 DEF Sound, Bounded, Counted, Fits, Owned, Has, ContentOf, Read
<1> QED BY <1>3, <1>4, <1>5, <1>6, <1>7, <1>8, <1>9, <1>10, <1>11 DEF Inv, Calls

\* The invariant holds of every behaviour of orderly clients.
LEMMA Invariant ==
  ASSUME Orderly
  PROVE  Spec => []Inv
<1>1. Init => Inv
    BY InitInv
<1>2. Inv /\ [Next]_vars => Inv'
    BY NextKeeps, StutterKeeps
<1> QED BY <1>1, <1>2, PTL DEF Spec

\* The counts are true if what is written to the swap file is what is read there.
LEMMA Soundness ==
  ASSUME Orderly, SwapSound
  PROVE  Spec => [](Inv /\ Sound)
<1>1. Init => Inv /\ Sound
    BY InitInv
<1>2. Inv /\ Sound /\ [Next]_vars => (Inv /\ Sound)'
    BY NextKeeps, StutterKeeps
<1> QED BY <1>1, <1>2, PTL DEF Spec

-----------------------------------------------------------------------------
(* The theorems.                                                           *)

\* Every page of a thread is in the chain; while none is being given out no frame is vacant.
LEMMA SettledFacts ==
  ASSUME Typed, Settled
  PROVE  (\A f : ~Vacant(f)) /\ \A t \in Thread : call[t].at # "new"
<1>1. cur \in Thread
    BY DEF Typed, Shaped
<1> QED BY <1>1 DEF Settled, Vacant, At

\* The types, with the free counts in range: every value is one that the code's types
\* can hold.
THEOREM TypesHold ==
  ASSUME Orderly, SwapSound
  PROVE  Spec => []TypeOK
<1>1. Inv /\ Sound => TypeOK
    <2>1. SUFFICES ASSUME Inv, Sound PROVE TypeOK
        OBVIOUS
    <2>2. Typed /\ Bounded
        BY <2>1 DEF Inv, Sound
    <2>3. mem \in [Place -> Content]
        <3>1. \A f \in Place : mem[f] \in Content
            BY <2>2 DEF Typed, Shaped, Bounded, Fits, AnyContent, Content
        <3> QED BY <2>2, <3>1 DEF Typed, Shaped
    <2>4. \A o \in DOMAIN disk : o \in Nat /\ disk[o] \in Content
        BY <2>2 DEF Typed, Shaped, Bounded, Fits, AnyContent, Content
    <2>5. meta \in [Page -> Meta]
        <3>1. \A p \in Page : meta[p] \in AnyMeta /\ meta[p].free_page_mem \in 0 .. PageUnits \cup {-1}
            BY <2>2 DEF Typed, Shaped, Bounded
        <3>2. \A p \in Page : meta[p] \in Meta
            BY <3>1 DEF AnyMeta, Meta
        <3> QED BY <2>2, <3>2 DEF Typed, Shaped
    <2>6. \A t \in Thread : call[t].at \in Points /\ call[t].temp \in Page \cup {NoPage}
        BY <2>2 DEF Typed, CallType
    <2> QED BY <2>2, <2>3, <2>4, <2>5, <2>6 DEF Typed, Shaped, TypeOK
<1> QED BY <1>1, Soundness, PTL

\* frame_table and the metadata agree where every page is, no two pages are in one place,
\* and the pages fill the places that page_counter has counted: no eviction and no exchange
\* of swap_pages loses or doubles a page.
THEOREM PagesStayPlaced ==
  ASSUME Orderly
  PROVE  Spec => []PagesPlaced
<1>1. Inv => PagesPlaced
    <2>1. SUFFICES ASSUME Inv PROVE PagesPlaced
        OBVIOUS
    <2>2. Typed /\ Placement
        BY <2>1 DEF Inv
    <2>3. \A p \in Page : Given(p) /\ meta[p].page_frame <= NumFrames => frame_table[meta[p].page_frame] = p
        BY <2>2 DEF Placement, Placed, Where
    <2>4. \A p, q \in Page : p # q /\ Given(p) => meta[p].page_frame # meta[q].page_frame
        BY <2>2 DEF Placement, Apart, Where
    <2>5. ASSUME Settled
          PROVE  {meta[p].page_frame : p \in {q \in Page : Given(q)}} = 0 .. page_counter - 1
        <3>1. \A f : ~Vacant(f)
            BY <2>2, <2>5, SettledFacts
        <3>2. \A n \in 0 .. page_counter - 1 : \E p \in Page : Given(p) /\ meta[p].page_frame = n
            BY <2>2, <3>1 DEF Placement, Full, Where
        <3>3. \A p \in Page : Given(p) => meta[p].page_frame \in 0 .. page_counter - 1
            BY <2>2 DEF Placement, Placed, Where
        <3> QED BY <3>2, <3>3
    <2> QED BY <2>3, <2>4, <2>5 DEF PagesPlaced
<1> QED BY <1>1, Invariant, PTL

\* A frame that is home to any thread's page holds a page whose home it is, so that the
\* owner's id is enough for myallocate, mydeallocate and swap_handler to know it.
THEOREM HomesStayKept ==
  ASSUME Orderly
  PROVE  Spec => []HomesKept
<1>1. Inv => HomesKept
    <2>1. SUFFICES ASSUME Inv, Settled, NEW t \in Thread, first_page[t] # NoPage, NEW f \in 0 .. malloc_frame[t]
                   PROVE  home(frame_table[f]) = f
        BY DEF HomesKept
    <2>2. Typed /\ Placement /\ Structure /\ Chained /\ Has(t) /\ call[t].at # "new" /\ ~Vacant(f)
        BY <2>1, SettledFacts DEF Inv, Structure, Has
    <2>3. Owned(t, malloc_frame[t]) /\ malloc_frame[t] \in Nat
        BY <2>2, OwnedFrames
    <2>4. f \in Nat /\ f <= malloc_frame[t]
        BY <2>3, SMT
    <2>5. Owned(t, f) /\ f \in Place
        BY <2>2, <2>3, <2>4, OwnedFrames
    <2> QED BY <2>2, <2>5 DEF Placement, Homes
<1> QED BY <1>1, Invariant, PTL

\* The chain that the search of myallocate walks leads through all of a thread's pages, in
\* the order of their homes, and ends at the last.
THEOREM ChainsStayComplete ==
  ASSUME Orderly
  PROVE  Spec => []ChainComplete
<1>1. Inv => ChainComplete
    <2>1. SUFFICES ASSUME Inv, Settled, NEW t \in Thread, first_page[t] # NoPage
                   PROVE  /\ \A k \in 0 .. malloc_frame[t] : Walk(t, k) = <<t, k>>
                          /\ meta[<<t, malloc_frame[t]>>].next = NoPage
        BY DEF ChainComplete
    <2>2. Typed /\ Chained /\ Has(t) /\ call[t].at # "new"
        BY <2>1, SettledFacts DEF Inv, Structure, Has
    <2>3. /\ Owned(t, malloc_frame[t]) /\ ~Owned(t, malloc_frame[t] + 1)
          /\ malloc_frame[t] \in Nat /\ malloc_frame[t] \in Place
        BY <2>2, OwnedFrames
    <2>4. ASSUME NEW k \in 0 .. malloc_frame[t] PROVE Walk(t, k) = <<t, k>>
        <3>1. k \in Nat /\ k <= malloc_frame[t]
            BY <2>3, SMT
        <3>2. Owned(t, k)
            BY <2>2, <2>3, <3>1, OwnedFrames
        <3> QED BY <2>2, <3>1, <3>2, WalkFinds
    <2>5. meta[<<t, malloc_frame[t]>>].next = NoPage
        BY <2>2, <2>3 DEF Chained
    <2> QED BY <2>4, <2>5
<1> QED BY <1>1, Invariant, PTL

\* When mymalloc works on a heap, the page that answers for it is at its home, and so are
\* the pages of its chunk, which the heap runs through.
THEOREM HeapsInPlace ==
  ASSUME Orderly
  PROVE  Spec => []HeapInPlace
<1>1. Inv => HeapInPlace
    <2>1. SUFFICES ASSUME Inv, call[cur].at \in {"try", "scanTry"}
                   PROVE  LET p == current_page_meta
                              front == IF meta[p].front_meta = NoPage THEN p ELSE meta[p].front_meta
                          IN \A k \in home(front) .. home(p) : frame_table[k] = <<cur, k>>
        BY DEF HeapInPlace
    <2>2. Typed /\ Structure /\ Blocked /\ Calls /\ cur \in Thread
        BY <2>1, CallFacts DEF Inv, Structure
    <2>3. PICK c : current_page_meta = <<cur, c>> /\ HeapHere(c)
        <3>1. CASE At("try")
            BY <2>2, <3>1 DEF Calls, AtTry
        <3>2. CASE At("scanTry")
            BY <2>2, <3>2 DEF Calls, AtScan
        <3> QED BY <2>1, <3>1, <3>2 DEF At
    <2>4. c \in Place /\ c \in Nat /\ Owned(cur, c) /\ Here(c)
        BY <2>3, Numbers DEF HeapHere, Owned
    <2> PICK p : p = <<cur, c>>
        OBVIOUS
    <2>5. p = current_page_meta /\ home(p) = c
        BY <2>2, <2>3, <2>4, PagePair
    <2>6. CASE meta[p].front_meta = NoPage
        <3>1. \A k \in c .. c : k = c
            BY <2>4, SMT
        <3> QED BY <2>4, <2>5, <2>6, <3>1 DEF Here
    <2>7. CASE meta[p].front_meta # NoPage
        <3>1. meta[p].front_meta = <<cur, 0>> /\ home(<<cur, 0>>) = 0
            BY <2>2, <2>4, <2>7, Numbers, PagePair DEF Blocked
        <3>2. \A j \in Place : j < c => Here(j)
            BY <2>3, <2>7 DEF HeapHere
        <3>3. ASSUME NEW k \in 0 .. c PROVE frame_table[k] = <<cur, k>>
            <4>1. k \in Nat /\ (k = c \/ k < c) /\ k <= NumFrames
                <5>1. c <= NumFrames
                    BY <2>4, Numbers
                <5> QED BY <2>4, <5>1, Numbers, SMT
            <4>2. k \in Place
                BY <4>1, Numbers
            <4> QED BY <2>4, <3>2, <4>1, <4>2 DEF Here
        <3> QED BY <2>5, <2>7, <3>1, <3>3
    <2> QED BY <2>6, <2>7
<1> QED BY <1>1, Invariant, PTL

\* The free count that the metadata keeps is that of the heap in the page, wherever the
\* page has been meanwhile.
THEOREM FreeCountsTrue ==
  ASSUME Orderly, SwapSound
  PROVE  Spec => []FreeCountTrue
<1>1. Inv /\ Sound => FreeCountTrue
    <2>1. SUFFICES ASSUME Inv, Sound, NEW p \in Page, Given(p), meta[p].head = home(p)
                   PROVE  meta[p].free_page_mem = ContentOf(p).free
        BY DEF FreeCountTrue
    <2>2. PICK t \in Thread, k \in Place : p = <<t, k>> /\ home(p) = k
        BY PagePair
    <2>3. Owned(t, k) /\ k # Null
        BY <2>1, <2>2, Numbers DEF Inv, Placement, Placed
    <2>4. meta[<<t, k>>].head = k
        BY <2>1, <2>2
    <2> QED BY <2>1, <2>2, <2>3, <2>4 DEF Sound, Counted
<1> QED BY <1>1, Soundness, PTL

\* While a thread runs its own code, the frames it can access without a fault hold its own
\* pages, if no client gives up a call that leaves all frames open.
THEOREM MemoryIsolated ==
  ASSUME Orderly, Careless = {}
  PROVE  Spec => []Isolation
<1>1. Inv => Isolation
    BY DEF Inv, Opened, Isolation, Here
<1> QED BY <1>1, Invariant, PTL

-----------------------------------------------------------------------------
(* The memory manager implements private memory.                           *)

\* What PrivateMemory sees: the contents of the pages that are given.
PageOf(p) == IF Given(p) THEN ContentOf(p) ELSE NoPage
AllPages == [t \in Thread |-> [h \in Place |-> PageOf(<<t, h>>)]]

\* A content is a record, and NoPage is none.
LEMMA NoContent == \A c \in Content : c # NoPage
<1> SUFFICES ASSUME NEW c \in Content, c = NoPage PROVE FALSE
    OBVIOUS
<1>1. DOMAIN c = {"data", "free"}
    BY DEF Content
<1>2. DOMAIN c = {}
    BY DEF NoPage
<1> QED BY <1>1, <1>2

\* What PrivateMemory sees of a page has its type, and tells whether the page is given.
LEMMA PageOfType ==
  ASSUME Typed, Bounded, NEW p \in Page
  PROVE  PageOf(p) \in Content \cup {NoPage} /\ (Given(p) <=> PageOf(p) # NoPage)
<1>1. CASE ~Given(p)
    BY <1>1 DEF PageOf
<1>2. CASE Given(p)
    <2>1. ContentOf(p) \in AnyContent /\ Where(p) \in Nat
        BY <1>2, ContentType, GivenWhere
    <2>2. Fits(ContentOf(p))
        <3>1. CASE Where(p) <= NumFrames
            <4>1. Where(p) \in Place /\ ContentOf(p) = mem[Where(p)]
                BY <2>1, <3>1, Numbers DEF ContentOf, Where
            <4> QED BY <4>1 DEF Bounded
        <3>2. CASE ~(Where(p) <= NumFrames)
            <4>1. ContentOf(p) = Read(Slot(Where(p)) * ReadStride)
                BY <3>2 DEF ContentOf, Where
            <4> QED BY <4>1, FitsRead
        <3> QED BY <3>1, <3>2
    <2>3. ContentOf(p) \in Content
        BY <2>1, <2>2 DEF AnyContent, Content, Fits
    <2> QED BY <1>2, <2>3, NoContent DEF PageOf
<1> QED BY <1>1, <1>2

\* What PageOfType says, before and after a step.
PagesTyped == \A p \in Page : PageOf(p) \in Content \cup {NoPage} /\ (Given(p) <=> PageOf(p) # NoPage)

\* In a state with the invariant all pages have their types.
LEMMA PagesTypedAlways == Typed /\ Bounded => PagesTyped
BY PageOfType DEF PagesTyped

\* So they have in the state that a step leads to.
LEMMA PagesTypedNext ==
  ASSUME Typed', Bounded'
  PROVE  \A p \in Page : PageOf(p)' \in Content \cup {NoPage} /\ (Given(p)' <=> PageOf(p)' # NoPage)
<1>1. PagesTyped'
    BY PagesTypedAlways, PTL
<1> QED BY <1>1 DEF PagesTyped

\* What PrivateMemory sees, page by page.
LEMMA AllPagesType ==
  /\ AllPages \in [Thread -> [Place -> {PageOf(p) : p \in Page}]]
  /\ \A t \in Thread, h \in Place : AllPages[t][h] = PageOf(<<t, h>>)
BY PagePair DEF AllPages

\* The steps of PrivateMemory, in the variables of the memory manager.
LEMMA PrivateNext ==
  PrivateView!Next <=>
    \/ /\ AllPages' \in [Thread -> [Place -> Content \cup {NoPage}]]
       /\ \A t \in Thread, h \in Place :
            AllPages'[t][h] = AllPages[t][h] \/ (t = cur /\ AllPages[t][h] = NoPage)
       /\ cur' = cur
    \/ /\ \E h \in Place :
            /\ AllPages[cur][h] # NoPage
            /\ \E c \in Content : AllPages' = [AllPages EXCEPT ![cur][h] = c]
       /\ cur' = cur
    \/ cur' \in Thread /\ AllPages' = AllPages
BY DEF PrivateView!Next, PrivateView!Give, PrivateView!Write, PrivateView!Switch, PrivateView!Memory,
       AllPages, PageOf

\* What PrivateMemory sees after a step, page by page.
LEMMA AllPagesNext ==
  /\ \A t \in Thread, h \in Place : AllPages'[t][h] = PageOf(<<t, h>>)'
  /\ (\A p \in Page : PageOf(p)' = PageOf(p)) => AllPages' = AllPages
<1>1. \A t \in Thread, h \in Place : AllPages'[t][h] = PageOf(<<t, h>>)'
    BY DEF AllPages
<1>2. ASSUME \A p \in Page : PageOf(p)' = PageOf(p) PROVE AllPages' = AllPages
    <2>1. \A t \in Thread, h \in Place : PageOf(<<t, h>>)' = PageOf(<<t, h>>)
        BY <1>2, PagePair
    <2> QED BY <2>1 DEF AllPages
<1> QED BY <1>1, <1>2

\* Every step of the memory manager is a step of PrivateMemory, or is none there.
LEMMA PrivateStep ==
  ASSUME Inv, Sound, Next, Orderly, Careless = {}, SwapSound
  PROVE  PrivateView!Next
<1>1. Inv' /\ Sound'
    BY NextKeeps
<1>2. Typed /\ Bounded /\ Typed' /\ Bounded' /\ cur \in Thread /\ cur' \in Thread
    BY <1>1 DEF Inv, Sound, Typed, Shaped
<1>3. \A p \in Page : PageOf(p) \in Content \cup {NoPage} /\ (Given(p) <=> PageOf(p) # NoPage)
    BY <1>2, PageOfType
<1>4. \A p \in Page : PageOf(p)' \in Content \cup {NoPage} /\ (Given(p)' <=> PageOf(p)' # NoPage)
    BY <1>2, PagesTypedNext
<1>5. CASE Steady
    <2>1. ASSUME NEW p \in Page PROVE PageOf(p)' = PageOf(p)
        <3>1. (Given(p)' <=> Given(p)) /\ (Given(p) => ContentOf(p)' = ContentOf(p))
            BY <1>5 DEF Steady, SameContents
        <3> QED BY <3>1 DEF PageOf
    <2>2. AllPages' = AllPages
        BY <2>1, AllPagesNext
    <2> QED BY <1>2, <2>2, PrivateNext
<1>6. CASE cur' = cur /\ Writes
    <2>1. PICK h \in Place :
            /\ Owned(cur, h)
            /\ \A r \in Page : /\ Given(r)' <=> Given(r)
                               /\ Given(r) /\ r # <<cur, h>> => ContentOf(r)' = ContentOf(r)
        BY <1>6 DEF Writes, Wrote
    <2> PICK q \in Page : q = <<cur, h>>
        BY <1>2, PagePair
    <2>2. Given(q) /\ Given(q)'
        BY <1>2, <2>1 DEF Inv, Placement, Placed
    <2> PICK c : c = PageOf(q)'
        OBVIOUS
    <2>3. c \in Content
        BY <1>4, <2>2
    <2>4. ASSUME NEW p \in Page, p # q PROVE PageOf(p)' = PageOf(p)
        BY <2>1, <2>4 DEF PageOf
    <2>5. AllPages' = [AllPages EXCEPT ![cur][h] = c]
        <3>1. ASSUME NEW t \in Thread, NEW k \in Place
              PROVE  PageOf(<<t, k>>)' = IF t = cur /\ k = h THEN c ELSE PageOf(<<t, k>>)
            <4>1. CASE t = cur /\ k = h
                BY <4>1
            <4>2. CASE ~(t = cur /\ k = h)
                <5>1. <<t, k>> \in Page /\ <<t, k>> # q
                    BY <4>2, PagePair
                <5> QED BY <2>4, <4>2, <5>1
            <4> QED BY <4>1, <4>2
        <3>2. AllPages' = [t \in Thread |-> [k \in Place |-> PageOf(<<t, k>>)']]
            BY DEF AllPages
        <3>3. AllPages' = [t \in Thread |-> [k \in Place |-> IF t = cur /\ k = h THEN c ELSE PageOf(<<t, k>>)]]
            BY <3>1, <3>2
        <3> QED BY <1>2, <3>3 DEF AllPages
    <2>6. AllPages[cur][h] # NoPage
        BY <1>2, <1>3, <2>2, AllPagesType
    <2> QED BY <1>6, <2>3, <2>5, <2>6, PrivateNext
<1>7. CASE cur' = cur /\ Gives
    <2>1. AllPages' \in [Thread -> [Place -> Content \cup {NoPage}]]
        <3>1. \A t \in Thread, h \in Place : PageOf(<<t, h>>)' \in Content \cup {NoPage}
            BY <1>4, PagePair
        <3> QED BY <3>1 DEF AllPages
    <2>2. ASSUME NEW t \in Thread, NEW h \in Place
          PROVE  AllPages'[t][h] = AllPages[t][h] \/ (t = cur /\ AllPages[t][h] = NoPage)
        <3> PICK q \in Page : q = <<t, h>> /\ q[1] = t
            BY PagePair
        <3>1. AllPages'[t][h] = PageOf(q)' /\ AllPages[t][h] = PageOf(q)
            BY AllPagesNext, AllPagesType
        <3>2. CASE Given(q)
            BY <1>7, <3>1, <3>2 DEF Gives, PageOf
        <3>3. CASE ~Given(q) /\ Given(q)'
            BY <1>7, <3>1, <3>3 DEF Gives, PageOf
        <3>4. CASE ~Given(q) /\ ~Given(q)'
            BY <3>1, <3>4 DEF PageOf
        <3> QED BY <3>2, <3>3, <3>4
    <2> QED BY <1>7, <2>1, <2>2, PrivateNext
<1> QED BY <1>5, <1>6, <1>7, NextKeeps

\* A thread's pages are private and persistent: to the threads, swapping, eviction and
\* exchange are as if each had a memory of its own, in which only its own calls and
\* stores change anything.  No client gives up a call, and the swap file returns what
\* was written there.
THEOREM PrivateMemoryImplemented ==
  ASSUME Orderly, Careless = {}, SwapSound
  PROVE  Spec => ImplementsPrivateMemory
<1>1. Init => PrivateView!Init
    <2> SUFFICES ASSUME Init PROVE PrivateView!Init
        OBVIOUS
    <2>1. cur \in Thread
        BY InitInv DEF Inv, Typed, Shaped
    <2>2. \A p \in Page : ~Given(p)
        BY DEF Init, NoMeta, Given
    <2>3. \A t \in Thread, h \in Place : ~Given(<<t, h>>)
        BY <2>2, PagePair
    <2> QED BY <2>1, <2>3 DEF PrivateView!Init
<1>2. Inv /\ Sound /\ [Next]_vars => [PrivateView!Next]_(PrivateView!memoryVars)
    <2> SUFFICES ASSUME Inv, Sound, [Next]_vars PROVE [PrivateView!Next]_(PrivateView!memoryVars)
        OBVIOUS
    <2>1. CASE Next
        BY <2>1, PrivateStep
    <2>2. CASE UNCHANGED vars
        <3>1. mem' = mem /\ disk' = disk /\ meta' = meta /\ cur' = cur
            BY <2>2 DEF vars, pages
        <3> QED BY <3>1 DEF PrivateView!memoryVars, Given, ContentOf, Read
    <2> QED BY <2>1, <2>2
<1> QED BY <1>1, <1>2, Soundness, PTL DEF Spec, ImplementsPrivateMemory, PrivateView!Spec

=============================================================================

---------------------------- MODULE OsRegion_proofs ----------------------------
(***************************************************************************)
(* Proofs about the OS region, for every number of threads and pages and   *)
(* all sizes of the structures.                                            *)
(*                                                                         *)
(* The creations come one after the other when SIGALRM keeps out of        *)
(* my_pthread_create: there is a number n of finished ones, and at most    *)
(* one more is under way.  What has been taken is then the sum of what     *)
(* each of them, each page and each exit took.                             *)
(***************************************************************************)
EXTENDS OsRegion, TLAPS

-----------------------------------------------------------------------------
(* Type correctness.                                                       *)

\* Requests are for natural numbers of bytes.
LEMMA SizesType == Sizes \in [1 .. Last -> Nat]
BY RegionAssumption, SMT DEF Sizes, Last, MainBlock

\* TypeOK holds initially.
LEMMA TypeInit == Init => TypeOK
BY RegionAssumption, SMT DEF Init, TypeOK, Last

\* TypeOK is preserved by every step.
LEMMA TypeStep == TypeOK /\ [Next]_vars => TypeOK'
<1> SUFFICES ASSUME TypeOK, [Next]_vars PROVE TypeOK'
    OBVIOUS
<1>1. rtn_ptr \in Nat
    BY RegionAssumption, SMT DEF rtn_ptr, Before, TypeOK
<1>2. ASSUME NEW t \in Thread, Create(t) PROVE TypeOK'
    <2>1. stage[t] \in 0 .. Last - 1 /\ stage[t] + 1 \in 1 .. Last
        BY <1>2, SMT DEF Create, TypeOK, Last
    <2>2. Sizes[stage[t] + 1] \in Nat
        BY <2>1, SizesType
    <2>3. os_mem_ptr' \in Nat
        <3>1. os_mem_ptr' = rtn_ptr + Sizes[stage[t] + 1]
            BY <1>2 DEF Create, Taken
        <3> QED BY <1>1, <2>2, <3>1, SMT
    <2>6. first_call' \in BOOLEAN /\ firstThread' \in BOOLEAN
        BY <1>2 DEF Create, Taken
    <2>4. stage' \in [Thread -> 0 .. Last]
        BY <1>2, <2>1, SMT DEF Create, TypeOK, Last
    <2>5. exit_sp' \in [Thread -> Nat] /\ sp' \in [Thread -> Nat]
        BY <1>1, <1>2 DEF Create, TypeOK
    <2> QED BY <1>2, <2>3, <2>4, <2>5, <2>6 DEF Create, TypeOK
<1>3. ASSUME NEW x \in Nat, Taken(x) PROVE os_mem_ptr' \in Nat /\ first_call' \in BOOLEAN
    <2>1. os_mem_ptr' = rtn_ptr + x /\ first_call' = FALSE
        BY <1>3 DEF Taken
    <2>2. os_mem_ptr' \in Nat
        BY <1>1, <2>1, SMT
    <2> QED BY <2>1, <2>2
<1>4. PageMeta \in Nat /\ ExitNode \in Nat
    BY RegionAssumption
<1>5. CASE NewPage
    <2>1. page_counter' \in Nat
        BY <1>5, SMT DEF NewPage, TypeOK
    <2> QED BY <1>3, <1>4, <1>5, <2>1 DEF NewPage, TypeOK
<1>6. CASE Exit
    <2>1. exits' \in Nat
        BY <1>6, SMT DEF Exit, TypeOK
    <2> QED BY <1>3, <1>4, <1>6, <2>1 DEF Exit, TypeOK
<1>7. CASE Done \/ UNCHANGED vars
    BY <1>7 DEF Done, vars, TypeOK
<1> QED BY <1>2, <1>5, <1>6, <1>7 DEF Next

\* Every variable of the region keeps its type, with SIGALRM anywhere.
THEOREM RegionTypes == Spec => []TypeOK
BY TypeInit, TypeStep, PTL DEF Spec

-----------------------------------------------------------------------------
(* The stack of exit_context.                                              *)

\* What my_pthread_create takes between the two stacks, without createScheduler.
Gap == ExitStack + UContext + Tcb + Node

\* How far the region was used up behind the stack of exit_context when so many
\* requests of a creation were done.
Behind(k) ==
  IF k = 2 THEN ExitStack
  ELSE IF k = 3 THEN ExitStack + UContext
  ELSE IF k = 4 THEN ExitStack + UContext + Tcb
  ELSE Gap

\* The thread's own stack begins behind that of exit_context, and nothing but the rest
\* of its creation lies between.
StackInv ==
  /\ first_call => \A t \in Thread : stage[t] = 0
  /\ \A t \in Thread :
       /\ stage[t] \in 2 .. 5 => os_mem_ptr = exit_sp[t] + Behind(stage[t])
       /\ stage[t] = 6 => /\ exit_sp[t] + Gap <= os_mem_ptr
                          /\ os_mem_ptr <= exit_sp[t] + Gap + MainBlock
       /\ stage[t] = 7 => /\ exit_sp[t] + Gap <= sp[t]
                          /\ sp[t] <= exit_sp[t] + Gap + MainBlock

\* StackInv holds initially.
LEMMA StackInit == Init => StackInv
BY SMT DEF Init, StackInv

\* StackInv is preserved by every step, if SIGALRM keeps out of my_pthread_create.
LEMMA StackStep ==
  ASSUME Interruptible = FALSE, TypeOK, StackInv, [Next]_vars
  PROVE  StackInv'
<1>1. ASSUME NEW t \in Thread, Create(t) PROVE StackInv'
    <2>1. /\ os_mem_ptr' = rtn_ptr + Sizes[stage[t] + 1] /\ first_call' = FALSE
          /\ stage' = [stage EXCEPT ![t] = @ + 1]
          /\ exit_sp' = IF stage[t] = 1 THEN [exit_sp EXCEPT ![t] = rtn_ptr] ELSE exit_sp
          /\ sp' = IF stage[t] = 6 THEN [sp EXCEPT ![t] = rtn_ptr] ELSE sp
        BY <1>1, SMT DEF Create, Taken, Last
    <2>2. \A u \in Thread \ {t} : stage[u] \in {0, 7}
        BY <1>1, SMT DEF Create, Alone, UnderWay, TypeOK, Last
    <2>3. ASSUME NEW u \in Thread, u # t
          PROVE  /\ stage'[u] \in {0, 7} /\ exit_sp'[u] = exit_sp[u] /\ sp'[u] = sp[u]
                 /\ stage'[u] = stage[u]
        BY <2>1, <2>2, <2>3 DEF TypeOK
    <2>4. stage[t] \in 0 .. 6 /\ stage'[t] = stage[t] + 1
        BY <1>1, <2>1, SMT DEF Create, TypeOK, Last
    <2>5. stage[t] > 0 => rtn_ptr = os_mem_ptr
        BY <2>4, SMT DEF rtn_ptr, Before, StackInv, TypeOK
    <2>6. rtn_ptr \in Nat /\ os_mem_ptr \in Nat /\ exit_sp[t] \in Nat /\ sp[t] \in Nat
        BY RegionAssumption, SMT DEF rtn_ptr, Before, TypeOK
    <2>7. {UContext, ExitStack, Tcb, Node, Stack, MainBlock} \subseteq Nat
        BY RegionAssumption, SMT DEF MainBlock
    <2>8. CASE stage[t] = 0
        BY <2>1, <2>3, <2>4, <2>8, SMT DEF StackInv
    <2>9. CASE stage[t] = 1
        <3>1. exit_sp'[t] = rtn_ptr /\ os_mem_ptr' = rtn_ptr + ExitStack
            BY <2>1, <2>9, SMT DEF Sizes, TypeOK
        <3> QED BY <2>1, <2>3, <2>4, <2>6, <2>7, <2>9, <3>1, SMT DEF StackInv, Behind
    <2>10. CASE stage[t] \in 2 .. 4
        <3>1. exit_sp'[t] = exit_sp[t]
            BY <2>1, <2>10, SMT
        <3>2. os_mem_ptr' = os_mem_ptr + Sizes[stage[t] + 1]
            BY <2>1, <2>5, <2>10, SMT
        <3>3. Behind(stage[t] + 1) = Behind(stage[t]) + Sizes[stage[t] + 1]
            BY <2>7, <2>10, SMT DEF Behind, Sizes, Gap
        <3>4. os_mem_ptr' = exit_sp'[t] + Behind(stage'[t])
            <4>1. os_mem_ptr = exit_sp[t] + Behind(stage[t])
                BY <2>10, SMT DEF StackInv
            <4>2. Behind(stage[t]) \in Nat /\ Sizes[stage[t] + 1] \in Nat
                BY <2>7, <2>10, SMT DEF Behind, Sizes, Gap
            <4> QED BY <2>4, <2>6, <3>1, <3>2, <3>3, <4>1, <4>2, SMT
        <3> QED BY <2>1, <2>3, <2>4, <2>10, <3>4, SMT DEF StackInv
    <2>11. CASE stage[t] = 5
        <3>1. exit_sp'[t] = exit_sp[t] /\ os_mem_ptr = exit_sp[t] + Gap
            BY <2>1, <2>11, SMT DEF StackInv, Behind
        <3>2. os_mem_ptr' = os_mem_ptr \/ os_mem_ptr' = os_mem_ptr + MainBlock
            <4>1. Sizes[6] = IF firstThread THEN MainBlock ELSE 0
                BY DEF Sizes
            <4>2. os_mem_ptr' = os_mem_ptr + Sizes[6]
                BY <2>1, <2>5, <2>11, SMT
            <4>3. Sizes[6] = 0 \/ Sizes[6] = MainBlock
                BY <4>1
            <4> QED BY <2>6, <2>7, <4>2, <4>3, SMT
        <3> QED BY <2>1, <2>3, <2>4, <2>6, <2>7, <2>11, <3>1, <3>2, SMT DEF StackInv, Gap
    <2>12. CASE stage[t] = 6
        <3>1. sp'[t] = os_mem_ptr /\ exit_sp'[t] = exit_sp[t]
            BY <2>1, <2>5, <2>12, SMT DEF TypeOK
        <3> QED BY <2>1, <2>3, <2>4, <2>6, <2>7, <2>12, <3>1, SMT DEF StackInv, Gap
    <2> QED BY <2>4, <2>8, <2>9, <2>10, <2>11, <2>12, SMT
<1>2. ASSUME Alone(0), first_call' = FALSE, UNCHANGED <<stage, exit_sp, sp>> PROVE StackInv'
    <2>1. \A u \in Thread : stage[u] \in {0, 7}
        BY <1>2, SMT DEF Alone, UnderWay, TypeOK, Last, Thread
    <2> QED BY <1>2, <2>1, SMT DEF StackInv
<1>3. CASE NewPage
    BY <1>2, <1>3 DEF NewPage, Taken
<1>4. CASE Exit
    BY <1>2, <1>4 DEF Exit, Taken
<1>5. CASE Done \/ UNCHANGED vars
    BY <1>5 DEF Done, vars, StackInv
<1> QED BY <1>1, <1>3, <1>4, <1>5 DEF Next

\* The stack that exit_context uses is that of its own thread, if SIGALRM keeps out of
\* my_pthread_create and what lies between the two stacks, together with what
\* exit_context needs, is smaller than a stack.
THEOREM ExitStackOwnHolds ==
  ASSUME Interruptible = FALSE, Gap + MainBlock + Depth <= Stack
  PROVE  Spec => []ExitStackOwn
<1>1. TypeOK /\ StackInv => ExitStackOwn
    <2> SUFFICES ASSUME TypeOK, StackInv, NEW t \in Thread, stage[t] = Last
                 PROVE  sp[t] <= ExitTop(t) - Depth /\ ExitTop(t) <= sp[t] + Stack
        BY DEF ExitStackOwn
    <2>1. exit_sp[t] + Gap <= sp[t] /\ sp[t] <= exit_sp[t] + Gap + MainBlock
        BY SMT DEF StackInv, Last
    <2>2. exit_sp[t] \in Nat /\ sp[t] \in Nat /\ Gap \in Nat /\ MainBlock \in Nat
        BY RegionAssumption, SMT DEF TypeOK, Gap, MainBlock
    <2>3. Stack \in Nat /\ Depth \in Nat
        BY RegionAssumption
    <2> QED BY <2>1, <2>2, <2>3, SMT DEF ExitTop
<1>2. TypeOK /\ StackInv /\ [Next]_vars => StackInv'
    BY StackStep
<1> QED BY <1>1, <1>2, TypeInit, TypeStep, StackInit, PTL DEF Spec

-----------------------------------------------------------------------------
(* The end of the region.                                                  *)

\* What so many requests of a creation take, without createScheduler and the block of
\* main, which are taken once.
Part(k) ==
  IF k = 0 THEN 0
  ELSE IF k = 1 THEN UContext
  ELSE IF k = 2 THEN UContext + ExitStack
  ELSE IF k = 3 THEN 2 * UContext + ExitStack
  ELSE IF k = 4 THEN 2 * UContext + ExitStack + Tcb
  ELSE IF k < 7 THEN 2 * UContext + ExitStack + Tcb + Node
  ELSE PerThread

\* What is taken once.
Table == IF first_call THEN 0 ELSE FrameTable
Main  == IF firstThread THEN 0 ELSE MainBlock
Once  == Table + Main

\* The creations of the first n threads are done and no other is, but that of the next
\* may be under way.
Created(n) ==
  /\ n \in 0 .. MaxThreads
  /\ \A t \in Thread : /\ t <= n => stage[t] = 7
                       /\ t = n + 1 => stage[t] < 7
                       /\ t > n + 1 => stage[t] = 0

\* What was taken when the first n creations are done.
Sum(n) ==
  Once + n * PerThread + (IF n < MaxThreads THEN Part(stage[n + 1]) ELSE 0)
    + page_counter * PageMeta + exits * ExitNode

\* The pointer is the sum of what was asked for, and that is bounded.
SumInv ==
  /\ \E n \in 0 .. MaxThreads : Created(n) /\ os_mem_ptr = Sum(n)
  /\ page_counter <= MaxPages /\ exits <= MaxThreads + 1

\* The sizes are natural numbers.
LEMMA SizesNat ==
  /\ {MaxThreads, MaxPages, FrameTable, PageMeta, ExitNode, RegionSize, MainBlock} \subseteq Nat
  /\ {UContext, ExitStack, Tcb, Node, Stack, PerThread} \subseteq Nat
  /\ \A k \in 0 .. 7 : Part(k) \in Nat /\ Part(k) <= PerThread
<1>1. /\ {MaxThreads, MaxPages, FrameTable, PageMeta, ExitNode, RegionSize} \subseteq Nat
      /\ {UContext, ExitStack, Tcb, Node, Stack, Levels} \subseteq Nat
    BY RegionAssumption
<1>2. MainBlock \in Nat /\ PerThread \in Nat
    BY <1>1, SMT DEF MainBlock, PerThread
<1>3. \A k \in 0 .. 7 : Part(k) \in Nat /\ Part(k) <= PerThread
    BY <1>1, SMT DEF Part, PerThread
<1> QED BY <1>1, <1>2, <1>3

\* A product grows with its factor.
LEMMA ProductNat ==
  ASSUME NEW a \in Nat, NEW b \in Nat PROVE a * b \in Nat /\ (a + 1) * b = a * b + b
BY SMT

LEMMA ProductGrows ==
  ASSUME NEW a \in Nat, NEW b \in Nat, NEW c \in Nat, a <= b PROVE a * c <= b * c
<1>1. b - a \in Nat
    BY SMT
<1>2. (b - a) * c \in Nat
    BY <1>1, ProductNat
<1>3. b * c = a * c + (b - a) * c
    BY SMT
<1>4. a * c \in Nat
    BY ProductNat
<1> QED BY <1>2, <1>3, <1>4, SMT

\* The request number k + 1 of a creation.
LEMMA PartStep ==
  ASSUME NEW k \in 0 .. 6
  PROVE  Sizes[k + 1] = Part(k + 1) - Part(k) + (IF k = 5 /\ firstThread THEN MainBlock ELSE 0)
<1>1. {UContext, ExitStack, Tcb, Node, Stack, MainBlock} \subseteq Nat
    BY SizesNat
<1>2. /\ Sizes[1] = UContext /\ Sizes[2] = ExitStack /\ Sizes[3] = UContext /\ Sizes[4] = Tcb
      /\ Sizes[5] = Node /\ Sizes[6] = (IF firstThread THEN MainBlock ELSE 0)
      /\ Sizes[7] = Stack
    BY DEF Sizes
<1>3. k \in {0, 1, 2, 3, 4, 5, 6}
    BY SMT
<1>4. CASE k = 5
    BY <1>1, <1>2, <1>4, SMT DEF Part
<1>5. CASE k # 5
    BY <1>1, <1>2, <1>3, <1>5, SMT DEF Part, PerThread
<1> QED BY <1>4, <1>5

\* SumInv holds initially.
LEMMA SumInit == Init => SumInv
<1> SUFFICES ASSUME Init PROVE SumInv
    OBVIOUS
<1>1. Created(0)
    BY SizesNat, SMT DEF Init, Created, Thread
<1>2. Sum(0) = 0
    <2>1. Once = 0 /\ page_counter = 0 /\ exits = 0
        BY SMT DEF Init, Once, Table, Main
    <2>2. ASSUME 0 < MaxThreads PROVE Part(stage[0 + 1]) = 0
        <3>1. 0 + 1 \in Thread
            BY <2>2, SizesNat, SMT DEF Thread
        <3>2. stage[0 + 1] = 0
            BY <3>1 DEF Init
        <3> QED BY <3>2 DEF Part
    <2> QED BY <2>1, <2>2, SizesNat, SMT DEF Sum
<1> QED BY <1>1, <1>2, SizesNat, SMT DEF Init, SumInv

\* SumInv is preserved by every step, if SIGALRM keeps out of my_pthread_create.
LEMMA SumStep ==
  ASSUME Interruptible = FALSE, TypeOK, SumInv, [Next]_vars
  PROVE  SumInv'
<1>1. PICK n \in 0 .. MaxThreads : Created(n) /\ os_mem_ptr = Sum(n)
    BY DEF SumInv
<1>2. /\ os_mem_ptr \in Nat /\ page_counter \in Nat /\ exits \in Nat /\ n \in Nat
      /\ first_call \in BOOLEAN /\ firstThread \in BOOLEAN /\ MaxThreads \in Nat
    BY SizesNat DEF TypeOK
<1>3. n * PerThread \in Nat /\ page_counter * PageMeta \in Nat /\ exits * ExitNode \in Nat
    BY <1>2, SizesNat, ProductNat
<1>4. {FrameTable, MainBlock, PerThread, PageMeta, ExitNode} \subseteq Nat
    BY SizesNat
<1>5. Once \in Nat /\ Table \in Nat /\ Main \in Nat /\ Before \in Nat
    <2>1. Table \in {0, FrameTable} /\ Main \in {0, MainBlock} /\ Before \in {0, FrameTable}
        BY DEF Table, Main, Before
    <2> QED BY <1>4, <2>1, SMT DEF Once
<1>6. ASSUME n < MaxThreads
      PROVE  n + 1 \in Thread /\ stage[n + 1] \in 0 .. 6 /\ Part(stage[n + 1]) \in Nat
    <2>1. n + 1 \in Thread
        BY <1>2, <1>6, SMT DEF Thread
    <2>2. stage[n + 1] \in 0 .. 7 /\ stage[n + 1] < 7
        BY <1>1, <2>1, SMT DEF Created, TypeOK, Last
    <2> QED BY <2>1, <2>2, SizesNat, SMT
<1>7. ASSUME NEW x \in Nat, Taken(x), firstThread' = firstThread
      PROVE  os_mem_ptr' = os_mem_ptr + (Once' - Once) + x /\ Once' \in Nat
    <2>1. os_mem_ptr' = os_mem_ptr + Before + x /\ first_call' = FALSE
        BY <1>7 DEF Taken, rtn_ptr
    <2>2. Once' = Once + Before
        <3>1. Table' = FrameTable /\ Main' = Main
            BY <1>7, <2>1 DEF Table, Main
        <3>2. (Table = 0 /\ Before = FrameTable) \/ (Table = FrameTable /\ Before = 0)
            BY DEF Table, Before
        <3> QED BY <1>4, <1>5, <3>1, <3>2, SMT DEF Once
    <2> QED BY <1>2, <1>5, <2>1, <2>2, SMT
<1>8. ASSUME NEW t \in Thread, Create(t) PROVE SumInv'
    <2>1. /\ Taken(Sizes[stage[t] + 1])
          /\ stage' = [stage EXCEPT ![t] = @ + 1]
          /\ firstThread' = (firstThread /\ stage[t] # 5)
          /\ stage[t] < 7 /\ (t > 1 => stage[t - 1] > 0)
          /\ page_counter' = page_counter /\ exits' = exits
        BY <1>8, SMT DEF Create, Last
    <2>2. \A u \in Thread \ {t} : stage[u] \in {0, 7}
        BY <1>8, SMT DEF Create, Alone, UnderWay, TypeOK, Last
    <2>3. t = n + 1
        <3>1. t \in Nat /\ t >= 1 /\ t <= MaxThreads
            BY <1>2, SMT DEF Thread
        <3>2. ~(t <= n)
            BY <1>1, <2>1, SMT DEF Created
        <3>3. ASSUME t > n + 1 PROVE FALSE
            <4>1. t - 1 \in Thread /\ t - 1 # t /\ t - 1 >= n + 1
                BY <1>2, <3>1, <3>3, SMT DEF Thread
            <4>2. stage[t - 1] > 0 /\ stage[t - 1] \in {0, 7}
                BY <1>2, <2>1, <2>2, <3>1, <3>3, <4>1, SMT
            <4>3. t - 1 = n + 1 => stage[t - 1] < 7
                BY <1>1, <4>1 DEF Created
            <4>4. t - 1 > n + 1 => stage[t - 1] = 0
                BY <1>1, <4>1 DEF Created
            <4> QED BY <1>2, <3>1, <4>1, <4>2, <4>3, <4>4, SMT
        <3> QED BY <1>2, <3>1, <3>2, <3>3, SMT
    <2>4. n < MaxThreads
        BY <1>2, <2>3, SMT DEF Thread
    <2>5. stage[t] \in 0 .. 6 /\ stage'[t] = stage[t] + 1 /\ stage[t] + 1 \in 0 .. 7
        BY <1>6, <2>1, <2>3, <2>4, SMT DEF TypeOK
    <2>6. \A u \in Thread : u # t => stage'[u] = stage[u]
        BY <2>1 DEF TypeOK
    <2>7. Part(stage[t]) \in Nat /\ Part(stage[t] + 1) \in Nat
        BY <2>5, SizesNat, SMT
    <2>8. /\ os_mem_ptr' = os_mem_ptr + (Once' - Once) + Part(stage[t] + 1) - Part(stage[t])
          /\ Once' \in Nat
        <3>1. os_mem_ptr' = os_mem_ptr + Before + Sizes[stage[t] + 1] /\ first_call' = FALSE
            BY <2>1 DEF Taken, rtn_ptr
        <3>4. Sizes[stage[t] + 1] = Part(stage[t] + 1) - Part(stage[t])
                + (IF stage[t] = 5 /\ firstThread THEN MainBlock ELSE 0)
            BY <2>5, PartStep
        <3> DEFINE m == IF stage[t] = 5 /\ firstThread THEN MainBlock ELSE 0
        <3>5. m \in Nat
            BY <1>4
        <3> HIDE DEF m
        <3>6. Once' = Once + Before + m
            <4>1. Table' = FrameTable
                BY <3>1 DEF Table
            <4>2. (Table = 0 /\ Before = FrameTable) \/ (Table = FrameTable /\ Before = 0)
                BY DEF Table, Before
            <4>3. \/ Main' = MainBlock /\ Main = 0 /\ m = MainBlock
                  \/ Main' = Main /\ m = 0
                BY <2>1 DEF Main, m
            <4> QED BY <1>4, <1>5, <4>1, <4>2, <4>3, SMT DEF Once
        <3>7. Sizes[stage[t] + 1] = Part(stage[t] + 1) - Part(stage[t]) + m
            BY <3>4 DEF m
        <3> QED BY <1>2, <1>5, <2>7, <3>1, <3>5, <3>6, <3>7, SMT
    <2>9. os_mem_ptr = Once + n * PerThread + Part(stage[t]) + page_counter * PageMeta
                         + exits * ExitNode
        BY <1>1, <2>3, <2>4, SMT DEF Sum
    <2>10. os_mem_ptr' = Once' + n * PerThread + Part(stage[t] + 1) + page_counter * PageMeta
                          + exits * ExitNode
        <3>1. Once' \in Nat
            BY <2>8
        <3> QED BY <1>3, <1>5, <2>7, <2>8, <2>9, <3>1, SMT
    <2>11. CASE stage[t] = 6
        <3>1. n + 1 \in 0 .. MaxThreads
            BY <1>2, <2>4, SMT
        <3>2. Created(n + 1)'
            <4>1. ASSUME NEW u \in Thread
                  PROVE  /\ u <= n + 1 => stage'[u] = 7
                         /\ u = n + 1 + 1 => stage'[u] < 7
                         /\ u > n + 1 + 1 => stage'[u] = 0
                <5>1. u \in Nat
                    BY DEF Thread
                <5>2. CASE u = t
                    BY <1>2, <2>3, <2>5, <2>11, <5>2, SMT
                <5>3. CASE u # t
                    <6>1. stage'[u] = stage[u]
                        BY <2>6, <5>3
                    <6>2. (u <= n => stage[u] = 7) /\ (u > n + 1 => stage[u] = 0)
                        BY <1>1 DEF Created
                    <6> QED BY <1>2, <2>3, <5>1, <5>3, <6>1, <6>2, SMT
                <5> QED BY <5>2, <5>3
            <4> QED BY <3>1, <4>1 DEF Created
        <3>3. n + 1 < MaxThreads => Part(stage'[n + 1 + 1]) = 0
            <4> SUFFICES ASSUME n + 1 < MaxThreads PROVE stage'[n + 1 + 1] = 0
                BY DEF Part
            <4>1. n + 1 + 1 \in Thread /\ n + 1 + 1 > n + 1 /\ n + 1 + 1 # t
                BY <1>2, <2>3, SMT DEF Thread
            <4> QED BY <1>1, <2>6, <4>1 DEF Created
        <3>4. Part(stage[t] + 1) = PerThread
            BY <2>11, SMT DEF Part
        <3>5. (n + 1) * PerThread = n * PerThread + PerThread
            BY <1>2, <1>4, ProductNat
        <3>6. Once' \in Nat
            BY <2>8
        <3> DEFINE r == IF n + 1 < MaxThreads THEN Part(stage'[n + 1 + 1]) ELSE 0
        <3>7. r = 0
            BY <3>3
        <3> HIDE DEF r
        <3>8. Sum(n + 1)' = Once' + (n + 1) * PerThread + r + page_counter * PageMeta
                              + exits * ExitNode
            BY <2>1 DEF Sum, r
        <3>9. os_mem_ptr' = Sum(n + 1)'
            BY <1>2, <1>3, <1>4, <2>10, <3>4, <3>5, <3>6, <3>7, <3>8, SMT
        <3> QED BY <2>1, <3>1, <3>2, <3>9 DEF SumInv
    <2>12. CASE stage[t] # 6
        <3>1. Created(n)'
            <4>1. ASSUME NEW u \in Thread
                  PROVE  /\ u <= n => stage'[u] = 7
                         /\ u = n + 1 => stage'[u] < 7
                         /\ u > n + 1 => stage'[u] = 0
                <5>2. CASE u = t
                    BY <1>2, <2>3, <2>5, <2>12, <5>2, SMT
                <5>3. CASE u # t
                    <6>1. stage'[u] = stage[u]
                        BY <2>6, <5>3
                    <6> QED BY <1>1, <2>3, <5>3, <6>1 DEF Created
                <5> QED BY <5>2, <5>3
            <4> QED BY <4>1 DEF Created
        <3>2. Sum(n)' = Once' + n * PerThread + Part(stage'[n + 1]) + page_counter' * PageMeta
                          + exits' * ExitNode
            BY <2>4 DEF Sum
        <3>3. os_mem_ptr' = Sum(n)'
            BY <2>1, <2>3, <2>5, <2>10, <3>2
        <3> QED BY <2>1, <3>1, <3>3 DEF SumInv
    <2> QED BY <2>11, <2>12
<1>9. ASSUME NEW x \in Nat, Taken(x), UNCHANGED <<firstThread, stage>>,
             page_counter' \in Nat, exits' \in Nat,
             page_counter' * PageMeta + exits' * ExitNode
               = page_counter * PageMeta + exits * ExitNode + x
      PROVE  Created(n)' /\ os_mem_ptr' = Sum(n)'
    <2>1. Created(n)'
        BY <1>1, <1>9 DEF Created
    <2> DEFINE r == IF n < MaxThreads THEN Part(stage[n + 1]) ELSE 0
    <2>2. r \in Nat
        BY <1>6
    <2>3. Sum(n) = Once + n * PerThread + r + page_counter * PageMeta + exits * ExitNode
        BY DEF Sum
    <2>4. Sum(n)' = Once' + n * PerThread + r + page_counter' * PageMeta + exits' * ExitNode
        BY <1>9 DEF Sum
    <2>5. page_counter' * PageMeta \in Nat /\ exits' * ExitNode \in Nat
        BY <1>4, <1>9, ProductNat
    <2> HIDE DEF r
    <2> QED BY <1>1, <1>2, <1>3, <1>5, <1>7, <1>9, <2>1, <2>2, <2>3, <2>4, <2>5, SMT
<1>10. CASE NewPage
    <2>1. /\ Taken(PageMeta) /\ UNCHANGED <<firstThread, stage>> /\ page_counter < MaxPages
          /\ page_counter' = page_counter + 1 /\ exits' = exits
        BY <1>10 DEF NewPage
    <2>2. page_counter' * PageMeta = page_counter * PageMeta + PageMeta /\ page_counter' \in Nat
        BY <1>2, <1>4, <2>1, ProductNat
    <2>3. Created(n)' /\ os_mem_ptr' = Sum(n)'
        BY <1>2, <1>3, <1>4, <1>9, <2>1, <2>2, SMT
    <2>4. page_counter' <= MaxPages /\ exits' <= MaxThreads + 1
        BY <1>2, <2>1, SizesNat, SMT DEF SumInv
    <2> QED BY <2>3, <2>4 DEF SumInv
<1>11. CASE Exit
    <2>1. /\ Taken(ExitNode) /\ UNCHANGED <<firstThread, stage>> /\ exits <= MaxThreads
          /\ exits' = exits + 1 /\ page_counter' = page_counter
        BY <1>11 DEF Exit
    <2>2. exits' * ExitNode = exits * ExitNode + ExitNode /\ exits' \in Nat
        BY <1>2, <1>4, <2>1, ProductNat
    <2>3. Created(n)' /\ os_mem_ptr' = Sum(n)'
        BY <1>2, <1>3, <1>4, <1>9, <2>1, <2>2, SMT
    <2>4. page_counter' <= MaxPages /\ exits' <= MaxThreads + 1
        BY <1>2, <2>1, SizesNat, SMT DEF SumInv
    <2> QED BY <2>3, <2>4 DEF SumInv
<1>12. CASE Done \/ UNCHANGED vars
    <2>1. UNCHANGED vars
        BY <1>12 DEF Done
    <2>2. Created(n)' /\ Sum(n)' = Sum(n)
        BY <1>1, <2>1 DEF vars, Created, Sum, Once, Table, Main
    <2> QED BY <1>1, <2>1, <2>2 DEF vars, SumInv
<1> QED BY <1>8, <1>10, <1>11, <1>12 DEF Next

\* What SumInv says of the end of the region.
LEMMA SumBounds == TypeOK /\ SumInv => WithinRegion
<1> SUFFICES ASSUME TypeOK, SumInv, Demand <= RegionSize PROVE os_mem_ptr <= RegionSize
    BY DEF WithinRegion
<1>1. PICK n \in 0 .. MaxThreads : Created(n) /\ os_mem_ptr = Sum(n)
    BY DEF SumInv
<1>2. /\ os_mem_ptr \in Nat /\ page_counter \in Nat /\ exits \in Nat /\ n \in Nat
      /\ first_call \in BOOLEAN /\ firstThread \in BOOLEAN
      /\ page_counter <= MaxPages /\ exits <= MaxThreads + 1
    BY SizesNat DEF TypeOK, SumInv
<1>3. {MaxThreads, MaxPages, FrameTable, MainBlock, PerThread, PageMeta, ExitNode, RegionSize}
        \subseteq Nat
    BY SizesNat
<1>4. Once \in Nat /\ Once <= FrameTable + MainBlock
    <2>1. Table \in {0, FrameTable} /\ Main \in {0, MainBlock}
        BY DEF Table, Main
    <2> QED BY <1>3, <2>1, SMT DEF Once
<1> DEFINE r == IF n < MaxThreads THEN Part(stage[n + 1]) ELSE 0
<1>5. r \in Nat /\ n * PerThread + r <= MaxThreads * PerThread
    <2>1. CASE n < MaxThreads
        <3>1. n + 1 \in Thread /\ n + 1 \in Nat /\ n + 1 <= MaxThreads
            BY <1>2, <1>3, <2>1, SMT DEF Thread
        <3>2. stage[n + 1] \in 0 .. 7
            BY <3>1 DEF TypeOK, Last
        <3>3. r \in Nat /\ r <= PerThread
            BY <2>1, <3>2, SizesNat
        <3>4. (n + 1) * PerThread <= MaxThreads * PerThread
            BY <1>3, <3>1, ProductGrows
        <3>5. (n + 1) * PerThread = n * PerThread + PerThread /\ n * PerThread \in Nat
              /\ MaxThreads * PerThread \in Nat
            BY <1>2, <1>3, ProductNat
        <3> HIDE DEF r
        <3> QED BY <1>3, <3>3, <3>4, <3>5, SMT
    <2>2. CASE ~(n < MaxThreads)
        <3>1. n = MaxThreads /\ r = 0
            BY <1>2, <1>3, <2>2, SMT
        <3>2. MaxThreads * PerThread \in Nat
            BY <1>3, ProductNat
        <3> QED BY <3>1, <3>2, SMT
    <2> QED BY <2>1, <2>2
<1>6. page_counter * PageMeta <= MaxPages * PageMeta
    BY <1>2, <1>3, ProductGrows
<1>7. exits * ExitNode <= (MaxThreads + 1) * ExitNode
    <2>1. MaxThreads + 1 \in Nat
        BY <1>3, SMT
    <2> QED BY <1>2, <1>3, <2>1, ProductGrows
<1>8. /\ n * PerThread \in Nat /\ MaxThreads * PerThread \in Nat /\ page_counter * PageMeta \in Nat
      /\ MaxPages * PageMeta \in Nat /\ exits * ExitNode \in Nat
      /\ (MaxThreads + 1) * ExitNode \in Nat
    <2>1. MaxThreads + 1 \in Nat
        BY <1>3, SMT
    <2> QED BY <1>2, <1>3, <2>1, ProductNat
<1>9. os_mem_ptr = Once + n * PerThread + r + page_counter * PageMeta + exits * ExitNode
    BY <1>1 DEF Sum
<1>10. FrameTable + MainBlock + MaxThreads * PerThread + MaxPages * PageMeta
         + (MaxThreads + 1) * ExitNode <= RegionSize
    BY DEF Demand
<1> HIDE DEF r
<1> QED BY <1>2, <1>3, <1>4, <1>5, <1>6, <1>7, <1>8, <1>9, <1>10, SMT

\* The region never overflows, however many threads and pages there are, if it is as
\* large as what they take together and SIGALRM keeps out of my_pthread_create: every
\* request is for one of them, and createScheduler and the block of main ask once.
THEOREM WithinRegionHolds ==
  ASSUME Interruptible = FALSE
  PROVE  Spec => []WithinRegion
<1>1. TypeOK /\ SumInv /\ [Next]_vars => SumInv'
    BY SumStep
<1> QED BY <1>1, TypeInit, TypeStep, SumInit, SumBounds, PTL DEF Spec

=================================================================================

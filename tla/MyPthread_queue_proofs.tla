------------------------- MODULE MyPthread_queue_proofs -------------------------
(***************************************************************************)
(* The queues of MyPthread as sets: what each dequeue and enqueue does to  *)
(* the nodes that stand in a queue.  From these facts, for any number of   *)
(* threads and with SIGALRM anywhere, a library whose threads do not exit  *)
(* neither loses nor doubles a context.                                    *)
(***************************************************************************)
EXTENDS MyPthread_safety_proofs

-----------------------------------------------------------------------------
(* Sequences without repetition.                                           *)

\* No element stands twice in the sequence.
Distinct(q) == \A i, j \in 1 .. Len(q) : q[i] = q[j] => i = j

LEMMA RangeOf ==
  ASSUME NEW S, NEW q \in Seq(S)
  PROVE  Range(q) = {q[i] : i \in 1 .. Len(q)} /\ Range(q) \subseteq S
BY DEF Range

\* enqueuee of an element that is not in the queue.
LEMMA AppendDistinct ==
  ASSUME NEW S, NEW q \in Seq(S), NEW e \in S, Distinct(q), e \notin Range(q)
  PROVE  /\ Append(q, e) \in Seq(S)
         /\ Distinct(Append(q, e))
         /\ Range(Append(q, e)) = Range(q) \cup {e}
<1>1. /\ Append(q, e) \in Seq(S) /\ Len(Append(q, e)) = Len(q) + 1 /\ Len(q) \in Nat
      /\ \A i \in 1 .. Len(q) : Append(q, e)[i] = q[i]
      /\ Append(q, e)[Len(q) + 1] = e
  BY AppendProperties
<1>2. Range(q) = {q[i] : i \in 1 .. Len(q)}
  BY RangeOf
<1>3. Range(Append(q, e)) = {Append(q, e)[i] : i \in 1 .. Len(q) + 1}
  BY <1>1, RangeOf
<1> HIDE DEF Range
<1>4. Distinct(Append(q, e))
  BY <1>1, <1>2 DEF Distinct
<1>5. ASSUME NEW x PROVE x \in Range(Append(q, e)) <=> x \in Range(q) \cup {e}
  BY <1>1, <1>2, <1>3
<1> QED BY <1>1, <1>4, <1>5

\* dequeuee.
LEMMA TailDistinct ==
  ASSUME NEW S, NEW q \in Seq(S), q # << >>, Distinct(q)
  PROVE  /\ Head(q) \in Range(q) /\ Head(q) \in S
         /\ Tail(q) \in Seq(S)
         /\ Distinct(Tail(q))
         /\ Range(Tail(q)) = Range(q) \ {Head(q)}
<1>1. /\ Head(q) = q[1] /\ Head(q) \in S /\ Tail(q) \in Seq(S) /\ Len(q) \in Nat /\ Len(q) > 0
      /\ Len(Tail(q)) = Len(q) - 1
      /\ \A i \in 1 .. Len(q) - 1 : Tail(q)[i] = q[i + 1]
  BY HeadTailProperties
<1>2. Range(q) = {q[i] : i \in 1 .. Len(q)} /\ Range(Tail(q)) = {Tail(q)[i] : i \in 1 .. Len(q) - 1}
  BY <1>1, RangeOf
<1> HIDE DEF Range
<1>3. Distinct(Tail(q))
  BY <1>1 DEF Distinct
<1>4. ASSUME NEW x PROVE x \in Range(Tail(q)) <=> x \in Range(q) \ {Head(q)}
  <2>1. ASSUME x \in Range(Tail(q)) PROVE x \in Range(q) \ {Head(q)}
    <3>1. PICK i \in 1 .. Len(q) - 1 : x = q[i + 1]
      BY <1>1, <1>2, <2>1
    <3> QED BY <1>1, <1>2, <3>1 DEF Distinct
  <2>2. ASSUME x \in Range(q) \ {Head(q)} PROVE x \in Range(Tail(q))
    <3>1. PICK i \in 1 .. Len(q) : x = q[i] /\ i # 1
      BY <1>1, <1>2, <2>2
    <3>2. i - 1 \in 1 .. Len(q) - 1 /\ Tail(q)[i - 1] = x
      BY <1>1, <3>1
    <3> QED BY <1>2, <3>2
  <2> QED BY <2>1, <2>2
<1> QED BY <1>1, <1>2, <1>3, <1>4

\* The splice of the maintenance.
LEMMA ConcatDistinct ==
  ASSUME NEW S, NEW q \in Seq(S), NEW r \in Seq(S), Distinct(q), Distinct(r),
         Range(q) \cap Range(r) = {}
  PROVE  /\ q \o r \in Seq(S)
         /\ Distinct(q \o r)
         /\ Range(q \o r) = Range(q) \cup Range(r)
<1>1. /\ q \o r \in Seq(S) /\ Len(q \o r) = Len(q) + Len(r)
      /\ Len(q) \in Nat /\ Len(r) \in Nat
      /\ \A i \in 1 .. Len(q) + Len(r) :
           (q \o r)[i] = IF i <= Len(q) THEN q[i] ELSE r[i - Len(q)]
  BY ConcatProperties, LenProperties
<1>2. Range(q) = {q[i] : i \in 1 .. Len(q)} /\ Range(r) = {r[i] : i \in 1 .. Len(r)}
  BY RangeOf
<1>3. Range(q \o r) = Range(q) \cup Range(r)
  BY RangeConcatenation
<1>4. Distinct(q \o r)
  <2> SUFFICES ASSUME NEW i \in 1 .. Len(q) + Len(r), NEW j \in 1 .. Len(q) + Len(r),
                      (q \o r)[i] = (q \o r)[j]
               PROVE  i = j
    BY <1>1 DEF Distinct
  <2> HIDE DEF Range
  <2>1. CASE i <= Len(q) /\ j <= Len(q)
    BY <1>1, <2>1 DEF Distinct
  <2>2. CASE i > Len(q) /\ j > Len(q)
    <3>1. r[i - Len(q)] = r[j - Len(q)] /\ i - Len(q) \in 1 .. Len(r) /\ j - Len(q) \in 1 .. Len(r)
      BY <1>1, <2>2
    <3> QED BY <1>1, <3>1 DEF Distinct
  <2>3. CASE i <= Len(q) /\ j > Len(q)
    <3>1. q[i] = r[j - Len(q)] /\ i \in 1 .. Len(q) /\ j - Len(q) \in 1 .. Len(r)
      BY <1>1, <2>3
    <3> QED BY <1>2, <3>1
  <2>4. CASE i > Len(q) /\ j <= Len(q)
    <3>1. q[j] = r[i - Len(q)] /\ j \in 1 .. Len(q) /\ i - Len(q) \in 1 .. Len(r)
      BY <1>1, <2>4
    <3> QED BY <1>2, <3>1
  <2> QED BY <1>1, <2>1, <2>2, <2>3, <2>4
<1> QED BY <1>1, <1>3, <1>4

-----------------------------------------------------------------------------
(* The nodes that stand in the queues.                                     *)

\* The nodes of the levels, and those of all queues.
Members(qs)        == UNION {Range(qs[l]) : l \in Level}
Standing(qs, w, j) == Members(qs) \cup Range(w) \cup Range(j)

\* No node has two places.
Parted(qs, w, j) ==
  /\ \A l \in Level : Distinct(qs[l])
  /\ \A l, k \in Level : Range(qs[l]) \cap Range(qs[k]) # {} => l = k
  /\ Distinct(w) /\ Distinct(j)
  /\ Members(qs) \cap Range(w) = {}
  /\ Members(qs) \cap Range(j) = {}
  /\ Range(w) \cap Range(j) = {}

\* The queues are sequences of nodes, none of which has two places, and all
\* together they hold the nodes of a set.
Holding(B, qs, w, j, set) ==
  /\ qs \in [Level -> Seq(B)] /\ w \in Seq(B) /\ j \in Seq(B)
  /\ Parted(qs, w, j)
  /\ Standing(qs, w, j) = set

LEMMA InMembers ==
  ASSUME NEW qs, NEW x
  PROVE  x \in Members(qs) <=> \E l \in Level : x \in Range(qs[l])
BY DEF Members

\* A node is taken off the front of a level.
LEMMA TakeReady ==
  ASSUME NEW B, NEW qs, NEW w, NEW j, NEW set, Holding(B, qs, w, j, set),
         NEW l \in Level, qs[l] # << >>,
         NEW qs2, qs2 = [qs EXCEPT ![l] = Tail(@)]
  PROVE  /\ Head(qs[l]) \in set /\ Head(qs[l]) \in B
         /\ Head(qs[l]) \in Range(qs[l])
         /\ Holding(B, qs2, w, j, set \ {Head(qs[l])})
<1> DEFINE h == Head(qs[l])
<1>1. /\ qs \in [Level -> Seq(B)] /\ w \in Seq(B) /\ j \in Seq(B)
      /\ Parted(qs, w, j) /\ Standing(qs, w, j) = set
  BY DEF Holding
<1>2. /\ h \in Range(qs[l]) /\ h \in B /\ Tail(qs[l]) \in Seq(B)
      /\ Distinct(Tail(qs[l])) /\ Range(Tail(qs[l])) = Range(qs[l]) \ {h}
  BY <1>1, TailDistinct DEF Parted
<1>3. /\ qs2 \in [Level -> Seq(B)] /\ qs2[l] = Tail(qs[l])
      /\ \A k \in Level : k # l => qs2[k] = qs[k]
  BY <1>1, <1>2
<1> HIDE DEF h, Range
<1>4. Members(qs2) = Members(qs) \ {h}
  <2>1. \A k \in Level : k # l => h \notin Range(qs[k])
    BY <1>1, <1>2 DEF Parted
  <2>2. \A k \in Level : Range(qs2[k]) = Range(qs[k]) \ {h}
    BY <1>2, <1>3, <2>1
  <2>3. ASSUME NEW x PROVE x \in Members(qs2) <=> x \in Members(qs) \ {h}
    <3>1. x \in Members(qs2) <=> \E k \in Level : x \in Range(qs2[k])
      BY InMembers
    <3>2. x \in Members(qs) <=> \E k \in Level : x \in Range(qs[k])
      BY InMembers
    <3> QED BY <2>2, <3>1, <3>2, Zenon
  <2> QED BY <2>3
<1>5. h \in Members(qs) /\ h \notin Range(w) /\ h \notin Range(j)
  BY <1>1, <1>2 DEF Members, Parted
<1>6. Parted(qs2, w, j)
  <2>1. \A k \in Level : Distinct(qs2[k]) /\ Range(qs2[k]) \subseteq Range(qs[k])
    BY <1>1, <1>2, <1>3 DEF Parted
  <2> QED BY <1>1, <1>4, <2>1 DEF Parted
<1>7. Standing(qs2, w, j) = set \ {h} /\ h \in set
  BY <1>1, <1>4, <1>5 DEF Standing
<1> QED BY <1>1, <1>2, <1>3, <1>6, <1>7 DEF Holding, h

\* A node that stands nowhere is enqueued in a level.
LEMMA PutReady ==
  ASSUME NEW B, NEW qs, NEW w, NEW j, NEW set, Holding(B, qs, w, j, set),
         NEW l \in Level, NEW n \in B, n \notin set,
         NEW qs2, qs2 = [qs EXCEPT ![l] = Append(@, n)]
  PROVE  Holding(B, qs2, w, j, set \cup {n})
<1>1. /\ qs \in [Level -> Seq(B)] /\ w \in Seq(B) /\ j \in Seq(B)
      /\ Parted(qs, w, j) /\ Standing(qs, w, j) = set
  BY DEF Holding
<1>2. n \notin Members(qs) /\ n \notin Range(w) /\ n \notin Range(j)
  BY <1>1 DEF Standing
<1>3. \A k \in Level : n \notin Range(qs[k])
  BY <1>2 DEF Members
<1>4. /\ Append(qs[l], n) \in Seq(B) /\ Distinct(Append(qs[l], n))
      /\ Range(Append(qs[l], n)) = Range(qs[l]) \cup {n}
  BY <1>1, <1>3, AppendDistinct DEF Parted
<1>5. /\ qs2 \in [Level -> Seq(B)] /\ qs2[l] = Append(qs[l], n)
      /\ \A k \in Level : k # l => qs2[k] = qs[k]
  BY <1>1, <1>4
<1> HIDE DEF Range
<1>6. /\ Range(qs2[l]) = Range(qs[l]) \cup {n}
      /\ \A k \in Level : k # l => Range(qs2[k]) = Range(qs[k])
  BY <1>4, <1>5
<1>7. Members(qs2) = Members(qs) \cup {n}
  <2>1. ASSUME NEW x PROVE x \in Members(qs2) <=> x \in Members(qs) \cup {n}
    <3>1. x \in Members(qs2) <=> \E k \in Level : x \in Range(qs2[k])
      BY InMembers
    <3>2. x \in Members(qs) <=> \E k \in Level : x \in Range(qs[k])
      BY InMembers
    <3>3. \A k \in Level : x \in Range(qs2[k]) <=> x \in Range(qs[k]) \/ (k = l /\ x = n)
      BY <1>6
    <3>4. x \in Members(qs2) <=> x \in Members(qs) \/ x = n
      BY <3>1, <3>2, <3>3, Zenon
    <3> QED BY <3>4
  <2> QED BY <2>1
<1>8. Parted(qs2, w, j)
  <2>1. \A k \in Level : Distinct(qs2[k])
    BY <1>1, <1>4, <1>5 DEF Parted
  <2>2. \A k, m \in Level : Range(qs2[k]) \cap Range(qs2[m]) # {} => k = m
    BY <1>1, <1>3, <1>6 DEF Parted
  <2> QED BY <1>1, <1>2, <1>7, <2>1, <2>2 DEF Parted
<1>9. Standing(qs2, w, j) = set \cup {n}
  BY <1>1, <1>7 DEF Standing
<1> QED BY <1>1, <1>5, <1>8, <1>9 DEF Holding

\* A node that stands nowhere goes to sleep in the waiting queue or the join queue.
LEMMA PutSleeping ==
  ASSUME NEW B, NEW qs, NEW w, NEW j, NEW set, Holding(B, qs, w, j, set),
         NEW n \in B, n \notin set
  PROVE  Holding(B, qs, Append(w, n), j, set \cup {n})
<1>1. /\ qs \in [Level -> Seq(B)] /\ w \in Seq(B) /\ j \in Seq(B)
      /\ Parted(qs, w, j) /\ Standing(qs, w, j) = set
  BY DEF Holding
<1>2. n \notin Members(qs) /\ n \notin Range(w) /\ n \notin Range(j)
  BY <1>1 DEF Standing
<1>3. /\ Append(w, n) \in Seq(B) /\ Distinct(Append(w, n))
      /\ Range(Append(w, n)) = Range(w) \cup {n}
  BY <1>1, <1>2, AppendDistinct DEF Parted
<1> HIDE DEF Range
<1> QED BY <1>1, <1>2, <1>3 DEF Holding, Parted, Standing

LEMMA PutJoining ==
  ASSUME NEW B, NEW qs, NEW w, NEW j, NEW set, Holding(B, qs, w, j, set),
         NEW n \in B, n \notin set
  PROVE  Holding(B, qs, w, Append(j, n), set \cup {n})
<1>1. /\ qs \in [Level -> Seq(B)] /\ w \in Seq(B) /\ j \in Seq(B)
      /\ Parted(qs, w, j) /\ Standing(qs, w, j) = set
  BY DEF Holding
<1>2. n \notin Members(qs) /\ n \notin Range(w) /\ n \notin Range(j)
  BY <1>1 DEF Standing
<1>3. /\ Append(j, n) \in Seq(B) /\ Distinct(Append(j, n))
      /\ Range(Append(j, n)) = Range(j) \cup {n}
  BY <1>1, <1>2, AppendDistinct DEF Parted
<1> HIDE DEF Range
<1> QED BY <1>1, <1>2, <1>3 DEF Holding, Parted, Standing

\* The first of the waiting queue, or of the join queue, is taken off.
LEMMA TakeSleeping ==
  ASSUME NEW B, NEW qs, NEW w, NEW j, NEW set, Holding(B, qs, w, j, set), w # << >>
  PROVE  /\ Head(w) \in set /\ Head(w) \in B /\ Head(w) \in Range(w)
         /\ Range(Tail(w)) = Range(w) \ {Head(w)}
         /\ Holding(B, qs, Tail(w), j, set \ {Head(w)})
<1>1. /\ qs \in [Level -> Seq(B)] /\ w \in Seq(B) /\ j \in Seq(B)
      /\ Parted(qs, w, j) /\ Standing(qs, w, j) = set
  BY DEF Holding
<1>2. /\ Head(w) \in Range(w) /\ Head(w) \in B /\ Tail(w) \in Seq(B)
      /\ Distinct(Tail(w)) /\ Range(Tail(w)) = Range(w) \ {Head(w)}
  BY <1>1, TailDistinct DEF Parted
<1>3. Head(w) \notin Members(qs) /\ Head(w) \notin Range(j)
  BY <1>1, <1>2 DEF Parted
<1> HIDE DEF Range
<1> QED BY <1>1, <1>2, <1>3 DEF Holding, Parted, Standing

LEMMA TakeJoining ==
  ASSUME NEW B, NEW qs, NEW w, NEW j, NEW set, Holding(B, qs, w, j, set), j # << >>
  PROVE  /\ Head(j) \in set /\ Head(j) \in B /\ Head(j) \in Range(j)
         /\ Range(Tail(j)) = Range(j) \ {Head(j)}
         /\ Holding(B, qs, w, Tail(j), set \ {Head(j)})
<1>1. /\ qs \in [Level -> Seq(B)] /\ w \in Seq(B) /\ j \in Seq(B)
      /\ Parted(qs, w, j) /\ Standing(qs, w, j) = set
  BY DEF Holding
<1>2. /\ Head(j) \in Range(j) /\ Head(j) \in B /\ Tail(j) \in Seq(B)
      /\ Distinct(Tail(j)) /\ Range(Tail(j)) = Range(j) \ {Head(j)}
  BY <1>1, TailDistinct DEF Parted
<1>3. Head(j) \notin Members(qs) /\ Head(j) \notin Range(w)
  BY <1>1, <1>2 DEF Parted
<1> HIDE DEF Range
<1> QED BY <1>1, <1>2, <1>3 DEF Holding, Parted, Standing

\* The maintenance moves the lowest level behind the highest.
LEMMA BoostHolds ==
  ASSUME NEW B, NEW qs, NEW w, NEW j, NEW set, Holding(B, qs, w, j, set)
  PROVE  Holding(B, Boosted(qs), w, j, set)
<1> DEFINE qs2 == Boosted(qs)
<1>1. /\ qs \in [Level -> Seq(B)] /\ w \in Seq(B) /\ j \in Seq(B)
      /\ Parted(qs, w, j) /\ Standing(qs, w, j) = set
  BY DEF Holding
<1>2. /\ qs[0] \o qs[Lowest] \in Seq(B) /\ Distinct(qs[0] \o qs[Lowest])
      /\ Range(qs[0] \o qs[Lowest]) = Range(qs[0]) \cup Range(qs[Lowest])
  <2>1. Range(qs[0]) \cap Range(qs[Lowest]) = {}
    BY <1>1, LevelFacts DEF Parted
  <2>2. /\ qs[0] \in Seq(B) /\ qs[Lowest] \in Seq(B)
        /\ Distinct(qs[0]) /\ Distinct(qs[Lowest])
    BY <1>1, LevelFacts DEF Parted
  <2> QED BY <2>1, <2>2, ConcatDistinct
<1>3. << >> \in Seq(B) /\ Distinct(<< >>) /\ Range(<< >>) = {}
  BY EmptySeq DEF Distinct, Range
<1>4. /\ qs2 \in [Level -> Seq(B)] /\ qs2[0] = qs[0] \o qs[Lowest] /\ qs2[Lowest] = << >>
      /\ \A k \in Level : k # 0 /\ k # Lowest => qs2[k] = qs[k]
  BY <1>1, <1>2, <1>3, LevelFacts DEF Boosted
<1> HIDE DEF Range, qs2
<1>5. \A k \in Level : Range(qs2[k]) = IF k = 0 THEN Range(qs[0]) \cup Range(qs[Lowest])
                                       ELSE IF k = Lowest THEN {} ELSE Range(qs[k])
  BY <1>2, <1>3, <1>4
<1>6. Members(qs2) = Members(qs)
  <2>1. ASSUME NEW x PROVE x \in Members(qs2) <=> x \in Members(qs)
    BY <1>5, LevelFacts, InMembers
  <2> QED BY <2>1
<1>7. Parted(qs2, w, j)
  <2>1. \A k \in Level : Distinct(qs2[k])
    BY <1>1, <1>2, <1>3, <1>4 DEF Parted
  <2>2. \A k, m \in Level : Range(qs2[k]) \cap Range(qs2[m]) # {} => k = m
    BY <1>1, <1>5, LevelFacts DEF Parted
  <2> QED BY <1>1, <1>6, <2>1, <2>2 DEF Parted
<1>8. Standing(qs2, w, j) = set
  BY <1>1, <1>6 DEF Standing
<1> QED BY <1>1, <1>4, <1>7, <1>8 DEF Holding, qs2

-----------------------------------------------------------------------------
(* What the steps do to the nodes that stand in the queues.                *)

\* The queues of the library hold the nodes of a set.
Hold(set)     == Holding(Born, running_qs, waiting_queue, join_queue, set)
HoldNext(set) == Holding(Born', running_qs', waiting_queue', join_queue', set)

LEMMA MaintainHolds ==
  ASSUME NEW STATE B, NEW STATE qs, NEW STATE blocks, NEW w, NEW j, NEW set,
         Holding(B, qs, w, j, set), Maintain(qs, blocks)
  PROVE  Holding(B, running_qs', w, j, set)
BY BoostHolds DEF Maintain

\* The level of the current thread.
LEMMA PriorityType ==
  ASSUME TypeInv, current # NoNode
  PROVE  Priority \in Level /\ current \in Born /\ current \in Node
BY BornFacts DEF TypeInv, DataInv, CountInv, QueueInv, Block, Priority

\* The front of a level goes to its end.
LEMMA RotateHolds ==
  ASSUME TypeInv, NEW set, Hold(set), Queued
  PROVE  Holding(Born, Rotated, waiting_queue, join_queue, set)
<1> DEFINE h == Head(running_qs[Priority])
           qs == Dequeued
<1>1. Priority \in Level /\ running_qs[Priority] # << >>
  BY PriorityType DEF Queued
<1>2. qs = [running_qs EXCEPT ![Priority] = Tail(@)]
  BY DEF Dequeued
<1>3. /\ h \in set /\ h \in Born
      /\ Holding(Born, qs, waiting_queue, join_queue, set \ {h})
  <2> HIDE DEF qs
  <2> QED BY <1>1, <1>2, TakeReady DEF Hold, HoldNext
<1>4. Rotated = [qs EXCEPT ![Priority] = Append(@, h)]
  BY <1>1 DEF Rotated, Dequeued, Hold, Holding
<1> HIDE DEF h, qs
<1>5. Holding(Born, Rotated, waiting_queue, join_queue, (set \ {h}) \cup {h})
  BY <1>1, <1>3, <1>4, PutReady
<1>6. (set \ {h}) \cup {h} = set
  BY <1>3
<1> QED BY <1>5, <1>6

\* The front of a level leaves it.
LEMMA DequeueHolds ==
  ASSUME TypeInv, NEW set, Hold(set), Queued
  PROVE  LET h == Head(running_qs[Priority])
         IN  /\ h \in set /\ h \in Born
             /\ Holding(Born, Dequeued, waiting_queue, join_queue, set \ {h})
<1>1. Priority \in Level /\ running_qs[Priority] # << >>
  BY PriorityType DEF Queued
<1> QED BY <1>1, TakeReady DEF Hold, HoldNext, Dequeued

\* No step of the scheduler but the dequeue of a thread that exits changes the set.
LEMMA SwitchHolds ==
  ASSUME TypeInv, NEW set, Hold(set),
         SwitchTimer \/ SwitchYield \/ SwitchJoin \/ SwitchBlocked
  PROVE  HoldNext(set)
<1> DEFINE h == Head(running_qs[Priority])
<1>1. Queued /\ Born' = Born
  BY DEF SwitchTimer, SwitchYield, SwitchJoin, SwitchBlocked, births, Born
<1>2. /\ h \in set /\ h \in Born
      /\ Holding(Born, Dequeued, waiting_queue, join_queue, set \ {h})
  BY <1>1, DequeueHolds
<1>3. Holding(Born, Rotated, waiting_queue, join_queue, set)
  BY <1>1, RotateHolds
<1>4. Priority \in Level /\ h \notin set \ {h} /\ (set \ {h}) \cup {h} = set
  BY <1>1, <1>2, PriorityType DEF Queued
<1>5. CASE SwitchYield
  <2>1. Maintain(Rotated, tcb) /\ UNCHANGED <<waiting_queue, join_queue>>
    BY <1>5 DEF SwitchYield
  <2> QED BY <1>1, <1>3, <2>1, MaintainHolds DEF Hold, HoldNext
<1>6. CASE SwitchJoin
  <2>1. /\ Maintain(Dequeued, tcb) /\ waiting_queue' = waiting_queue
        /\ join_queue' = Append(join_queue, h)
    BY <1>6 DEF SwitchJoin
  <2> HIDE DEF h
  <2>2. Holding(Born, running_qs', waiting_queue', join_queue, set \ {h})
    BY <1>2, <2>1, MaintainHolds
  <2>3. Holding(Born, running_qs', waiting_queue', join_queue', set)
    BY <1>2, <1>4, <2>1, <2>2, PutJoining
  <2> QED BY <1>1, <2>3 DEF Hold, HoldNext
<1>7. CASE SwitchBlocked
  <2>1. /\ Maintain(Dequeued, tcb) /\ join_queue' = join_queue
        /\ waiting_queue' = Append(waiting_queue, h)
    BY <1>7 DEF SwitchBlocked
  <2> HIDE DEF h
  <2>2. Holding(Born, running_qs', waiting_queue, join_queue', set \ {h})
    BY <1>2, <2>1, MaintainHolds
  <2>3. Holding(Born, running_qs', waiting_queue', join_queue', set)
    BY <1>2, <1>4, <2>1, <2>2, PutSleeping
  <2> QED BY <1>1, <2>3 DEF Hold, HoldNext
<1>8. CASE SwitchTimer
  <2> DEFINE qs == [Dequeued EXCEPT ![Priority + 1] = Append(@, h)]
             blocks == [tcb EXCEPT ![current].thread_priority = @ + 1]
  <2>1. UNCHANGED <<waiting_queue, join_queue>>
    BY <1>8 DEF SwitchTimer
  <2>2. CASE CanSink
    <3>1. Maintain(qs, blocks)
      BY <1>8, <2>2 DEF SwitchTimer
    <3>2. Priority + 1 \in Level
      BY <1>4, <2>2, LevelFacts DEF CanSink
    <3>3. qs = [Dequeued EXCEPT ![Priority + 1] = Append(@, h)]
      OBVIOUS
    <3> HIDE DEF h, qs, blocks
    <3>4. Holding(Born, qs, waiting_queue, join_queue, (set \ {h}) \cup {h})
      BY <1>2, <1>4, <3>2, <3>3, PutReady
    <3>5. Holding(Born, running_qs', waiting_queue, join_queue, set)
      BY <1>4, <3>1, <3>4, MaintainHolds
    <3> QED BY <1>1, <2>1, <3>5 DEF Hold, HoldNext
  <2>3. CASE ~CanSink
    <3>1. Maintain(Rotated, tcb)
      BY <1>8, <2>3 DEF SwitchTimer
    <3> QED BY <1>1, <1>3, <2>1, <3>1, MaintainHolds DEF Hold, HoldNext
  <2> QED BY <2>2, <2>3
<1> QED BY <1>5, <1>6, <1>7, <1>8

\* A thread that exits leaves the front of its level.
LEMMA ExitHolds ==
  ASSUME TypeInv, NEW set, Hold(set), SwitchExit, Queued
  PROVE  HoldNext(set \ {Head(running_qs[Priority])})
<1>1. Maintain(Dequeued, tcb) /\ Born' = Born /\ UNCHANGED <<waiting_queue, join_queue>>
  BY DEF SwitchExit, Queued, births, Born
<1>2. Holding(Born, Dequeued, waiting_queue, join_queue, set \ {Head(running_qs[Priority])})
  BY DequeueHolds
<1> QED BY <1>1, <1>2, MaintainHolds DEF Hold, HoldNext

LEMMA DispatchHolds ==
  ASSUME TypeInv, NEW set, Hold(set), Dispatch
  PROVE  HoldNext(set)
<1>1. running_qs' = AfterPick /\ Born' = Born /\ UNCHANGED <<waiting_queue, join_queue>>
  BY DEF Dispatch, births, Born
<1>2. FrontIsCurrent => Queued
  BY DEF Dispatch, FrontIsCurrent, Queued
<1> QED BY <1>1, <1>2, RotateHolds DEF Hold, HoldNext, AfterPick

\* A joiner that is woken goes from the join queue to the highest level; any other
\* goes to the end of the join queue.
LEMMA ExitWakeHolds ==
  ASSUME TypeInv, NEW set, Hold(set), ExitWake
  PROVE  HoldNext(set)
<1> DEFINE n == Head(join_queue)
<1>1. join_queue # << >>
  <2>1. call[cpu].i \in Nat /\ call[cpu].i < Len(join_queue)
    BY DEF ExitWake, MoreJoiners, TypeInv, CallInv, QueueInv, CallRecord
  <2> QED BY <2>1
<1>2. /\ n \in set /\ n \in Born
      /\ Holding(Born, running_qs, waiting_queue, Tail(join_queue), set \ {n})
  BY <1>1, TakeJoining DEF Hold
<1>3. n \notin set \ {n} /\ (set \ {n}) \cup {n} = set /\ 0 \in Level
  BY <1>2, LevelFacts
<1>4. Born' = Born /\ waiting_queue' = waiting_queue
  BY DEF ExitWake, births, Born
<1>5. CASE Joins(n)
  <2>1. running_qs' = [running_qs EXCEPT ![0] = Append(@, n)] /\ join_queue' = Tail(join_queue)
    BY <1>5 DEF ExitWake
  <2> HIDE DEF n
  <2>2. Holding(Born, running_qs', waiting_queue, join_queue', (set \ {n}) \cup {n})
    BY <1>2, <1>3, <2>1, PutReady
  <2> QED BY <1>3, <1>4, <2>2 DEF Hold, HoldNext
<1>6. CASE ~Joins(n)
  <2>1. running_qs' = running_qs /\ join_queue' = Append(Tail(join_queue), n)
    BY <1>6 DEF ExitWake
  <2> HIDE DEF n
  <2>2. Holding(Born, running_qs', waiting_queue, join_queue', (set \ {n}) \cup {n})
    BY <1>2, <1>3, <2>1, PutJoining
  <2> QED BY <1>3, <1>4, <2>2 DEF Hold, HoldNext
<1> QED BY <1>5, <1>6

\* The head of the waiting queue goes to the highest level.
LEMMA UnlockWakeHolds ==
  ASSUME TypeInv, NEW set, Hold(set), UnlockWake
  PROVE  HoldNext(set)
<1> DEFINE n == Head(waiting_queue)
           m == call[cpu].arg
<1>1. Born' = Born /\ join_queue' = join_queue
  BY DEF UnlockWake, births, Born
<1>2. CASE Matches(m) = {}
  BY <1>1, <1>2 DEF UnlockWake, Hold, HoldNext
<1>3. CASE Matches(m) # {}
  <2>1. waiting_queue # << >>
    BY <1>3 DEF Matches
  <2>2. /\ running_qs' = [running_qs EXCEPT ![0] = Append(@, n)]
        /\ waiting_queue' = Tail(waiting_queue)
    BY <1>3 DEF UnlockWake
  <2>3. /\ n \in set /\ n \in Born
        /\ Holding(Born, running_qs, Tail(waiting_queue), join_queue, set \ {n})
    BY <2>1, TakeSleeping DEF Hold
  <2>4. n \notin set \ {n} /\ (set \ {n}) \cup {n} = set /\ 0 \in Level
    BY <2>3, LevelFacts
  <2> HIDE DEF n
  <2>5. Holding(Born, running_qs', waiting_queue', join_queue, (set \ {n}) \cup {n})
    BY <2>2, <2>3, <2>4, PutReady
  <2> QED BY <1>1, <2>4, <2>5 DEF Hold, HoldNext
<1> QED BY <1>2, <1>3

\* A new thread is enqueued in the highest level.
LEMMA CreateHolds ==
  ASSUME TypeInv, TypeInv', NEW set, Hold(set), Create
  PROVE  HoldNext(set \cup {nodeCount})
<1>1. /\ running_qs' = [running_qs EXCEPT ![0] = Append(@, nodeCount)]
      /\ nodeCount' = nodeCount + 1 /\ UNCHANGED <<waiting_queue, join_queue>>
  BY DEF Create
<1>2. nodeCount \in Nat /\ Born \subseteq Born' /\ nodeCount \in Born' /\ nodeCount \notin Born
  BY <1>1 DEF TypeInv, CountInv, Born
<1>3. Holding(Born', running_qs, waiting_queue, join_queue, set)
  <2>1. \A s \in Seq(Born) : s \in Seq(Born')
    BY <1>2, SeqMonotonic
  <2> QED BY <2>1 DEF Hold, HoldNext, Holding
<1>4. nodeCount \notin set
  <2>1. /\ running_qs \in [Level -> Seq(Born)] /\ waiting_queue \in Seq(Born)
        /\ join_queue \in Seq(Born)
        /\ set = Standing(running_qs, waiting_queue, join_queue)
    BY DEF Hold, Holding
  <2>2. Range(waiting_queue) \subseteq Born /\ Range(join_queue) \subseteq Born
    BY <2>1, RangeOf
  <2>3. \A l \in Level : Range(running_qs[l]) \subseteq Born
    BY <2>1, RangeOf
  <2> HIDE DEF Range
  <2>4. nodeCount \notin Members(running_qs)
    BY <1>2, <2>3, InMembers
  <2> QED BY <1>2, <2>1, <2>2, <2>4 DEF Standing
<1>5. Holding(Born', running_qs', waiting_queue, join_queue, set \cup {nodeCount})
  BY <1>1, <1>2, <1>3, <1>4, LevelFacts, PutReady
<1> HIDE DEF Born
<1> QED BY <1>1, <1>5 DEF Hold, HoldNext

\* The first creation fills the highest level.
LEMMA CreateFirstHolds ==
  ASSUME TypeInv, TypeInv', Hold({}), CreateFirst
  PROVE  HoldNext({0, 1})
<1>1. /\ running_qs' = [running_qs EXCEPT ![0] = <<1, 0>>] /\ nodeCount' = 2
      /\ UNCHANGED <<waiting_queue, join_queue>>
  BY DEF CreateFirst
<1>2. /\ running_qs \in [Level -> Seq(Born)] /\ waiting_queue \in Seq(Born)
      /\ join_queue \in Seq(Born)
      /\ Range(waiting_queue) = {} /\ Range(join_queue) = {}
      /\ Parted(running_qs, waiting_queue, join_queue)
      /\ Members(running_qs) = {}
  BY DEF Hold, Holding, Standing
<1>3. running_qs' \in [Level -> Seq(Born')] /\ waiting_queue' \in Seq(Born') /\ join_queue' \in Seq(Born')
  BY DEF TypeInv, QueueInv
<1>4. Distinct(<<1, 0>>) /\ Range(<<1, 0>>) = {0, 1}
  <2>1. <<1, 0>> \in Seq(Nat) /\ Len(<<1, 0>>) = 2
    OBVIOUS
  <2>2. Distinct(<<1, 0>>)
    BY <2>1 DEF Distinct
  <2>3. Range(<<1, 0>>) = {<<1, 0>>[i] : i \in 1 .. 2}
    BY <2>1, RangeOf
  <2> QED BY <2>2, <2>3
<1> HIDE DEF Range, Born
<1>5. \A l \in Level : Range(running_qs[l]) = {}
  BY <1>2, InMembers
<1>6. running_qs'[0] = <<1, 0>> /\ \A l \in Level : l # 0 => running_qs'[l] = running_qs[l]
  BY <1>1, <1>2, LevelFacts
<1>7. Members(running_qs') = {0, 1}
  <2>1. ASSUME NEW x PROVE x \in Members(running_qs') <=> x \in {0, 1}
    <3>1. x \in Members(running_qs') <=> \E l \in Level : x \in Range(running_qs'[l])
      BY InMembers
    <3> QED BY <1>4, <1>5, <1>6, <3>1, LevelFacts
  <2> QED BY <2>1
<1>8. Parted(running_qs', waiting_queue', join_queue')
  <2>1. \A l \in Level : Distinct(running_qs'[l])
    BY <1>2, <1>4, <1>6 DEF Parted
  <2>2. \A l, k \in Level : Range(running_qs'[l]) \cap Range(running_qs'[k]) # {} => l = k
    BY <1>5, <1>6
  <2> QED BY <1>1, <1>2, <2>1, <2>2 DEF Parted
<1>9. Standing(running_qs', waiting_queue', join_queue') = {0, 1}
  BY <1>1, <1>2, <1>7 DEF Standing
<1> QED BY <1>3, <1>8, <1>9 DEF HoldNext, Holding

-----------------------------------------------------------------------------
(* The number of places of a node.                                         *)

LEMMA SlotsAre ==
  ASSUME NEW set, Hold(set), NEW n, NEW s
  PROVE  s \in Slots(n) <=>
           \/ \E l \in Level : \E i \in 1 .. Len(running_qs[l]) :
                running_qs[l][i] = n /\ s = <<"running", l, i>>
           \/ \E i \in 1 .. Len(waiting_queue) : waiting_queue[i] = n /\ s = <<"waiting", 0, i>>
           \/ \E i \in 1 .. Len(join_queue) : join_queue[i] = n /\ s = <<"join", 0, i>>
<1>1. /\ \A l \in Level : DOMAIN running_qs[l] = 1 .. Len(running_qs[l])
      /\ DOMAIN waiting_queue = 1 .. Len(waiting_queue)
      /\ DOMAIN join_queue = 1 .. Len(join_queue)
  BY LenProperties DEF Hold, Holding
<1> DEFINE R == UNION {{<<"running", l, i>> : i \in {j \in DOMAIN running_qs[l] : running_qs[l][j] = n}}
                         : l \in Level}
           W == {<<"waiting", 0, i>> : i \in {j \in DOMAIN waiting_queue : waiting_queue[j] = n}}
           J == {<<"join", 0, i>> : i \in {j \in DOMAIN join_queue : join_queue[j] = n}}
<1>2. Slots(n) = R \cup W \cup J
  BY Zenon DEF Slots
<1> HIDE DEF Level
<1>3. s \in R <=> \E l \in Level : \E i \in 1 .. Len(running_qs[l]) :
                     running_qs[l][i] = n /\ s = <<"running", l, i>>
  <2>1. s \in R <=> \E l \in Level : \E i \in DOMAIN running_qs[l] :
                     running_qs[l][i] = n /\ s = <<"running", l, i>>
    OBVIOUS
  <2> HIDE DEF R
  <2> QED BY <1>1, <2>1
<1>4. s \in W <=> \E i \in 1 .. Len(waiting_queue) : waiting_queue[i] = n /\ s = <<"waiting", 0, i>>
  BY <1>1
<1>5. s \in J <=> \E i \in 1 .. Len(join_queue) : join_queue[i] = n /\ s = <<"join", 0, i>>
  BY <1>1
<1> HIDE DEF R, W, J
<1> QED BY <1>2, <1>3, <1>4, <1>5

\* A node of the set has one place, any other has none.
LEMMA OneSlot ==
  ASSUME NEW set, Hold(set), NEW n
  PROVE  Cardinality(Slots(n)) = IF n \in set THEN 1 ELSE 0
<1>1. /\ running_qs \in [Level -> Seq(Born)] /\ waiting_queue \in Seq(Born)
      /\ join_queue \in Seq(Born) /\ Parted(running_qs, waiting_queue, join_queue)
      /\ set = Standing(running_qs, waiting_queue, join_queue)
  BY DEF Hold, Holding
<1>2. /\ \A l \in Level : Range(running_qs[l]) = {running_qs[l][i] : i \in 1 .. Len(running_qs[l])}
      /\ Range(waiting_queue) = {waiting_queue[i] : i \in 1 .. Len(waiting_queue)}
      /\ Range(join_queue) = {join_queue[i] : i \in 1 .. Len(join_queue)}
  BY <1>1, RangeOf
<1> HIDE DEF Range, Level
<1>3. n \in set <=> \/ \E l \in Level : n \in Range(running_qs[l])
                    \/ n \in Range(waiting_queue) \/ n \in Range(join_queue)
  BY <1>1, InMembers DEF Standing
<1>4. CASE n \notin set
  <2>1. \A s : s \notin Slots(n)
    BY <1>2, <1>3, <1>4, SlotsAre
  <2> QED BY <1>4, <2>1, FS_EmptySet
<1>5. CASE n \in set
  <2>1. ASSUME NEW l \in Level, n \in Range(running_qs[l]) PROVE \E s : Slots(n) = {s}
    <3>1. PICK i \in 1 .. Len(running_qs[l]) : running_qs[l][i] = n
      <4>1. n \in {running_qs[l][i] : i \in 1 .. Len(running_qs[l])}
        BY <1>2, <2>1
      <4> QED BY <4>1
    <3>2. n \notin Range(waiting_queue) /\ n \notin Range(join_queue)
      <4>1. n \in Members(running_qs)
        BY <2>1, InMembers
      <4> QED BY <1>1, <4>1 DEF Parted
    <3>3. ASSUME NEW k \in Level, NEW j \in 1 .. Len(running_qs[k]), running_qs[k][j] = n
          PROVE  k = l /\ j = i
      <4>1. n \in Range(running_qs[k])
        BY <1>2, <3>3
      <4>2. k = l
        BY <1>1, <2>1, <4>1 DEF Parted
      <4> QED BY <1>1, <3>1, <3>3, <4>2 DEF Parted, Distinct
    <3>4. ASSUME NEW s PROVE s \in Slots(n) <=> s \in {<<"running", l, i>>}
      <4>1. s \in Slots(n) <=>
              \/ \E k \in Level : \E j \in 1 .. Len(running_qs[k]) :
                   running_qs[k][j] = n /\ s = <<"running", k, j>>
              \/ \E j \in 1 .. Len(waiting_queue) : waiting_queue[j] = n /\ s = <<"waiting", 0, j>>
              \/ \E j \in 1 .. Len(join_queue) : join_queue[j] = n /\ s = <<"join", 0, j>>
        BY SlotsAre
      <4> QED BY <1>2, <3>1, <3>2, <3>3, <4>1
    <3>5. Slots(n) = {<<"running", l, i>>}
      BY <3>4
    <3> QED BY <3>5
  <2>2. ASSUME n \in Range(waiting_queue) PROVE \E s : Slots(n) = {s}
    <3>1. PICK i \in 1 .. Len(waiting_queue) : waiting_queue[i] = n
      BY <1>2, <2>2
    <3>2. n \notin Range(join_queue) /\ \A l \in Level : n \notin Range(running_qs[l])
      <4>1. n \notin Range(join_queue) /\ n \notin Members(running_qs)
        BY <1>1, <2>2 DEF Parted
      <4> QED BY <4>1, InMembers
    <3>3. \A j \in 1 .. Len(waiting_queue) : waiting_queue[j] = n => j = i
      BY <1>1, <3>1 DEF Parted, Distinct
    <3>4. ASSUME NEW s PROVE s \in Slots(n) <=> s \in {<<"waiting", 0, i>>}
      <4>1. s \in Slots(n) <=>
              \/ \E k \in Level : \E j \in 1 .. Len(running_qs[k]) :
                   running_qs[k][j] = n /\ s = <<"running", k, j>>
              \/ \E j \in 1 .. Len(waiting_queue) : waiting_queue[j] = n /\ s = <<"waiting", 0, j>>
              \/ \E j \in 1 .. Len(join_queue) : join_queue[j] = n /\ s = <<"join", 0, j>>
        BY SlotsAre
      <4> QED BY <1>2, <3>1, <3>2, <3>3, <4>1
    <3>5. Slots(n) = {<<"waiting", 0, i>>}
      BY <3>4
    <3> QED BY <3>5
  <2>3. ASSUME n \in Range(join_queue) PROVE \E s : Slots(n) = {s}
    <3>1. PICK i \in 1 .. Len(join_queue) : join_queue[i] = n
      BY <1>2, <2>3
    <3>2. n \notin Range(waiting_queue) /\ \A l \in Level : n \notin Range(running_qs[l])
      <4>1. n \notin Range(waiting_queue) /\ n \notin Members(running_qs)
        BY <1>1, <2>3 DEF Parted
      <4> QED BY <4>1, InMembers
    <3>3. \A j \in 1 .. Len(join_queue) : join_queue[j] = n => j = i
      BY <1>1, <3>1 DEF Parted, Distinct
    <3>4. ASSUME NEW s PROVE s \in Slots(n) <=> s \in {<<"join", 0, i>>}
      <4>1. s \in Slots(n) <=>
              \/ \E k \in Level : \E j \in 1 .. Len(running_qs[k]) :
                   running_qs[k][j] = n /\ s = <<"running", k, j>>
              \/ \E j \in 1 .. Len(waiting_queue) : waiting_queue[j] = n /\ s = <<"waiting", 0, j>>
              \/ \E j \in 1 .. Len(join_queue) : join_queue[j] = n /\ s = <<"join", 0, j>>
        BY SlotsAre
      <4> QED BY <1>2, <3>1, <3>2, <3>3, <4>1
    <3>5. Slots(n) = {<<"join", 0, i>>}
      BY <3>4
    <3> QED BY <3>5
  <2>4. \E s : Slots(n) = {s}
    BY <1>3, <1>5, <2>1, <2>2, <2>3
  <2> QED BY <1>5, <2>4, FS_Singleton
<1> QED BY <1>4, <1>5

-----------------------------------------------------------------------------
(* Threads that do not exit.                                               *)

\* No thread is inside my_pthread_exit or has left it.
NobodyExits ==
  /\ \A n \in Node : call[n].at \notin {"exitWake", "dead"}
  /\ fc # "PEXIT"
  /\ proc # "init" => current # NoNode

LEMMA NobodyExitsStep ==
  ASSUME TypeInv, MayExit = {}, NobodyExits, [Next]_vars
  PROVE  NobodyExits'
<1>1. call \in [Node -> CallRecord] /\ cpu \in Node
  BY DEF TypeInv, CallInv, QueueInv
<1>2. ~Exit /\ ~ExitWake /\ ~ExitRecord /\ ~SwitchExit
  BY <1>1 DEF NobodyExits, Exit, ExitWake, ExitRecord, SwitchExit, InSwitch, At
<1>3. NoNode \notin Born /\ 0 \in Node /\ 1 \in Node
  BY BornFacts DEF TypeInv, CountInv
<1>4. CASE \/ SchedulerBusy \/ SwitchNone \/ DispatchNone
  <2>1. ReturnFromScheduler /\ UNCHANGED <<fc, current, proc>>
    BY <1>4 DEF SchedulerBusy, SwitchNone, DispatchNone
  <2>2. Resumed(call[cpu]).at \notin {"exitWake", "dead"}
    BY DEF Resumed, Idle, NobodyExits
  <2> QED BY <1>1, <2>1, <2>2 DEF ReturnFromScheduler, NobodyExits
<1>5. CASE SwitchFirst \/ SwitchTimer \/ SwitchYield \/ SwitchJoin \/ SwitchBlocked
  <2>1. ToDispatch /\ fc' # "PEXIT" /\ UNCHANGED <<current, proc>>
    BY <1>5 DEF SwitchFirst, SwitchTimer, SwitchYield, SwitchJoin, SwitchBlocked, NobodyExits
  <2>2. CASE sig = "none"
    <3>1. Goto("dispatch")
      BY <2>1, <2>2 DEF ToDispatch
    <3> QED BY <1>1, <2>1, <3>1 DEF Goto, NobodyExits
  <2>3. CASE sig # "none"
    <3>1. call' = call
      BY <2>1, <2>3 DEF ToDispatch
    <3> QED BY <2>1, <3>1 DEF NobodyExits
  <2> QED BY <2>2, <2>3
<1>6. CASE Dispatch
  <2>1. ReturnFromScheduler /\ fc' = fc /\ proc' = proc /\ current' = NewContext
    BY <1>6 DEF Dispatch, NobodyExits
  <2>2. Resumed(call[cpu]).at \notin {"exitWake", "dead"}
    BY DEF Resumed, Idle, NobodyExits
  <2>3. current' \in Born
    BY <1>6, NewContextType DEF Dispatch
  <2> QED BY <1>1, <1>3, <2>1, <2>2, <2>3 DEF ReturnFromScheduler, NobodyExits
<1>7. CASE CreateFirst \/ Create
  BY <1>1, <1>3, <1>7 DEF CreateFirst, Create, NobodyExits, Idle, At, InUser, NoNode
<1>8. CASE CreateCount \/ JoinWait \/ LockBlock \/ LockTest
  <2>1. (\E p \in Points \ {"exitWake", "dead"} : Goto(p)) /\ fc' # "PEXIT" /\ UNCHANGED <<current, proc>>
    BY <1>8 DEF CreateCount, JoinWait, LockBlock, LockTest, Points, NobodyExits
  <2> QED BY <1>1, <2>1 DEF Goto, NobodyExits
<1>9. CASE JoinReturn \/ LockTake \/ UnlockWake \/ MallocReturn \/ MallocGivesUp
  <2>1. ReturnToUser /\ UNCHANGED <<fc, current, proc>>
    BY <1>9 DEF JoinReturn, LockTake, UnlockWake, MallocReturn, MallocGivesUp
  <2> QED BY <1>1, <2>1 DEF ReturnToUser, Idle, NobodyExits
<1>10. CASE Yield \/ Join \/ Lock \/ Unlock \/ MallocEnter
  <2>1. /\ \E o, a : \E p \in Points \ {"exitWake", "dead"} : Enter(o, p, a)
        /\ fc' # "PEXIT" /\ UNCHANGED <<current, proc>>
    BY <1>10 DEF Yield, Join, Lock, Unlock, MallocEnter, Points, NobodyExits
  <2> QED BY <1>1, <2>1 DEF Enter, NobodyExits
<1>11. CASE \/ MallocSwaps \/ MallocMeta \/ MainReturns \/ MutexInit \/ MutexDestroy
            \/ TimerFires \/ Fault \/ Ended \/ UNCHANGED vars
  BY <1>11 DEF MallocSwaps, MallocMeta, MainReturns, MutexInit, MutexDestroy, TimerFires, Fault,
              Ended, vars, NobodyExits, At
<1> QED BY <1>2, <1>4, <1>5, <1>6, <1>7, <1>8, <1>9, <1>10, <1>11 DEF Next, Library, Client

\* The steps that leave the queues as they are.
LEMMA QueuesAlone ==
  ASSUME [Next]_vars, ~CreateFirst, ~Create, ~ExitWake, ~UnlockWake, ~Dispatch, ~SwitchExit,
         ~SwitchTimer, ~SwitchYield, ~SwitchJoin, ~SwitchBlocked
  PROVE  UNCHANGED <<queues, nodeCount>>
<1>1. CASE \/ SchedulerBusy \/ SwitchNone \/ SwitchFirst \/ DispatchNone
           \/ CreateCount \/ ExitRecord \/ JoinWait \/ JoinReturn
           \/ LockTest \/ LockBlock \/ LockTake
           \/ MallocSwaps \/ MallocMeta \/ MallocReturn \/ MallocGivesUp
  BY <1>1 DEF SchedulerBusy, SwitchNone, SwitchFirst, DispatchNone, CreateCount, ExitRecord,
              JoinWait, JoinReturn, LockTest, LockBlock, LockTake, MallocSwaps, MallocMeta,
              MallocReturn, MallocGivesUp, births
<1>2. CASE \/ Yield \/ Exit \/ Join \/ MainReturns
           \/ MutexInit \/ Lock \/ Unlock \/ MutexDestroy \/ MallocEnter
           \/ TimerFires \/ Fault \/ Ended \/ UNCHANGED vars
  BY <1>2 DEF Yield, Exit, Join, MainReturns, MutexInit, Lock, Unlock, MutexDestroy, MallocEnter,
              TimerFires, Fault, Ended, vars, births
<1> QED BY <1>1, <1>2 DEF Next, Library, Client

LEMMA AllHeldStep ==
  ASSUME TypeInv, TypeInv', NobodyExits, Hold(Born), [Next]_vars
  PROVE  Hold(Born)'
<1>1. Hold(Born)' <=> HoldNext(Born')
  BY DEF Hold, HoldNext
<1>2. CASE SwitchTimer \/ SwitchYield \/ SwitchJoin \/ SwitchBlocked
  <2>1. Born' = Born
    BY <1>2 DEF SwitchTimer, SwitchYield, SwitchJoin, SwitchBlocked, births, Born
  <2> QED BY <1>1, <1>2, <2>1, SwitchHolds
<1>3. CASE Dispatch
  <2>1. Born' = Born
    BY <1>3 DEF Dispatch, births, Born
  <2> QED BY <1>1, <1>3, <2>1, DispatchHolds
<1>4. CASE ExitWake
  <2>1. Born' = Born
    BY <1>4 DEF ExitWake, births, Born
  <2> QED BY <1>1, <1>4, <2>1, ExitWakeHolds
<1>5. CASE UnlockWake
  <2>1. Born' = Born
    BY <1>5 DEF UnlockWake, births, Born
  <2> QED BY <1>1, <1>5, <2>1, UnlockWakeHolds
<1>6. CASE Create
  <2>1. Born' = Born \cup {nodeCount}
    BY <1>6 DEF Create, Born, TypeInv, CountInv
  <2> QED BY <1>1, <1>6, <2>1, CreateHolds
<1>7. CASE CreateFirst
  <2>1. Born' = {0, 1} /\ Born = {}
    BY <1>7 DEF CreateFirst, Born, TypeInv, CountInv
  <2> QED BY <1>1, <1>7, <2>1, CreateFirstHolds
<1>8. CASE SwitchExit
  BY <1>8 DEF SwitchExit, InSwitch, NobodyExits
<1>9. CASE UNCHANGED <<queues, nodeCount>>
  BY <1>9 DEF queues, Hold, Born
<1> QED BY <1>2, <1>3, <1>4, <1>5, <1>6, <1>7, <1>8, <1>9, QueuesAlone

LEMMA EmptyQueuesHold ==
  ASSUME Init
  PROVE  Hold({}) /\ Born = {}
<1>1. /\ running_qs = [l \in Level |-> << >>] /\ waiting_queue = << >> /\ join_queue = << >>
      /\ nodeCount = 0
  BY DEF Init
<1>2. << >> \in Seq(Born) /\ Distinct(<< >>) /\ Range(<< >>) = {}
  BY EmptySeq DEF Distinct, Range
<1> HIDE DEF Range
<1>3. \A l \in Level : running_qs[l] = << >>
  BY <1>1
<1>4. Members(running_qs) = {}
  <2>1. ASSUME NEW x PROVE x \notin Members(running_qs)
    BY <1>2, <1>3, InMembers
  <2> QED BY <2>1
<1>5. Parted(running_qs, waiting_queue, join_queue)
  BY <1>1, <1>2, <1>3, <1>4 DEF Parted
<1>6. running_qs \in [Level -> Seq(Born)]
  BY <1>1, <1>2
<1>7. Standing(running_qs, waiting_queue, join_queue) = {}
  BY <1>1, <1>2, <1>4 DEF Standing
<1>8. Born = {}
  BY <1>1 DEF Born
<1> QED BY <1>1, <1>2, <1>5, <1>6, <1>7, <1>8 DEF Hold, Holding

\* OneQueueEach: wherever SIGALRM strikes and however mutexes, joins and failing
\* requests block the threads, a context that was created stands in exactly one
\* queue, provided that no thread exits.
THEOREM OneQueueEachWithoutExit ==
  ASSUME MayExit = {}
  PROVE  Spec => []OneQueueEach
<1>1. Init => NobodyExits /\ Hold(Born)
  <2> SUFFICES ASSUME Init PROVE NobodyExits /\ Hold(Born)
    OBVIOUS
  <2>1. Hold(Born)
    BY EmptyQueuesHold
  <2>2. NobodyExits
    BY DEF Init, NobodyExits, Idle
  <2> QED BY <2>1, <2>2
<1>2. TypeInv /\ TypeInv' /\ (NobodyExits /\ Hold(Born)) /\ [Next]_vars => (NobodyExits /\ Hold(Born))'
  BY NobodyExitsStep, AllHeldStep
<1>3. TypeInv /\ NobodyExits /\ Hold(Born) => OneQueueEach
  <2> SUFFICES ASSUME TypeInv, NobodyExits, Hold(Born), NEW n \in Born
               PROVE  Cardinality(Slots(n)) = IF Gone(n) THEN 0 ELSE 1
    BY DEF OneQueueEach, Born
  <2>1. Born # {} /\ n \in Node
    BY BornFacts DEF TypeInv, CountInv
  <2>2. proc # "init"
    BY DEF TypeInv, CountInv, Born
  <2>3. ~Gone(n)
    BY <2>1, <2>2 DEF Gone, NobodyExits
  <2> QED BY <2>3, OneSlot
<1> QED BY <1>1, <1>2, <1>3, TypesAlways, PTL DEF Spec

===============================================================================

-------------------------- MODULE LinkedQueues_proofs --------------------------
(***************************************************************************)
(* The linked queues represent first-in-first-out queues, for every number *)
(* of nodes, queues and threads, as long as a thread is interrupted only   *)
(* between dequeuee and enqueuee.                                          *)
(*                                                                         *)
(* Good(q) says that the pointers represent q: the node in front leads     *)
(* through the nodes of each queue to NULL, or to the node that the one    *)
(* thread in the middle of its assignments has linked, and back is the     *)
(* last of every queue that is not empty.  Each assignment keeps Good(q),  *)
(* or establishes it of the q that one operation of Queues leads to; and a *)
(* q of which Good holds is what the walk in Listed finds.                 *)
(***************************************************************************)
EXTENDS LinkedQueues, TLAPS, FiniteSetTheorems, SequenceTheorems, WellFoundedInduction

-----------------------------------------------------------------------------
(* Walks through a list.                                                   *)

\* The j-th node of a list, or what follows its last.
Ptr(s, j, e) == IF j <= Len(s) THEN s[j] ELSE e

\* The pointers of queue k lead through the nodes of s, and from the last to e.
Leads(k, s, e) ==
  /\ front[k] = Ptr(s, 1, e)
  /\ \A j \in 1 .. Len(s) : next[s[j]] = Ptr(s, j + 1, e)

\* A sequence of different nodes.
Simple(s) == s \in Seq(Node) /\ \A i, j \in 1 .. Len(s) : s[i] = s[j] => i = j

\* The recursion in Listed.
Reached(k, stops, f, i) ==
  IF i = 0 THEN [nodes |-> << >>, at |-> front[k]]
  ELSE LET w == f[i - 1]
       IN IF w.at \in stops THEN w
          ELSE [nodes |-> Append(w.nodes, w.at), at |-> next[w.at]]
Reach(k, stops) == CHOOSE f : f = [i \in Nat |-> Reached(k, stops, f, i)]

\* What it computes of a list s that ends at e.
Path(s, e) ==
  [i \in Nat |-> IF i <= Len(s) THEN [nodes |-> SubSeq(s, 1, i), at |-> Ptr(s, i + 1, e)]
                 ELSE [nodes |-> s, at |-> e]]

\* A set of natural numbers that is not empty has a smallest element.
LEMMA SmallestElement ==
  ASSUME NEW S \in SUBSET Nat, S # {}
  PROVE  \E l \in S : \A k \in S : l <= k
<1> DEFINE R == {ss \in Nat \X Nat : ss[1] < ss[2]}
<1>1. IsWellFoundedOn(R, Nat)
    BY NatLessThanWellFounded DEF OpToRel
<1>2. PICK l \in S : \A k \in S : <<k, l>> \notin R
    <2> HIDE DEF R
    <2> QED BY <1>1, WFMin, Zenon
<1>3. ASSUME NEW k \in S PROVE l <= k
    <2>1. <<k, l>> \notin R
        BY <1>2
    <2>2. <<k, l>> \in Nat \X Nat /\ ~(k < l)
        BY <2>1
    <2> QED BY <2>2
<1> QED BY <1>3

\* One node of a list after the other.
LEMMA PathSteps ==
  ASSUME NEW k, NEW stops, NEW s \in Seq(Node), NEW e, Leads(k, s, e), e \in stops,
         \A j \in 1 .. Len(s) : s[j] \notin stops, NEW i \in Nat
  PROVE  Path(s, e)[i] = Reached(k, stops, Path(s, e), i)
<1>1. Len(s) \in Nat
    BY LenProperties
<1>2. CASE i = 0
    <2>1. Path(s, e)[i] = [nodes |-> SubSeq(s, 1, 0), at |-> Ptr(s, 1, e)]
        BY <1>1, <1>2 DEF Path
    <2>2. SubSeq(s, 1, 0) = << >>
        BY SubSeqEmpty
    <2> QED BY <1>2, <2>1, <2>2 DEF Reached, Leads
<1>3. CASE i # 0
    <2>1. i - 1 \in Nat /\ i - 1 + 1 = i
        BY <1>3, SMT
    <2>2. CASE i <= Len(s)
        <3>1. i \in 1 .. Len(s) /\ i - 1 <= Len(s) /\ 1 \in 1 .. Len(s)
            BY <1>1, <1>3, <2>2, SMT
        <3>2. Path(s, e)[i - 1] = [nodes |-> SubSeq(s, 1, i - 1), at |-> Ptr(s, i, e)]
            BY <2>1, <3>1 DEF Path
        <3>3. Ptr(s, i, e) = s[i] /\ s[i] \notin stops /\ next[s[i]] = Ptr(s, i + 1, e)
            BY <2>2, <3>1 DEF Ptr, Leads
        <3>4. Path(s, e)[i] = [nodes |-> SubSeq(s, 1, i), at |-> Ptr(s, i + 1, e)]
            BY <2>2 DEF Path
        <3>5. SubSeq(s, 1, i) = Append(SubSeq(s, 1, i - 1), s[i])
            <4>1. 1 \in 1 .. Len(s) /\ i \in 1 .. Len(s) /\ i - 1 \in Int
                BY <1>1, <2>1, <3>1, SMT
            <4>2. SubSeq(s, 1, i) = SubSeq(s, 1, i - 1) \o <<s[i]>>
                BY <4>1, SubSeqRecursiveSecond
            <4>3. \A j \in 1 .. i - 1 : s[j] \in Node
                <5>1. \A j \in 1 .. i - 1 : j \in 1 .. Len(s)
                    BY <1>1, <2>1, <3>1, SMT
                <5> QED BY <5>1, ElementOfSeq
            <4>4. SubSeq(s, 1, i - 1) \in Seq(Node) /\ s[i] \in Node
                BY <4>1, <4>3, SubSeqProperties, ElementOfSeq
            <4> QED BY <4>2, <4>4, AppendIsConcat
        <3>6. Reached(k, stops, Path(s, e), i)
                = [nodes |-> Append(SubSeq(s, 1, i - 1), s[i]), at |-> next[s[i]]]
            <4> PICK w : w = Path(s, e)[i - 1]
                OBVIOUS
            <4>1. w.nodes = SubSeq(s, 1, i - 1) /\ w.at = s[i]
                BY <3>2, <3>3
            <4>2. Reached(k, stops, Path(s, e), i)
                    = IF w.at \in stops THEN w ELSE [nodes |-> Append(w.nodes, w.at), at |-> next[w.at]]
                BY <1>3 DEF Reached
            <4>3. w.at \notin stops
                BY <3>3, <4>1
            <4> QED BY <4>1, <4>2, <4>3, Zenon
        <3> QED BY <3>3, <3>4, <3>5, <3>6
    <2>3. CASE ~(i <= Len(s))
        <3>1. Path(s, e)[i] = [nodes |-> s, at |-> e]
            BY <2>3 DEF Path
        <3>2. Path(s, e)[i - 1] = [nodes |-> s, at |-> e]
            <4>1. CASE i - 1 <= Len(s)
                <5>1. i - 1 = Len(s) /\ Len(s) + 1 = i
                    BY <1>1, <2>1, <2>3, <4>1, SMT
                <5>2. Path(s, e)[i - 1] = [nodes |-> SubSeq(s, 1, Len(s)), at |-> Ptr(s, i, e)]
                    BY <2>1, <4>1, <5>1 DEF Path
                <5>3. SubSeq(s, 1, Len(s)) = s
                    BY SubSeqFull
                <5> QED BY <2>3, <5>2, <5>3 DEF Ptr
            <4>2. CASE ~(i - 1 <= Len(s))
                BY <2>1, <4>2 DEF Path
            <4> QED BY <4>1, <4>2
        <3> QED BY <1>3, <3>1, <3>2 DEF Reached
    <2> QED BY <2>2, <2>3
<1> QED BY <1>2, <1>3

\* A list of different nodes is not longer than there are nodes.
LEMMA FewListed ==
  ASSUME NEW s, Simple(s)
  PROVE  Len(s) < Cardinality(Node) + 1 /\ Cardinality(Node) + 1 \in Nat
<1>1. s \in Seq(Node) /\ Len(s) \in Nat
    BY LenProperties DEF Simple
<1>2. s \in [1 .. Len(s) -> Node]
    BY <1>1, LenProperties
<1>3. s \in Injection(1 .. Len(s), Node)
    BY <1>2 DEF Injection, IsInjective, Simple
<1>4. IsFiniteSet(Node) /\ Cardinality(Node) \in Nat
    BY QueuesAssumption, FS_CardinalityType
<1>5. Cardinality(1 .. Len(s)) <= Cardinality(Node)
    BY <1>3, <1>4, FS_Injection
<1>6. Cardinality(1 .. Len(s)) = Len(s)
    <2>1. 1 \in Int /\ Len(s) \in Int
        BY <1>1
    <2>2. Cardinality(1 .. Len(s)) = IF 1 > Len(s) THEN 0 ELSE Len(s) - 1 + 1
        BY <2>1, FS_Interval
    <2>3. ASSUME NEW l \in Nat PROVE l = IF 1 > l THEN 0 ELSE l - 1 + 1
        OBVIOUS
    <2> QED BY <1>1, <2>2, <2>3
<1> QED BY <1>1, <1>4, <1>5, <1>6, SMT

\* A list that leads through different nodes to where the walk stops is what is listed.
LEMMA ListedIs ==
  ASSUME NEW k, NEW s, Simple(s), NEW e, Leads(k, s, e), e \in Stops(k),
         \A j \in 1 .. Len(s) : s[j] \notin Stops(k)
  PROVE  Listed(k) = s
<1> DEFINE p == Path(s, e)
           r == Reach(k, Stops(k))
           n == Cardinality(Node) + 1
<1>1. Listed(k) = r[n].nodes
    BY DEF Listed, Reach, Reached
<1>2. s \in Seq(Node) /\ Len(s) \in Nat
    BY LenProperties DEF Simple
<1>3. p = [i \in Nat |-> Reached(k, Stops(k), p, i)]
    <2>1. \A i \in Nat : p[i] = Reached(k, Stops(k), p, i)
        BY <1>2, PathSteps
    <2>2. p = [i \in Nat |-> p[i]]
        BY DEF Path
    <2> HIDE DEF p
    <2> QED BY <2>1, <2>2
<1>4. r = [i \in Nat |-> Reached(k, Stops(k), r, i)]
    <2>1. \E f : f = [i \in Nat |-> Reached(k, Stops(k), f, i)]
        BY <1>3
    <2> QED BY <2>1 DEF Reach
<1>5. n \in Nat /\ Len(s) < n
    BY FewListed
<1> HIDE DEF p, r, n
<1> DEFINE Wrong == {i \in Nat : r[i] # p[i]}
<1>6. Wrong = {}
    <2>1. SUFFICES ASSUME Wrong # {} PROVE FALSE
        OBVIOUS
    <2>2. Wrong \in SUBSET Nat
        OBVIOUS
    <2>3. PICK l \in Wrong : \A i \in Wrong : l <= i
        <3> HIDE DEF Wrong
        <3> QED BY <2>1, <2>2, SmallestElement
    <2>4. l \in Nat /\ r[l] # p[l]
        OBVIOUS
    <2>5. r[l] = Reached(k, Stops(k), r, l) /\ p[l] = Reached(k, Stops(k), p, l)
        BY <1>3, <1>4, <2>4
    <2>6. CASE l = 0
        BY <2>4, <2>5, <2>6 DEF Reached
    <2>7. CASE l # 0
        <3>1. l - 1 \in Nat /\ ~(l <= l - 1)
            BY <2>4, <2>7, SMT
        <3>2. r[l - 1] = p[l - 1]
            BY <2>3, <3>1
        <3> QED BY <2>4, <2>5, <2>7, <3>2 DEF Reached
    <2> QED BY <2>6, <2>7
<1>7. p[n] = [nodes |-> s, at |-> e]
    <2>1. ~(n <= Len(s))
        BY <1>2, <1>5, SMT
    <2> QED BY <1>5, <2>1 DEF p, Path
<1>8. r[n] = p[n]
    BY <1>5, <1>6
<1> QED BY <1>1, <1>7, <1>8

-----------------------------------------------------------------------------
(* The assignments that a call has left.                                   *)

\* At, Carries and Splicing, of a list of assignments.
AtOf(d) == IF d = << >> THEN "idle" ELSE Head(d)
CarriesOf(d) == d # << >> /\ AtOf(d) # "walk" /\ \A i \in DOMAIN d : d[i] \notin {"unhook", "clear", "clearBack"}
SplicingOf(d) == "clear" \in {d[i] : i \in DOMAIN d}

\* What the lists of assignments begin with, and what they are part of.
LEMMA Beginnings ==
  /\ AtOf(<< >>) = "idle"
  /\ AtOf(<<"unhook">>) = "unhook" /\ AtOf(<<"unhook", "put">>) = "unhook" /\ AtOf(<<"put">>) = "put"
  /\ AtOf(<<"first", "last", "own">>) = "first" /\ AtOf(<<"last", "own">>) = "last" /\ AtOf(<<"own">>) = "own"
  /\ AtOf(<<"link", "last", "end">>) = "link" /\ AtOf(<<"last", "end">>) = "last" /\ AtOf(<<"end">>) = "end"
  /\ AtOf(<<"first", "last", "clear", "clearBack">>) = "first"
  /\ AtOf(<<"link", "last", "clear", "clearBack">>) = "link"
  /\ AtOf(<<"last", "clear", "clearBack">>) = "last" /\ AtOf(<<"clear", "clearBack">>) = "clear"
  /\ AtOf(<<"clearBack">>) = "clearBack" /\ AtOf(<<"walk">>) = "walk"
BY DEF AtOf

\* Those with which a thread has its node in hand.
LEMMA Carrying ==
  /\ ~CarriesOf(<< >>) /\ ~CarriesOf(<<"unhook">>) /\ ~CarriesOf(<<"unhook", "put">>) /\ CarriesOf(<<"put">>)
  /\ CarriesOf(<<"first", "last", "own">>) /\ CarriesOf(<<"last", "own">>) /\ CarriesOf(<<"own">>)
  /\ CarriesOf(<<"link", "last", "end">>) /\ CarriesOf(<<"last", "end">>) /\ CarriesOf(<<"end">>)
  /\ ~CarriesOf(<<"first", "last", "clear", "clearBack">>)
  /\ ~CarriesOf(<<"link", "last", "clear", "clearBack">>)
  /\ ~CarriesOf(<<"last", "clear", "clearBack">>) /\ ~CarriesOf(<<"clear", "clearBack">>)
  /\ ~CarriesOf(<<"clearBack">>) /\ ~CarriesOf(<<"walk">>)
BY Beginnings DEF CarriesOf

\* Those that are part of the splice.
LEMMA InSplice ==
  /\ ~SplicingOf(<< >>) /\ ~SplicingOf(<<"unhook">>) /\ ~SplicingOf(<<"unhook", "put">>) /\ ~SplicingOf(<<"put">>)
  /\ ~SplicingOf(<<"first", "last", "own">>) /\ ~SplicingOf(<<"last", "own">>) /\ ~SplicingOf(<<"own">>)
  /\ ~SplicingOf(<<"link", "last", "end">>) /\ ~SplicingOf(<<"last", "end">>) /\ ~SplicingOf(<<"end">>)
  /\ SplicingOf(<<"first", "last", "clear", "clearBack">>)
  /\ SplicingOf(<<"link", "last", "clear", "clearBack">>)
  /\ SplicingOf(<<"last", "clear", "clearBack">>) /\ SplicingOf(<<"clear", "clearBack">>)
  /\ ~SplicingOf(<<"clearBack">>) /\ ~SplicingOf(<<"walk">>)
BY DEF SplicingOf

\* What is left of them after one assignment.
LEMMA Tails ==
  /\ Len(<<"unhook">>) = 1 /\ Len(<<"own">>) = 1 /\ Len(<<"end">>) = 1 /\ Len(<<"clearBack">>) = 1
  /\ Len(<<"unhook", "put">>) # 1 /\ Tail(<<"unhook", "put">>) = <<"put">>
  /\ Len(<<"first", "last", "own">>) # 1 /\ Tail(<<"first", "last", "own">>) = <<"last", "own">>
  /\ Len(<<"last", "own">>) # 1 /\ Tail(<<"last", "own">>) = <<"own">>
  /\ Len(<<"link", "last", "end">>) # 1 /\ Tail(<<"link", "last", "end">>) = <<"last", "end">>
  /\ Len(<<"last", "end">>) # 1 /\ Tail(<<"last", "end">>) = <<"end">>
  /\ Len(<<"first", "last", "clear", "clearBack">>) # 1
  /\ Tail(<<"first", "last", "clear", "clearBack">>) = <<"last", "clear", "clearBack">>
  /\ Len(<<"link", "last", "clear", "clearBack">>) # 1
  /\ Tail(<<"link", "last", "clear", "clearBack">>) = <<"last", "clear", "clearBack">>
  /\ Len(<<"last", "clear", "clearBack">>) # 1
  /\ Tail(<<"last", "clear", "clearBack">>) = <<"clear", "clearBack">>
  /\ Len(<<"clear", "clearBack">>) # 1 /\ Tail(<<"clear", "clearBack">>) = <<"clearBack">>
OBVIOUS

-----------------------------------------------------------------------------
(* The inductive invariant.  q is what the pointers represent.             *)

CallType ==
  [todo : Seq(Steps), Q : Queue \cup {Null}, n : Node \cup {Null}, to : Queue \cup {Null},
   count : Nat]

Typed ==
  /\ front \in [Queue -> Node \cup {Null}] /\ back \in [Queue -> Node \cup {Null}]
  /\ next \in [Node -> Node \cup {Null}] /\ fresh \subseteq Node
  /\ op \in [Thread -> CallType]

Waits(c) == AtOf(c.todo) \in {"idle", "put"}

\* At most one thread is in the middle of its assignments.
Sole(t) == \A u \in Thread \ {t} : Waits(op[u])
Single  == \A t, u \in Thread : Waits(op[t]) \/ Waits(op[u]) \/ t = u

\* No node is in two places of the queues, or in a queue and in hand or fresh.
Apart(q) ==
  /\ \A k, m \in Queue : \A i \in 1 .. Len(q[k]), j \in 1 .. Len(q[m]) :
       q[k][i] = q[m][j] => k = m /\ i = j
  /\ \A k \in Queue : \A i \in 1 .. Len(q[k]) : q[k][i] \notin Hand \cup fresh
  /\ Hand \cap fresh = {}
  /\ \A t, u \in Thread : CarriesOf(op[t].todo) /\ CarriesOf(op[u].todo) /\ op[t].n = op[u].n => t = u

\* The call c is about queue Q, which it found empty or not.
Taking(q, c) ==
  /\ c.todo \in {<<"unhook">>, <<"unhook", "put">>}
  /\ c.Q \in Queue /\ q[c.Q] # << >> /\ c.n = q[c.Q][1]
  /\ c.todo = <<"unhook", "put">> => c.to \in Queue
Holding(c) == c.todo = <<"put">> /\ c.n \in Node /\ c.to \in Queue
IntoEmpty(q, c) ==
  /\ c.todo \in {<<"first", "last", "own">>, <<"last", "own">>, <<"own">>}
  /\ c.Q \in Queue /\ c.n \in Node /\ q[c.Q] = << >>
IntoFull(q, c) ==
  /\ c.todo \in {<<"link", "last", "end">>, <<"last", "end">>, <<"end">>}
  /\ c.Q \in Queue /\ c.n \in Node /\ q[c.Q] # << >>
Splices(q, c) ==
  /\ c.todo \in {<<"first", "last", "clear", "clearBack">>, <<"link", "last", "clear", "clearBack">>,
                 <<"last", "clear", "clearBack">>, <<"clear", "clearBack">>}
  /\ c.Q = highest /\ q[lowest] # << >> /\ c.n = q[lowest][1]
  /\ c.todo = <<"first", "last", "clear", "clearBack">> => q[highest] = << >>
  /\ c.todo = <<"link", "last", "clear", "clearBack">> => q[highest] # << >>
Clearing(q, c) == c.todo = <<"clearBack">> /\ q[lowest] = << >>
Counts(q, c) ==
  /\ c.todo = <<"walk">> /\ c.Q \in Queue
  /\ c.count <= Len(q[c.Q]) /\ c.n = Ptr(q[c.Q], c.count + 1, Null)

Phase(q, c) ==
  \/ c.todo = << >> \/ Taking(q, c) \/ Holding(c) \/ IntoEmpty(q, c) \/ IntoFull(q, c)
  \/ Splices(q, c) \/ Clearing(q, c) \/ Counts(q, c)

\* The call has linked its node to queue k, and has made it the last.
Linked(c, k) == AtOf(c.todo) \in {"last", "own", "end", "clear"} /\ c.Q = k
Backed(c, k) == AtOf(c.todo) \in {"own", "end", "clear"} /\ c.Q = k

\* The pointers represent q, up to what the call c has already changed.
Lists(q, c) ==
  /\ \A k \in Queue : Linked(c, k) => Leads(k, q[k], c.n)
  /\ \A k \in Queue : ~Linked(c, k) => Leads(k, q[k], Null)
  /\ \A k \in Queue : Backed(c, k) => back[k] = IF SplicingOf(c.todo) THEN back[lowest] ELSE c.n
  /\ \A k \in Queue : ~Backed(c, k) /\ q[k] # << >> => back[k] = q[k][Len(q[k])]

Good(q) ==
  /\ q \in [Queue -> Seq(Node)]
  /\ Typed /\ Single /\ Apart(q)
  /\ \A t \in Thread : Phase(q, op[t])
  /\ \A t \in Thread : Sole(t) => Lists(q, op[t])

Inv == Good([k \in Queue |-> Listed(k)])

-----------------------------------------------------------------------------
(* Facts about calls and lists.                                            *)

\* The definitions of the module in terms of a call.
LEMMA InCall ==
  /\ \A t \in Thread : /\ At(t) = AtOf(op[t].todo) /\ (Carries(t) <=> CarriesOf(op[t].todo))
                       /\ (Splicing(t) <=> SplicingOf(op[t].todo))
  /\ Hand = {op[t].n : t \in {u \in Thread : CarriesOf(op[u].todo)}}
  /\ \A t : Done(t) <=> op' = [op EXCEPT ![t] = After(op[t])]
<1>1. \A t : /\ At(t) = AtOf(op[t].todo) /\ (Carries(t) <=> CarriesOf(op[t].todo))
             /\ (Splicing(t) <=> SplicingOf(op[t].todo))
    BY DEF At, AtOf, Carries, CarriesOf, Splicing, SplicingOf
<1>2. Hand = {op[t].n : t \in {u \in Thread : CarriesOf(op[u].todo)}}
    BY <1>1 DEF Hand
<1>3. ASSUME NEW t PROVE Done(t) <=> op' = [op EXCEPT ![t] = After(op[t])]
    BY DEF Done
<1> QED BY <1>1, <1>2, <1>3

\* The names are different from NULL.
LEMMA Names ==
  /\ highest \in Queue /\ lowest \in Queue /\ highest # lowest
  /\ Null \notin Node /\ Null \notin Queue
BY QueuesAssumption

\* Somebody may act on lists that are as Lists says.
LEMMA SomeSole ==
  ASSUME Single
  PROVE  \E t \in Thread : Sole(t)
<1>1. CASE \E t \in Thread : ~Waits(op[t])
    BY <1>1 DEF Single, Sole
<1>2. CASE \A t \in Thread : Waits(op[t])
    <2>1. \E t \in Thread : TRUE
        BY QueuesAssumption
    <2> QED BY <1>2, <2>1 DEF Sole
<1> QED BY <1>1, <1>2

\* What is listed is what the pointers represent.
LEMMA GoodListed ==
  ASSUME NEW q, Good(q), NEW k \in Queue
  PROVE  Listed(k) = q[k]
<1>1. PICK t \in Thread : Sole(t)
    BY SomeSole DEF Good
<1>2. /\ q[k] \in Seq(Node) /\ Apart(q) /\ Phase(q, op[t]) /\ Lists(q, op[t])
    BY <1>1 DEF Good
<1>3. Simple(q[k])
    BY <1>2 DEF Simple, Apart
<1>4. \A j \in 1 .. Len(q[k]) : q[k][j] \notin Stops(k)
    <2>1. SUFFICES ASSUME NEW j \in 1 .. Len(q[k]), q[k][j] \in Stops(k) PROVE FALSE
        OBVIOUS
    <2>2. q[k][j] \in Node /\ q[k][j] # Null
        BY <1>2, ElementOfSeq, Names
    <2>3. q[k][j] \notin Hand
        BY <1>2 DEF Apart
    <2>4. PICK u \in Thread : q[k][j] = op[u].n /\ SplicingOf(op[u].todo) /\ k = highest
        BY <2>1, <2>2, <2>3, InCall DEF Stops
    <2>5. Splices(q, op[u])
        <3>1. Phase(q, op[u])
            BY DEF Good
        <3> QED BY <2>4, <3>1, InSplice
                DEF Phase, Taking, Holding, IntoEmpty, IntoFull, Clearing, Counts
    <2>6. q[lowest] # << >> /\ q[k][j] = q[lowest][1] /\ q[lowest] \in Seq(Node)
        BY <2>4, <2>5, Names DEF Splices, Good
    <2>7. 1 \in 1 .. Len(q[lowest])
        BY <2>6, EmptySeq, SMT
    <2> QED BY <1>2, <2>4, <2>6, <2>7, Names DEF Apart
<1>5. CASE Linked(op[t], k)
    <2>1. op[t].n \in Stops(k)
        <3>1. CASE CarriesOf(op[t].todo)
            BY <3>1, InCall DEF Stops
        <3>2. CASE ~CarriesOf(op[t].todo)
            <4>1. Splices(q, op[t])
                BY <1>2, <1>5, <3>2, Beginnings, Carrying
                   DEF Phase, Taking, Holding, IntoEmpty, IntoFull, Clearing, Counts, Linked
            <4>2. SplicingOf(op[t].todo) /\ k = highest
                BY <1>5, <4>1, InSplice DEF Splices, Linked
            <4> QED BY <4>2, InCall DEF Stops
        <3> QED BY <3>1, <3>2
    <2>2. Leads(k, q[k], op[t].n)
        BY <1>2, <1>5 DEF Lists
    <2> QED BY <1>3, <1>4, <2>1, <2>2, ListedIs
<1>6. CASE ~Linked(op[t], k)
    <2>1. Leads(k, q[k], Null)
        BY <1>2, <1>6 DEF Lists
    <2>2. Null \in Stops(k)
        BY DEF Stops
    <2> QED BY <1>3, <1>4, <2>1, <2>2, ListedIs
<1> QED BY <1>5, <1>6

\* It is therefore the same for a q of which Good holds.
LEMMA GoodInv ==
  ASSUME NEW q, Good(q)
  PROVE  Inv /\ q = [k \in Queue |-> Listed(k)]
<1>1. q = [k \in Queue |-> q[k]]
    BY DEF Good
<1>2. q = [k \in Queue |-> Listed(k)]
    BY <1>1, GoodListed
<1> QED BY <1>2 DEF Inv

-----------------------------------------------------------------------------
(* What a step of one thread leaves alone.                                 *)

\* A thread that is in no call.
LEMMA IdleType == Idle \in CallType /\ Idle.todo = << >>
BY EmptySeq DEF Idle, CallType

\* A call after one assignment.
LEMMA AfterFacts ==
  ASSUME NEW c \in CallType, c.todo # << >>
  PROVE  /\ After(c) \in CallType
         /\ Len(c.todo) = 1 => After(c) = Idle
         /\ Len(c.todo) # 1 => /\ After(c).todo = Tail(c.todo) /\ After(c).Q = c.Q /\ After(c).n = c.n
                               /\ After(c).to = c.to /\ After(c).count = c.count
<1>1. CASE Len(c.todo) = 1
    BY <1>1, IdleType DEF After
<1>2. CASE Len(c.todo) # 1
    <2>1. Tail(c.todo) \in Seq(Steps)
        BY HeadTailProperties DEF CallType
    <2>2. After(c) = [c EXCEPT !.todo = Tail(c.todo)]
        BY <1>2 DEF After
    <2> QED BY <1>2, <2>1, <2>2 DEF CallType
<1> QED BY <1>1, <1>2

\* The call of one thread changes, and no other.
LEMMA CallSet ==
  ASSUME Typed, NEW t \in Thread, NEW c \in CallType, op' = [op EXCEPT ![t] = c]
  PROVE  /\ op' \in [Thread -> CallType] /\ op'[t] = c
         /\ \A u \in Thread \ {t} : op'[u] = op[u]
BY DEF Typed

\* What the threads have in hand then.
LEMMA HandNext ==
  ASSUME NEW t \in Thread, NEW c, op'[t] = c, \A u \in Thread \ {t} : op'[u] = op[u]
  PROVE  /\ CarriesOf(op[t].todo) /\ CarriesOf(c.todo) /\ c.n = op[t].n => Hand' = Hand
         /\ ~CarriesOf(op[t].todo) /\ ~CarriesOf(c.todo) => Hand' = Hand
         /\ ~CarriesOf(op[t].todo) /\ CarriesOf(c.todo) => Hand' = Hand \cup {c.n}
         /\ /\ CarriesOf(op[t].todo) /\ ~CarriesOf(c.todo)
            /\ \A u \in Thread \ {t} : CarriesOf(op[u].todo) => op[u].n # op[t].n
            => Hand' = Hand \ {op[t].n}
<1>1. Hand = {op[u].n : u \in {v \in Thread : CarriesOf(op[v].todo)}}
    BY InCall
<1>2. Hand' = {op'[u].n : u \in {v \in Thread : CarriesOf(op'[v].todo)}}
    <2>1. \A u : Carries(u)' <=> CarriesOf(op'[u].todo)
        BY DEF Carries, CarriesOf, At, AtOf
    <2> QED BY <2>1 DEF Hand
<1>3. CarriesOf(op[t].todo) /\ CarriesOf(c.todo) /\ c.n = op[t].n => Hand' = Hand
    BY <1>1, <1>2
<1>4. ~CarriesOf(op[t].todo) /\ ~CarriesOf(c.todo) => Hand' = Hand
    BY <1>1, <1>2
<1>5. ~CarriesOf(op[t].todo) /\ CarriesOf(c.todo) => Hand' = Hand \cup {c.n}
    BY <1>1, <1>2
<1>6. /\ CarriesOf(op[t].todo) /\ ~CarriesOf(c.todo)
      /\ \A u \in Thread \ {t} : CarriesOf(op[u].todo) => op[u].n # op[t].n
      => Hand' = Hand \ {op[t].n}
    BY <1>1, <1>2
<1> QED BY <1>3, <1>4, <1>5, <1>6

\* A thread that waits is in no call, or has a node in hand.
LEMMA WaitingPhase ==
  ASSUME NEW q, NEW c, Phase(q, c), Waits(c)
  PROVE  c.todo = << >> \/ Holding(c)
BY Beginnings DEF Phase, Waits, Taking, IntoEmpty, IntoFull, Splices, Clearing, Counts

\* Good holds after a step of a thread that is alone in the middle of its assignments, if
\* the pointers represent q2 then and no node is in two places.
LEMMA GoodNext ==
  ASSUME NEW q, Good(q), NEW t \in Thread, Sole(t),
         NEW c \in CallType, op' = [op EXCEPT ![t] = c],
         NEW q2 \in [Queue -> Seq(Node)],
         front' \in [Queue -> Node \cup {Null}], back' \in [Queue -> Node \cup {Null}],
         next' \in [Node -> Node \cup {Null}], fresh' \subseteq Node,
         Phase(q2, c), Apart(q2)', Lists(q2, c)'
  PROVE  Good(q2)'
<1>1. /\ op' \in [Thread -> CallType] /\ op'[t] = c
      /\ \A u \in Thread \ {t} : op'[u] = op[u] /\ Waits(op[u])
    BY CallSet DEF Good, Sole
<1>2. Typed'
    BY <1>1 DEF Typed
<1>3. Single'
    BY <1>1 DEF Single
<1>4. ASSUME NEW u \in Thread PROVE Phase(q2, op'[u])
    <2>1. CASE u = t
        BY <1>1, <2>1
    <2>2. CASE u # t
        <3>1. Phase(q, op[u]) /\ Waits(op[u]) /\ op'[u] = op[u]
            BY <1>1, <2>2 DEF Good
        <3>2. op'[u].todo = << >> \/ Holding(op'[u])
            BY <3>1, WaitingPhase
        <3> QED BY <3>2 DEF Phase
    <2> QED BY <2>1, <2>2
<1>5. ASSUME NEW u \in Thread, Sole(u)' PROVE Lists(q2, op[u])'
    <2> PICK d : d = op'[u]
        OBVIOUS
    <2>1. CASE u = t
        <3>1. d = c
            BY <1>1, <2>1
        <3>2. Lists(q2, d)'
            BY <3>1
        <3> QED BY <3>2 DEF Lists
    <2>2. CASE u # t
        <3>1. Waits(c) /\ Waits(d)
            BY <1>1, <1>5, <2>2 DEF Sole
        <3>2. \A k : ~Linked(c, k) /\ ~Backed(c, k) /\ ~Linked(d, k) /\ ~Backed(d, k)
            BY <3>1 DEF Waits, Linked, Backed
        <3>3. Lists(q2, d)'
            BY <3>2 DEF Lists
        <3> QED BY <3>3 DEF Lists
    <2> QED BY <2>1, <2>2
<1> QED BY <1>1, <1>2, <1>3, <1>4, <1>5 DEF Good

\* No node changes its place.
LEMMA ApartKept ==
  ASSUME NEW q, Apart(q), NEW t \in Thread, NEW c,
         op'[t] = c, \A u \in Thread \ {t} : op'[u] = op[u], fresh' = fresh,
         CarriesOf(c.todo) <=> CarriesOf(op[t].todo), CarriesOf(c.todo) => c.n = op[t].n
  PROVE  Apart(q)' /\ Hand' = Hand
<1>1. Hand' = Hand
    BY HandNext
<1>2. ASSUME NEW u \in Thread, NEW v \in Thread, CarriesOf(op'[u].todo), CarriesOf(op'[v].todo),
             op'[u].n = op'[v].n
      PROVE  u = v
    BY <1>2 DEF Apart
<1> QED BY <1>1, <1>2 DEF Apart

\* The call has not linked its node.
Plain(c) == AtOf(c.todo) \notin {"last", "own", "end", "clear"}

\* Calls that have not linked their nodes find the same lists.
LEMMA PlainKept ==
  ASSUME NEW q, NEW b, Lists(q, b), Plain(b), NEW c, Plain(c),
         front' = front, back' = back, next' = next
  PROVE  Lists(q, c)'
<1>1. \A k : ~Linked(b, k) /\ ~Backed(b, k) /\ ~Linked(c, k) /\ ~Backed(c, k)
    BY DEF Plain, Linked, Backed
<1> QED BY <1>1 DEF Lists, Leads

\* The beginning of a list.
LEMMA FrontOf ==
  ASSUME NEW k, NEW s \in Seq(Node), Leads(k, s, Null)
  PROVE  /\ front[k] = Null <=> s = << >>
         /\ s # << >> => front[k] = s[1] /\ s[1] \in Node
<1>1. CASE s = << >>
    BY <1>1 DEF Leads, Ptr
<1>2. CASE s # << >>
    <2>1. 1 \in 1 .. Len(s) /\ 1 <= Len(s)
        BY <1>2, EmptySeq, SMT
    <2>2. front[k] = s[1] /\ s[1] \in Node
        BY <2>1, ElementOfSeq DEF Leads, Ptr
    <2> QED BY <1>2, <2>2, Names
<1> QED BY <1>1, <1>2

\* What is known of a thread that acts.
LEMMA Acting ==
  ASSUME NEW q, Good(q), NEW t \in Thread, Alone(t), Preemptible \subseteq {"put"}
  PROVE  /\ Typed /\ Apart(q) /\ q \in [Queue -> Seq(Node)] /\ op[t] \in CallType
         /\ Sole(t) /\ Phase(q, op[t]) /\ Lists(q, op[t])
         /\ At(t) = AtOf(op[t].todo)
<1>1. Sole(t)
    BY InCall DEF Alone, Sole, Waits
<1> QED BY <1>1, InCall DEF Good, Typed

-----------------------------------------------------------------------------
(* The steps that move no node.                                            *)

\* A step of a thread that changes no pointer, between points where its node is in no queue.
LEMMA PlainStep ==
  ASSUME NEW q, Good(q), NEW t \in Thread, Alone(t), Preemptible \subseteq {"put"},
         NEW c \in CallType, op' = [op EXCEPT ![t] = c], Plain(op[t]), Plain(c), Phase(q, c),
         front' = front, back' = back, next' = next, fresh' = fresh,
         CarriesOf(c.todo) <=> CarriesOf(op[t].todo), CarriesOf(c.todo) => c.n = op[t].n
  PROVE  Good(q)' /\ Hand' = Hand
<1>1. /\ Typed /\ Apart(q) /\ q \in [Queue -> Seq(Node)]
      /\ Sole(t) /\ Lists(q, op[t])
    BY Acting
<1>2. op'[t] = c /\ \A u \in Thread \ {t} : op'[u] = op[u]
    BY <1>1, CallSet
<1>3. Apart(q)' /\ Hand' = Hand
    BY <1>1, <1>2, ApartKept
<1>4. Lists(q, c)'
    BY <1>1, PlainKept
<1> QED BY <1>1, <1>3, <1>4, GoodNext DEF Typed

\* A thread that is about to call something finds the lists complete.
LEMMA AtIdle ==
  ASSUME NEW q, Good(q), NEW t \in Thread, Alone(t), Preemptible \subseteq {"put"}, At(t) = "idle"
  PROVE  /\ op[t].todo = << >> /\ Plain(op[t]) /\ ~CarriesOf(op[t].todo)
         /\ \A k \in Queue : /\ front[k] = Null <=> q[k] = << >>
                             /\ q[k] # << >> => front[k] = q[k][1] /\ q[k][1] \in Node
         /\ \A k \in Queue : Leads(k, q[k], Null)
<1>1. /\ q \in [Queue -> Seq(Node)] /\ Phase(q, op[t]) /\ Lists(q, op[t]) /\ AtOf(op[t].todo) = "idle"
    BY Acting
<1>2. op[t].todo = << >>
    BY <1>1, Beginnings
       DEF Phase, Taking, Holding, IntoEmpty, IntoFull, Splices, Clearing, Counts
<1>3. Plain(op[t]) /\ ~CarriesOf(op[t].todo)
    BY <1>1, <1>2, Carrying DEF Plain
<1>4. \A k \in Queue : Leads(k, q[k], Null)
    BY <1>1, <1>3 DEF Lists, Plain, Linked
<1> QED BY <1>1, <1>2, <1>3, <1>4, FrontOf

\* get_specific_count begins at the front.
LEMMA CountKeeps ==
  ASSUME NEW q, Good(q), NEW t \in Thread, Preemptible \subseteq {"put"}, NEW k \in Queue, Count(t, k)
  PROVE  Good(q)' /\ Hand' = Hand
<1>1. Alone(t) /\ At(t) = "idle" /\ front' = front /\ back' = back /\ next' = next /\ fresh' = fresh
    BY DEF Count
<1> DEFINE c == [Idle EXCEPT !.todo = <<"walk">>, !.Q = k, !.n = front[k]]
<1>2. op' = [op EXCEPT ![t] = c]
    BY DEF Count
<1>3. c.todo = <<"walk">> /\ c.Q = k /\ c.n = front[k] /\ c.count = 0 /\ c \in CallType
    <2>1. front[k] \in Node \cup {Null}
        BY DEF Good, Typed
    <2>2. <<"walk">> \in Seq(Steps)
        BY DEF Steps
    <2> QED BY <2>1, <2>2, IdleType DEF Idle, CallType
<1> HIDE DEF c
<1>4. Phase(q, c)
    <2>1. q[k] \in Seq(Node) /\ Leads(k, q[k], Null)
        BY <1>1, AtIdle DEF Good
    <2>2. Len(q[k]) \in Nat
        BY <2>1, LenProperties
    <2>3. c.n = Ptr(q[k], 0 + 1, Null) /\ 0 <= Len(q[k])
        BY <1>3, <2>1, <2>2, SMT DEF Leads
    <2> QED BY <1>3, <2>3 DEF Phase, Counts
<1>5. Plain(c) /\ ~CarriesOf(c.todo)
    BY <1>3, Beginnings, Carrying DEF Plain
<1> QED BY <1>1, <1>2, <1>3, <1>4, <1>5, AtIdle, PlainStep

\* dequeuee begins: it finds the first node.
LEMMA MoveKeeps ==
  ASSUME NEW q, Good(q), NEW t \in Thread, Preemptible \subseteq {"put"},
         NEW k \in Queue, NEW to \in Queue \cup {Null}, Move(t, k, to)
  PROVE  Good(q)' /\ Hand' = Hand
<1>1. /\ Alone(t) /\ At(t) = "idle" /\ front[k] # Null
      /\ front' = front /\ back' = back /\ next' = next /\ fresh' = fresh
    BY DEF Move
<1> DEFINE d == IF to = Null THEN <<"unhook">> ELSE <<"unhook", "put">>
           c == [Idle EXCEPT !.todo = d, !.Q = k, !.n = front[k], !.to = to]
<1>2. op' = [op EXCEPT ![t] = c]
    BY DEF Move
<1>3. d \in Seq(Steps) /\ d \in {<<"unhook">>, <<"unhook", "put">>} /\ (d = <<"unhook", "put">> => to \in Queue)
    <2>1. <<"unhook">> \in Seq(Steps) /\ <<"unhook", "put">> \in Seq(Steps) /\ <<"unhook">> # <<"unhook", "put">>
        BY Tails DEF Steps
    <2> QED BY <2>1
<1> HIDE DEF d
<1>4. c.todo = d /\ c.Q = k /\ c.n = front[k] /\ c.to = to /\ c \in CallType
    <2>1. front[k] \in Node \cup {Null}
        BY DEF Good, Typed
    <2> QED BY <1>3, <2>1, IdleType DEF Idle, CallType
<1> HIDE DEF c
<1>5. Phase(q, c)
    <2>1. q[k] # << >> /\ front[k] = q[k][1]
        BY <1>1, AtIdle
    <2> QED BY <1>3, <1>4, <2>1 DEF Phase, Taking
<1>6. Plain(c) /\ ~CarriesOf(c.todo)
    BY <1>3, <1>4, Beginnings, Carrying DEF Plain
<1> QED BY <1>1, <1>2, <1>4, <1>5, <1>6, AtIdle, PlainStep

\* The splice begins with the first node of the lowest level.
LEMMA SpliceKeeps ==
  ASSUME NEW q, Good(q), NEW t \in Thread, Preemptible \subseteq {"put"}, Splice(t)
  PROVE  Good(q)' /\ Hand' = Hand
<1>1. /\ Alone(t) /\ At(t) = "idle" /\ front[lowest] # Null
      /\ front' = front /\ back' = back /\ next' = next /\ fresh' = fresh
    BY DEF Splice
<1> DEFINE d == <<SpliceBegins, "last", "clear", "clearBack">>
           c == [Idle EXCEPT !.todo = d, !.Q = highest, !.n = front[lowest]]
<1>2. op' = [op EXCEPT ![t] = c]
    BY DEF Splice
<1>3. /\ d \in Seq(Steps)
      /\ \/ d = <<"first", "last", "clear", "clearBack">> /\ front[highest] = Null
         \/ d = <<"link", "last", "clear", "clearBack">> /\ front[highest] # Null
    <2>1. CASE front[highest] = Null
        <3>1. d = <<"first", "last", "clear", "clearBack">>
            BY <2>1 DEF SpliceBegins
        <3> QED BY <2>1, <3>1 DEF Steps
    <2>2. CASE front[highest] # Null
        <3>1. d = <<"link", "last", "clear", "clearBack">>
            BY <2>2 DEF SpliceBegins
        <3> QED BY <2>2, <3>1 DEF Steps
    <2> QED BY <2>1, <2>2
<1>4. <<"first", "last", "clear", "clearBack">> # <<"link", "last", "clear", "clearBack">>
    BY Beginnings
<1> HIDE DEF d
<1>5. c.todo = d /\ c.Q = highest /\ c.n = front[lowest] /\ c \in CallType
    <2>1. front[lowest] \in Node \cup {Null}
        BY Names DEF Good, Typed
    <2> QED BY <1>3, <2>1, Names, IdleType DEF Idle, CallType
<1> HIDE DEF c
<1>6. Phase(q, c)
    <2>1. q[lowest] # << >> /\ front[lowest] = q[lowest][1] /\ (front[highest] = Null <=> q[highest] = << >>)
        BY <1>1, Names, AtIdle
    <2>2. Splices(q, c)
        BY <1>3, <1>4, <1>5, <2>1 DEF Splices
    <2> QED BY <2>2 DEF Phase
<1>7. Plain(c) /\ ~CarriesOf(c.todo)
    BY <1>3, <1>5, Beginnings, Carrying DEF Plain
<1> QED BY <1>1, <1>2, <1>5, <1>6, <1>7, AtIdle, PlainStep

\* The test of enqueuee finds whether the queue is empty.
LEMMA EnqueueeFinds ==
  ASSUME NEW q, Good(q), NEW k \in Queue, Leads(k, q[k], Null)
  PROVE  /\ enqueuee(k) \in Seq(Steps)
         /\ q[k] = << >> => enqueuee(k) = <<"first", "last", "own">>
         /\ q[k] # << >> => enqueuee(k) = <<"link", "last", "end">>
<1>1. front[k] = Null <=> q[k] = << >>
    BY FrontOf DEF Good
<1>2. <<"first", "last", "own">> \in Seq(Steps) /\ <<"link", "last", "end">> \in Seq(Steps)
    BY DEF Steps
<1> QED BY <1>1, <1>2 DEF enqueuee

\* The node that dequeuee returned is about to be entered.
LEMMA PutKeeps ==
  ASSUME NEW q, Good(q), NEW t \in Thread, Preemptible \subseteq {"put"}, Put(t)
  PROVE  Good(q)' /\ Hand' = Hand
<1>1. /\ Alone(t) /\ At(t) = "put"
      /\ front' = front /\ back' = back /\ next' = next /\ fresh' = fresh
    BY DEF Put
<1>2. /\ q \in [Queue -> Seq(Node)] /\ op[t] \in CallType
      /\ Phase(q, op[t]) /\ Lists(q, op[t]) /\ AtOf(op[t].todo) = "put"
    BY <1>1, Acting
<1>3. Holding(op[t])
    BY <1>2, Beginnings
       DEF Phase, Taking, Holding, IntoEmpty, IntoFull, Splices, Clearing, Counts
<1> PICK k \in Queue : k = op[t].to
    BY <1>3 DEF Holding
<1> DEFINE c == [op[t] EXCEPT !.todo = enqueuee(k), !.Q = k, !.to = Null]
<1>4. op' = [op EXCEPT ![t] = c]
    BY <1>2 DEF Put
<1>5. Plain(op[t]) /\ CarriesOf(op[t].todo)
    BY <1>2, <1>3, Carrying DEF Plain, Holding
<1>6. Leads(k, q[k], Null)
    BY <1>2, <1>5 DEF Lists, Plain, Linked
<1>7. c.todo = enqueuee(k) /\ c.Q = k /\ c.n = op[t].n /\ c \in CallType
    BY <1>2, <1>6, EnqueueeFinds DEF CallType
<1> HIDE DEF c
<1>8. IntoEmpty(q, c) \/ IntoFull(q, c)
    BY <1>3, <1>6, <1>7, EnqueueeFinds DEF IntoEmpty, IntoFull, Holding
<1>9. Phase(q, c)
    BY <1>8 DEF Phase
<1>10. Plain(c) /\ CarriesOf(c.todo)
    BY <1>6, <1>7, EnqueueeFinds, Beginnings, Carrying DEF Plain
<1> QED BY <1>1, <1>4, <1>5, <1>7, <1>9, <1>10, PlainStep

\* my_pthread_create takes a node that was never used.
LEMMA CreateKeeps ==
  ASSUME NEW q, Good(q), NEW t \in Thread, Preemptible \subseteq {"put"}, NEW k \in Queue, Create(t, k)
  PROVE  \E n \in fresh : Good(q)' /\ Hand' = Hand \cup {n} /\ n \notin Hand
<1>1. /\ Alone(t) /\ At(t) = "idle" /\ fresh # {}
      /\ front' = front /\ back' = back /\ next' = next
    BY DEF Create
<1> PICK n : n = NewNode
    OBVIOUS
<1>2. n \in fresh /\ fresh' = fresh \ {n} /\ n \in Node
    BY <1>1 DEF Create, NewNode, Good, Typed
<1>4. /\ Typed /\ Apart(q) /\ q \in [Queue -> Seq(Node)] /\ Sole(t) /\ Lists(q, op[t])
      /\ Plain(op[t]) /\ ~CarriesOf(op[t].todo) /\ Leads(k, q[k], Null)
    BY <1>1, Acting, AtIdle
<1>5. /\ enqueuee(k) \in Seq(Steps)
      /\ q[k] = << >> => enqueuee(k) = <<"first", "last", "own">>
      /\ q[k] # << >> => enqueuee(k) = <<"link", "last", "end">>
    BY <1>4, EnqueueeFinds
<1>6. PICK c \in CallType : op' = [op EXCEPT ![t] = c] /\ c.todo = enqueuee(k) /\ c.Q = k /\ c.n = n
    <2> DEFINE b == [Idle EXCEPT !.todo = enqueuee(k), !.Q = k, !.n = n]
    <2>1. op' = [op EXCEPT ![t] = b]
        BY DEF Create
    <2>2. b.todo = enqueuee(k) /\ b.Q = k /\ b.n = n /\ b \in CallType
        BY <1>2, <1>5, IdleType DEF Idle, CallType
    <2> HIDE DEF b
    <2> QED BY <2>1, <2>2
<1>7. IntoEmpty(q, c) \/ IntoFull(q, c)
    BY <1>2, <1>5, <1>6 DEF IntoEmpty, IntoFull
<1>8. Plain(c) /\ CarriesOf(c.todo)
    BY <1>5, <1>6, Beginnings, Carrying DEF Plain
<1>9. op'[t] = c /\ \A u \in Thread \ {t} : op'[u] = op[u]
    BY <1>4, <1>6, CallSet
<1>10. Hand' = Hand \cup {n}
    BY <1>4, <1>6, <1>8, <1>9, HandNext
<1>11. n \notin Hand
    BY <1>2, <1>4 DEF Apart
<1>12. Apart(q)'
    <2>1. ASSUME NEW u \in Thread, NEW v \in Thread, CarriesOf(op'[u].todo), CarriesOf(op'[v].todo),
                 op'[u].n = op'[v].n
          PROVE  u = v
        <3>1. \A w \in Thread \ {t} : CarriesOf(op[w].todo) => op[w].n # n
            BY <1>11, InCall
        <3> QED BY <1>4, <1>6, <1>9, <2>1, <3>1 DEF Apart
    <2> QED BY <1>2, <1>4, <1>10, <1>11, <2>1 DEF Apart
<1>13. Lists(q, c)'
    BY <1>1, <1>4, <1>8, PlainKept
<1>14. Good(q)'
    <2>1. Phase(q, c) /\ fresh' \subseteq Node
        BY <1>2, <1>4, <1>7 DEF Phase, Typed
    <2> QED BY <1>1, <1>4, <1>6, <1>12, <1>13, <2>1, GoodNext DEF Typed
<1> QED BY <1>2, <1>10, <1>11, <1>14

-----------------------------------------------------------------------------
(* The steps that change a pointer, and leave the queues as they are.      *)

\* One assignment of a call that has others left.
LEMMA OneOf ==
  ASSUME NEW q, Good(q), NEW t \in Thread, Done(t), op[t].todo # << >>
  PROVE  /\ op' = [op EXCEPT ![t] = After(op[t])] /\ After(op[t]) \in CallType
         /\ op'[t] = After(op[t]) /\ \A u \in Thread \ {t} : op'[u] = op[u]
         /\ Len(op[t].todo) = 1 => After(op[t]) = Idle
         /\ Len(op[t].todo) # 1 => /\ After(op[t]).todo = Tail(op[t].todo) /\ After(op[t]).Q = op[t].Q
                                   /\ After(op[t]).n = op[t].n /\ After(op[t]).to = op[t].to
<1>1. Typed /\ op[t] \in CallType
    BY DEF Good, Typed
<1>2. op' = [op EXCEPT ![t] = After(op[t])]
    BY InCall
<1>3. /\ After(op[t]) \in CallType
      /\ Len(op[t].todo) = 1 => After(op[t]) = Idle
      /\ Len(op[t].todo) # 1 => /\ After(op[t]).todo = Tail(op[t].todo) /\ After(op[t]).Q = op[t].Q
                                /\ After(op[t]).n = op[t].n /\ After(op[t]).to = op[t].to
    BY <1>1, AfterFacts
<1> QED BY <1>1, <1>2, <1>3, CallSet

\* Q->front = n, of a queue that is empty.
LEMMA FirstKeeps ==
  ASSUME NEW q, Good(q), NEW t \in Thread, Preemptible \subseteq {"put"}, First(t)
  PROVE  Good(q)' /\ Hand' = Hand
<1> PICK b : b = op[t]
    OBVIOUS
<1> PICK c : c = After(op[t])
    OBVIOUS
<1>1. /\ Alone(t) /\ At(t) = "first" /\ Done(t) /\ front' = [front EXCEPT ![b.Q] = b.n]
      /\ back' = back /\ next' = next /\ fresh' = fresh
    BY DEF First
<1>2. /\ Typed /\ Apart(q) /\ q \in [Queue -> Seq(Node)] /\ b \in CallType /\ Sole(t)
      /\ Phase(q, b) /\ Lists(q, b) /\ AtOf(b.todo) = "first"
    BY <1>1, Acting
<1>3. \/ IntoEmpty(q, b) /\ b.todo = <<"first", "last", "own">>
      \/ Splices(q, b) /\ b.todo = <<"first", "last", "clear", "clearBack">> /\ q[highest] = << >>
    BY <1>2, Beginnings
       DEF Phase, Taking, Holding, IntoEmpty, IntoFull, Splices, Clearing, Counts
<1>4. b.Q \in Queue /\ b.n \in Node \cup {Null} /\ q[b.Q] = << >>
    BY <1>2, <1>3, Names DEF IntoEmpty, Splices, CallType
<1>5. /\ op' = [op EXCEPT ![t] = c] /\ c \in CallType
      /\ op'[t] = c /\ \A u \in Thread \ {t} : op'[u] = op[u]
      /\ c.todo = Tail(b.todo) /\ c.Q = b.Q /\ c.n = b.n
    BY <1>1, <1>2, <1>3, Beginnings, Tails, OneOf
<1>6. /\ AtOf(c.todo) = "last" /\ (CarriesOf(c.todo) <=> CarriesOf(b.todo))
      /\ c.todo \in {<<"last", "own">>, <<"last", "clear", "clearBack">>}
    BY <1>3, <1>5, Tails, Beginnings, Carrying
<1>7. Phase(q, c)
    BY <1>3, <1>5, <1>6, Tails, Beginnings DEF Phase, IntoEmpty, Splices
<1>8. Apart(q)' /\ Hand' = Hand
    BY <1>1, <1>2, <1>5, <1>6, ApartKept
<1>9. Lists(q, c)'
    <2>1. \A k \in Queue : /\ ~Linked(b, k) /\ ~Backed(b, k) /\ ~Backed(c, k)
                           /\ Linked(c, k) <=> k = b.Q
        BY <1>2, <1>5, <1>6 DEF Linked, Backed
    <2>2. ASSUME NEW k \in Queue, k = b.Q PROVE Leads(k, q[k], c.n)'
        <3>1. q[k] = << >> /\ front'[k] = c.n
            BY <1>1, <1>2, <1>4, <1>5, <2>2 DEF Typed
        <3> QED BY <3>1 DEF Leads, Ptr
    <2>3. ASSUME NEW k \in Queue, k # b.Q PROVE Leads(k, q[k], Null)'
        <3>1. Leads(k, q[k], Null) /\ front'[k] = front[k]
            BY <1>1, <1>2, <2>1, <2>3 DEF Lists, Typed
        <3> QED BY <1>1, <3>1 DEF Leads
    <2>4. \A k \in Queue : q[k] # << >> => back[k] = q[k][Len(q[k])]
        BY <1>2, <2>1 DEF Lists
    <2>5. \A k \in Queue : /\ ~Backed(c, k)
                           /\ Linked(c, k) <=> k = b.Q
        BY <2>1
    <2> QED BY <1>1, <2>2, <2>3, <2>4, <2>5 DEF Lists
<1> QED
    <2>1. front' \in [Queue -> Node \cup {Null}]
        BY <1>1, <1>2, <1>4 DEF Typed
    <2> QED BY <1>1, <1>2, <1>5, <1>7, <1>8, <1>9, <2>1, GoodNext DEF Typed

\* Q->back->next = n, of a queue that is not empty.
LEMMA LinkKeeps ==
  ASSUME NEW q, Good(q), NEW t \in Thread, Preemptible \subseteq {"put"}, Link(t)
  PROVE  Good(q)' /\ Hand' = Hand
<1> PICK b : b = op[t]
    OBVIOUS
<1> PICK c : c = After(op[t])
    OBVIOUS
<1>1. /\ Alone(t) /\ At(t) = "link" /\ Done(t) /\ next' = [next EXCEPT ![back[b.Q]] = b.n]
      /\ front' = front /\ back' = back /\ fresh' = fresh
    BY DEF Link
<1>2. /\ Typed /\ Apart(q) /\ q \in [Queue -> Seq(Node)] /\ b \in CallType /\ Sole(t)
      /\ Phase(q, b) /\ Lists(q, b) /\ AtOf(b.todo) = "link"
    BY <1>1, Acting
<1>3. \/ IntoFull(q, b) /\ b.todo = <<"link", "last", "end">>
      \/ Splices(q, b) /\ b.todo = <<"link", "last", "clear", "clearBack">> /\ q[highest] # << >>
    BY <1>2, Beginnings
       DEF Phase, Taking, Holding, IntoEmpty, IntoFull, Splices, Clearing, Counts
<1>4. b.Q \in Queue /\ b.n \in Node \cup {Null} /\ q[b.Q] # << >>
    BY <1>2, <1>3, Names DEF IntoFull, Splices, CallType
<1>5. /\ op' = [op EXCEPT ![t] = c] /\ c \in CallType
      /\ op'[t] = c /\ \A u \in Thread \ {t} : op'[u] = op[u]
      /\ c.todo = Tail(b.todo) /\ c.Q = b.Q /\ c.n = b.n
    BY <1>1, <1>2, <1>3, Beginnings, Tails, OneOf
<1>6. /\ AtOf(c.todo) = "last" /\ (CarriesOf(c.todo) <=> CarriesOf(b.todo))
      /\ c.todo \in {<<"last", "end">>, <<"last", "clear", "clearBack">>}
    BY <1>3, <1>5, Tails, Beginnings, Carrying
<1>7. Phase(q, c)
    BY <1>3, <1>5, <1>6, Tails, Beginnings DEF Phase, IntoFull, Splices
<1>8. Apart(q)' /\ Hand' = Hand
    BY <1>1, <1>2, <1>5, <1>6, ApartKept
<1>9. /\ \A k \in Queue : ~Linked(b, k) /\ ~Backed(b, k) /\ ~Backed(c, k)
      /\ \A k \in Queue : Linked(c, k) <=> k = b.Q
    BY <1>2, <1>5, <1>6 DEF Linked, Backed
<1>10. \A k \in Queue : Leads(k, q[k], Null) /\ (q[k] # << >> => back[k] = q[k][Len(q[k])])
    BY <1>2, <1>9 DEF Lists
<1>11. \A k \in Queue : \A j \in 1 .. Len(q[k]) : q[k][j] \in Node
    BY <1>2, ElementOfSeq
<1> PICK l \in Nat : l = Len(q[b.Q])
    BY <1>2, <1>4, LenProperties
<1>12. l \in 1 .. Len(q[b.Q]) /\ back[b.Q] = q[b.Q][l] /\ q[b.Q][l] \in Node
    <2>1. l \in 1 .. Len(q[b.Q])
        BY <1>2, <1>4, EmptySeq, SMT
    <2> QED BY <1>4, <1>10, <1>11, <2>1
<1>13. /\ next'[q[b.Q][l]] = c.n
       /\ \A n \in Node : n # q[b.Q][l] => next'[n] = next[n]
    BY <1>1, <1>2, <1>5, <1>12 DEF Typed
<1>14. Lists(q, c)'
    <2>1. ASSUME NEW k \in Queue, k = b.Q PROVE Leads(k, q[k], c.n)'
        <3>1. front'[k] = Ptr(q[k], 1, c.n)
            <4>1. front[k] = Ptr(q[k], 1, Null) /\ 1 <= Len(q[k])
                BY <1>10, <1>12, <2>1 DEF Leads
            <4> QED BY <1>1, <4>1 DEF Ptr
        <3>2. ASSUME NEW j \in 1 .. Len(q[k]) PROVE next'[q[k][j]] = Ptr(q[k], j + 1, c.n)
            <4>1. CASE j = l
                <5>1. ~(j + 1 <= Len(q[k]))
                    BY <2>1, <4>1, SMT
                <5> QED BY <1>13, <2>1, <4>1, <5>1 DEF Ptr
            <4>2. CASE j # l
                <5>1. q[k][j] # q[b.Q][l] /\ q[k][j] \in Node
                    BY <1>2, <1>4, <1>11, <1>12, <2>1, <3>2, <4>2 DEF Apart
                <5>2. next'[q[k][j]] = Ptr(q[k], j + 1, Null)
                    BY <1>10, <1>13, <3>2, <5>1 DEF Leads
                <5>3. j + 1 <= Len(q[k])
                    BY <2>1, <3>2, <4>2, SMT
                <5> QED BY <5>2, <5>3 DEF Ptr
            <4> QED BY <4>1, <4>2
        <3> QED BY <3>1, <3>2 DEF Leads
    <2>2. ASSUME NEW k \in Queue, k # b.Q PROVE Leads(k, q[k], Null)'
        <3>1. ASSUME NEW j \in 1 .. Len(q[k]) PROVE next'[q[k][j]] = next[q[k][j]]
            <4>1. q[k][j] # q[b.Q][l]
                BY <1>2, <1>4, <1>12, <2>2, <3>1 DEF Apart
            <4> QED BY <1>11, <1>13, <3>1, <4>1
        <3> QED BY <1>1, <1>10, <3>1 DEF Leads
    <2>3. \A k \in Queue : ~Backed(c, k) /\ (Linked(c, k) <=> k = b.Q)
        BY <1>9
    <2> QED BY <1>1, <1>10, <2>1, <2>2, <2>3 DEF Lists
<1> QED
    <2>1. next' \in [Node -> Node \cup {Null}]
        BY <1>1, <1>2, <1>4 DEF Typed
    <2> QED BY <1>1, <1>2, <1>5, <1>7, <1>8, <1>14, <2>1, GoodNext DEF Typed

\* Q->back = n, or of the splice the last node of the lowest level.
LEMMA LastKeeps ==
  ASSUME NEW q, Good(q), NEW t \in Thread, Preemptible \subseteq {"put"}, Last(t)
  PROVE  Good(q)' /\ Hand' = Hand
<1> PICK b : b = op[t]
    OBVIOUS
<1> PICK c : c = After(op[t])
    OBVIOUS
<1> PICK e : e = IF SplicingOf(b.todo) THEN back[lowest] ELSE b.n
    OBVIOUS
<1>1. /\ Alone(t) /\ At(t) = "last" /\ Done(t) /\ back' = [back EXCEPT ![b.Q] = e]
      /\ front' = front /\ next' = next /\ fresh' = fresh
    BY InCall DEF Last
<1>2. /\ Typed /\ Apart(q) /\ q \in [Queue -> Seq(Node)] /\ b \in CallType /\ Sole(t)
      /\ Phase(q, b) /\ Lists(q, b) /\ AtOf(b.todo) = "last"
    BY <1>1, Acting
<1>3. \/ IntoEmpty(q, b) /\ b.todo = <<"last", "own">>
      \/ IntoFull(q, b) /\ b.todo = <<"last", "end">>
      \/ Splices(q, b) /\ b.todo = <<"last", "clear", "clearBack">>
    BY <1>2, Beginnings
       DEF Phase, Taking, Holding, IntoEmpty, IntoFull, Splices, Clearing, Counts
<1>4. b.Q \in Queue /\ b.n \in Node \cup {Null} /\ e \in Node \cup {Null}
    BY <1>2, <1>3, Names DEF IntoEmpty, IntoFull, Splices, CallType, Typed
<1>5. /\ op' = [op EXCEPT ![t] = c] /\ c \in CallType
      /\ op'[t] = c /\ \A u \in Thread \ {t} : op'[u] = op[u]
      /\ c.todo = Tail(b.todo) /\ c.Q = b.Q /\ c.n = b.n
    BY <1>1, <1>2, <1>3, Beginnings, Tails, OneOf
<1>6. /\ AtOf(c.todo) \in {"own", "end", "clear"} /\ (CarriesOf(c.todo) <=> CarriesOf(b.todo))
      /\ c.todo \in {<<"own">>, <<"end">>, <<"clear", "clearBack">>}
      /\ SplicingOf(c.todo) <=> SplicingOf(b.todo)
      /\ SplicingOf(b.todo) => b.Q = highest
    BY <1>3, <1>5, Tails, Beginnings, Carrying, InSplice DEF Splices
<1>7. Phase(q, c)
    BY <1>3, <1>5, <1>6, Tails, Beginnings DEF Phase, IntoEmpty, IntoFull, Splices
<1>8. Apart(q)' /\ Hand' = Hand
    BY <1>1, <1>2, <1>5, <1>6, ApartKept
<1>9. Lists(q, c)'
    <2>1. \A k \in Queue : /\ Linked(c, k) <=> Linked(b, k)
                           /\ ~Backed(b, k)
                           /\ Backed(c, k) <=> k = b.Q
        BY <1>2, <1>5, <1>6 DEF Linked, Backed
    <2>2. \A k \in Queue : /\ Linked(c, k) => Leads(k, q[k], c.n)
                           /\ ~Linked(c, k) => Leads(k, q[k], Null)
        BY <1>2, <1>5, <2>1 DEF Lists
    <2>3. ASSUME NEW k \in Queue, k = b.Q
          PROVE  back'[k] = IF SplicingOf(c.todo) THEN back'[lowest] ELSE c.n
        <3>1. back'[k] = e
            BY <1>1, <1>2, <2>3 DEF Typed
        <3>2. CASE SplicingOf(c.todo)
            <4>1. b.Q # lowest /\ lowest \in Queue
                BY <1>6, <3>2, Names
            <4>2. back'[lowest] = back[lowest] /\ e = back[lowest]
                BY <1>1, <1>2, <1>6, <3>2, <4>1 DEF Typed
            <4> QED BY <3>1, <3>2, <4>2
        <3>3. CASE ~SplicingOf(c.todo)
            BY <1>5, <1>6, <3>1, <3>3
        <3> QED BY <3>2, <3>3
    <2>4. ASSUME NEW k \in Queue, k # b.Q, q[k] # << >> PROVE back'[k] = q[k][Len(q[k])]
        BY <1>1, <1>2, <2>1, <2>4 DEF Lists, Typed
    <2>5. \A k \in Queue : Backed(c, k) <=> k = b.Q
        BY <2>1
    <2> QED BY <1>1, <2>2, <2>3, <2>4, <2>5 DEF Lists, Leads
<1> QED
    <2>1. back' \in [Queue -> Node \cup {Null}]
        BY <1>1, <1>2, <1>4 DEF Typed
    <2> QED BY <1>1, <1>2, <1>5, <1>7, <1>8, <1>9, <2>1, GoodNext DEF Typed

-----------------------------------------------------------------------------
(* The steps that take effect on the queues.                               *)

\* Q->front = Q->front->next.
LEMMA UnhookKeeps ==
  ASSUME NEW q, Good(q), NEW t \in Thread, Preemptible \subseteq {"put"}, Unhook(t)
  PROVE  \E k \in Queue : /\ q[k] # << >> /\ Good([q EXCEPT ![k] = Tail(@)])'
                          /\ Hand' \in {Hand, Hand \cup {Head(q[k])}}
<1> PICK b : b = op[t]
    OBVIOUS
<1> PICK c : c = After(op[t])
    OBVIOUS
<1>1. /\ Alone(t) /\ At(t) = "unhook" /\ Done(t) /\ front' = [front EXCEPT ![b.Q] = next[b.n]]
      /\ back' = back /\ next' = next /\ fresh' = fresh
    BY DEF Unhook
<1>2. /\ Typed /\ Apart(q) /\ q \in [Queue -> Seq(Node)] /\ b \in CallType /\ Sole(t)
      /\ Phase(q, b) /\ Lists(q, b) /\ AtOf(b.todo) = "unhook"
    BY <1>1, Acting
<1>3. Taking(q, b)
    BY <1>2, Beginnings
       DEF Phase, Taking, Holding, IntoEmpty, IntoFull, Splices, Clearing, Counts
<1> PICK K : K = b.Q
    OBVIOUS
<1> PICK s : s = q[K]
    OBVIOUS
<1> PICK q2 : q2 = [q EXCEPT ![K] = Tail(s)]
    OBVIOUS
<1>4. /\ K \in Queue /\ s \in Seq(Node) /\ s # << >> /\ b.n = s[1] /\ Head(s) = s[1]
      /\ Tail(s) \in Seq(Node) /\ Len(Tail(s)) = Len(s) - 1 /\ Len(s) \in Nat /\ 1 <= Len(s)
      /\ \A j \in 1 .. Len(s) - 1 : Tail(s)[j] = s[j + 1]
      /\ \A j \in 1 .. Len(s) : s[j] \in Node
    <2>1. K \in Queue /\ s \in Seq(Node) /\ s # << >> /\ b.n = s[1]
        BY <1>2, <1>3 DEF Taking
    <2>2. /\ Tail(s) \in Seq(Node) /\ Len(Tail(s)) = Len(s) - 1 /\ Len(s) \in Nat
          /\ \A j \in 1 .. Len(s) - 1 : Tail(s)[j] = s[j + 1]
        BY <2>1, HeadTailProperties, LenProperties
    <2>3. 1 <= Len(s)
        BY <2>1, <2>2, EmptySeq, SMT
    <2>4. Head(s) = s[1]
        BY <2>1, SMT
    <2> QED BY <2>1, <2>2, <2>3, <2>4, ElementOfSeq
<1>5. /\ q2 \in [Queue -> Seq(Node)] /\ q2[K] = Tail(s)
      /\ \A k \in Queue : k # K => q2[k] = q[k]
    BY <1>2, <1>4
<1>6. /\ op' = [op EXCEPT ![t] = c] /\ c \in CallType
      /\ op'[t] = c /\ \A u \in Thread \ {t} : op'[u] = op[u]
      /\ c = Idle \/ (c.todo = <<"put">> /\ c.n = b.n /\ c.to = b.to /\ b.to \in Queue)
    <2>1. CASE b.todo = <<"unhook">>
        <3>1. c = Idle
            BY <1>1, <1>2, <1>3, <2>1, Beginnings, Tails, OneOf
        <3> QED BY <1>1, <1>2, <1>3, <2>1, <3>1, Beginnings, OneOf
    <2>2. CASE b.todo = <<"unhook", "put">>
        <3>1. c.todo = <<"put">> /\ c.n = b.n /\ c.to = b.to
            <4>1. b.todo # << >> /\ Len(b.todo) # 1 /\ Tail(b.todo) = <<"put">>
                BY <2>2, Tails, Beginnings
            <4> QED BY <1>1, <4>1, OneOf
        <3>2. b.to \in Queue
            BY <1>3, <2>2 DEF Taking
        <3> QED BY <1>1, <1>2, <1>3, <2>2, <3>1, <3>2, Beginnings, OneOf
    <2> QED BY <1>3, <2>1, <2>2 DEF Taking
<1>7. Plain(c) /\ Plain(b) /\ ~CarriesOf(b.todo)
    BY <1>3, <1>6, Beginnings, Carrying, IdleType DEF Plain, Taking
<1>8. Phase(q2, c)
    BY <1>4, <1>6, IdleType DEF Phase, Holding
<1>9. \/ Hand' = Hand /\ ~CarriesOf(c.todo)
      \/ Hand' = Hand \cup {s[1]} /\ c.n = s[1]
    BY <1>4, <1>6, <1>7, Carrying, IdleType, HandNext
<1>10. 1 \in 1 .. Len(q[K])
    BY <1>4
<1>11. ASSUME NEW k \in Queue, NEW i \in 1 .. Len(q2[k])
       PROVE  \E l \in 1 .. Len(q[k]) : /\ q2[k][i] = q[k][l] /\ (k = K => l # 1)
                                        /\ l = i + IF k = K THEN 1 ELSE 0
    <2>1. CASE k = K
        <3>1. i \in 1 .. Len(s) - 1 /\ i + 1 \in 1 .. Len(s) /\ i + 1 # 1
            BY <1>4, <1>5, <1>11, <2>1, SMT
        <3>2. q2[k][i] = q[k][i + 1]
            BY <1>4, <1>5, <2>1, <3>1
        <3> QED BY <2>1, <3>1, <3>2
    <2>2. CASE k # K
        <3>1. i = i + 0
            BY <1>11, <2>2, <1>5, <1>2, LenProperties, SMT
        <3> QED BY <1>5, <1>11, <2>2, <3>1
    <2> QED BY <2>1, <2>2
<1>12. Apart(q2)'
    <2>1. ASSUME NEW k \in Queue, NEW m \in Queue, NEW i \in 1 .. Len(q2[k]), NEW j \in 1 .. Len(q2[m]),
                 q2[k][i] = q2[m][j]
          PROVE  k = m /\ i = j
        <3>1. PICK l \in 1 .. Len(q[k]) : q2[k][i] = q[k][l] /\ l = i + IF k = K THEN 1 ELSE 0
            BY <1>11
        <3>2. PICK p \in 1 .. Len(q[m]) : q2[m][j] = q[m][p] /\ p = j + IF m = K THEN 1 ELSE 0
            BY <1>11
        <3>3. k = m /\ l = p
            BY <1>2, <2>1, <3>1, <3>2 DEF Apart
        <3>4. Len(q2[k]) \in Nat /\ Len(q2[m]) \in Nat
            BY <1>5, LenProperties
        <3> QED BY <3>1, <3>2, <3>3, <3>4
    <2>2. ASSUME NEW k \in Queue, NEW i \in 1 .. Len(q2[k]) PROVE q2[k][i] \notin Hand' \cup fresh'
        <3>1. PICK l \in 1 .. Len(q[k]) : q2[k][i] = q[k][l] /\ (k = K => l # 1)
            BY <1>11
        <3>2. q[k][l] \notin Hand \cup fresh
            BY <1>2 DEF Apart
        <3>3. q[k][l] # s[1]
            BY <1>2, <1>4, <1>10, <3>1 DEF Apart
        <3> QED BY <1>1, <1>9, <3>1, <3>2, <3>3
    <2>3. s[1] \notin Hand \cup fresh
        BY <1>2, <1>4, <1>10 DEF Apart
    <2>4. Hand' \cap fresh' = {}
        BY <1>1, <1>2, <1>9, <2>3 DEF Apart
    <2>5. ASSUME NEW u \in Thread, NEW v \in Thread, CarriesOf(op'[u].todo), CarriesOf(op'[v].todo),
                 op'[u].n = op'[v].n
          PROVE  u = v
        <3>1. \A w \in Thread \ {t} : CarriesOf(op[w].todo) => op[w].n # s[1]
            BY <2>3, InCall
        <3>2. CarriesOf(c.todo) => c.n = s[1]
            BY <1>9
        <3> QED BY <1>2, <1>6, <2>5, <3>1, <3>2 DEF Apart
    <2> QED BY <2>1, <2>2, <2>4, <2>5 DEF Apart
<1>13. \A k \in Queue : Leads(k, q[k], Null) /\ (q[k] # << >> => back[k] = q[k][Len(q[k])])
    BY <1>2, <1>7 DEF Lists, Plain, Linked, Backed
<1>14. Lists(q2, c)'
    <2>1. ASSUME NEW k \in Queue, k = K PROVE Leads(k, q2[k], Null)'
        <3>1. front'[k] = next[s[1]] /\ next[s[1]] = Ptr(s, 1 + 1, Null)
            BY <1>1, <1>2, <1>4, <1>10, <1>13, <2>1 DEF Leads, Typed
        <3>2. ASSUME NEW j \in Nat, 1 <= j PROVE Ptr(Tail(s), j, Null) = Ptr(s, j + 1, Null)
            <4>1. CASE j <= Len(s) - 1
                <5>1. j \in 1 .. Len(s) - 1 /\ j <= Len(Tail(s)) /\ j + 1 <= Len(s)
                    BY <1>4, <3>2, <4>1, SMT
                <5> QED BY <1>4, <5>1 DEF Ptr
            <4>2. CASE ~(j <= Len(s) - 1)
                <5>1. ~(j <= Len(Tail(s))) /\ ~(j + 1 <= Len(s))
                    BY <1>4, <3>2, <4>2, SMT
                <5> QED BY <5>1 DEF Ptr
            <4> QED BY <4>1, <4>2
        <3>3. front'[k] = Ptr(Tail(s), 1, Null)
            BY <3>1, <3>2
        <3>4. ASSUME NEW j \in 1 .. Len(Tail(s)) PROVE next'[Tail(s)[j]] = Ptr(Tail(s), j + 1, Null)
            <4>1. j \in 1 .. Len(s) - 1 /\ j + 1 \in 1 .. Len(s) /\ j + 1 \in Nat /\ 1 <= j + 1
                BY <1>4, <3>4, SMT
            <4>2. next[s[j + 1]] = Ptr(s, j + 1 + 1, Null)
                BY <1>13, <2>1, <4>1 DEF Leads
            <4> QED BY <1>1, <1>4, <3>2, <4>1, <4>2
        <3> QED BY <1>5, <2>1, <3>3, <3>4 DEF Leads
    <2>2. ASSUME NEW k \in Queue, k # K PROVE Leads(k, q2[k], Null)'
        BY <1>1, <1>2, <1>5, <1>13, <2>2 DEF Leads, Typed
    <2>3. ASSUME NEW k \in Queue, q2[k] # << >> PROVE back'[k] = q2[k][Len(q2[k])]
        <3>1. CASE k = K
            <4>1. Len(Tail(s)) # 0
                BY <1>4, <1>5, <2>3, <3>1, EmptySeq
            <4>2. Len(s) - 1 \in 1 .. Len(s) - 1 /\ Len(s) - 1 + 1 = Len(s)
                <5>1. Len(s) \in Nat /\ 1 <= Len(s) /\ Len(s) - 1 # 0
                    BY <1>4, <4>1
                <5>2. \A x \in Nat : 1 <= x /\ x - 1 # 0 => x - 1 \in 1 .. x - 1 /\ x - 1 + 1 = x
                    OBVIOUS
                <5> QED BY <5>1, <5>2
            <4>3. Tail(s)[Len(Tail(s))] = s[Len(s)]
                BY <1>4, <4>2
            <4> QED BY <1>1, <1>4, <1>5, <1>13, <3>1, <4>3
        <3>2. CASE k # K
            BY <1>1, <1>5, <1>13, <2>3, <3>2
        <3> QED BY <3>1, <3>2
    <2>4. \A k \in Queue : ~Linked(c, k) /\ ~Backed(c, k)
        BY <1>7 DEF Plain, Linked, Backed
    <2> QED BY <2>1, <2>2, <2>3, <2>4 DEF Lists
<1>15. front' \in [Queue -> Node \cup {Null}]
    BY <1>1, <1>2, <1>4, <1>10 DEF Typed
<1>16. Good(q2)'
    BY <1>1, <1>2, <1>5, <1>6, <1>8, <1>12, <1>14, <1>15, GoodNext DEF Typed
<1>17. Good([q EXCEPT ![K] = Tail(@)])'
    <2>1. q2 = [q EXCEPT ![K] = Tail(@)]
        OBVIOUS
    <2> QED BY <1>16, <2>1
<1> QED BY <1>4, <1>9, <1>17

\* The last assignment of enqueuee: the node, linked and made the last, ends its queue.
LEMMA Entered ==
  ASSUME NEW q, Good(q), NEW t \in Thread, Alone(t), Preemptible \subseteq {"put"},
         NEW K \in Queue, NEW n \in Node, op[t].Q = K, op[t].n = n,
         op[t].todo \in {<<"own">>, <<"end">>},
         op' = [op EXCEPT ![t] = Idle], next' = [next EXCEPT ![n] = Null],
         front' = front, back' = back, fresh' = fresh
  PROVE  n \in Hand /\ Good([q EXCEPT ![K] = Append(@, n)])' /\ Hand' = Hand \ {n}
<1> PICK b : b = op[t]
    OBVIOUS
<1> PICK s : s = q[K]
    OBVIOUS
<1> PICK q2 : q2 = [q EXCEPT ![K] = Append(s, n)]
    OBVIOUS
<1>1. /\ Typed /\ Apart(q) /\ q \in [Queue -> Seq(Node)] /\ b \in CallType /\ Sole(t)
      /\ Lists(q, b)
    BY Acting
<1>2. CarriesOf(b.todo) /\ ~SplicingOf(b.todo) /\ AtOf(b.todo) \in {"own", "end"}
    BY Beginnings, Carrying, InSplice
<1>3. /\ s \in Seq(Node) /\ Append(s, n) \in Seq(Node) /\ Len(Append(s, n)) = Len(s) + 1 /\ Len(s) \in Nat
      /\ \A j \in 1 .. Len(s) : Append(s, n)[j] = s[j]
      /\ Append(s, n)[Len(s) + 1] = n
      /\ \A j \in 1 .. Len(s) : s[j] \in Node
    <2>1. s \in Seq(Node)
        BY <1>1
    <2> QED BY <2>1, AppendProperties, LenProperties, ElementOfSeq
<1>4. /\ q2 \in [Queue -> Seq(Node)] /\ q2[K] = Append(s, n)
      /\ \A k \in Queue : k # K => q2[k] = q[k]
    BY <1>1, <1>3
<1>5. op'[t] = Idle /\ \A u \in Thread \ {t} : op'[u] = op[u]
    BY <1>1, IdleType, CallSet
<1>6. n \in Hand
    BY <1>2, InCall
<1>7. \A u \in Thread \ {t} : CarriesOf(op[u].todo) => op[u].n # n
    BY <1>1, <1>2 DEF Apart
<1>8. Hand' = Hand \ {n}
    BY <1>2, <1>5, <1>7, IdleType, Carrying, HandNext
<1>9. ASSUME NEW k \in Queue, NEW j \in 1 .. Len(q[k]) PROVE q[k][j] # n /\ q[k][j] \in Node
    BY <1>1, <1>6, ElementOfSeq DEF Apart
<1>10. ASSUME NEW k \in Queue, NEW i \in 1 .. Len(q2[k])
       PROVE  \/ k = K /\ i = Len(s) + 1 /\ q2[k][i] = n
              \/ i \in 1 .. Len(q[k]) /\ q2[k][i] = q[k][i]
    <2>1. CASE k = K
        <3>1. i = Len(s) + 1 \/ i \in 1 .. Len(s)
            BY <1>3, <1>4, <1>10, <2>1, SMT
        <3> QED BY <1>3, <1>4, <2>1, <3>1
    <2>2. CASE k # K
        BY <1>4, <1>10, <2>2
    <2> QED BY <2>1, <2>2
<1>11. Apart(q2)'
    <2>1. ASSUME NEW k \in Queue, NEW m \in Queue, NEW i \in 1 .. Len(q2[k]), NEW j \in 1 .. Len(q2[m]),
                 q2[k][i] = q2[m][j]
          PROVE  k = m /\ i = j
        <3>1. CASE k = K /\ i = Len(s) + 1 /\ q2[k][i] = n
            BY <1>9, <1>10, <2>1, <3>1
        <3>2. CASE m = K /\ j = Len(s) + 1 /\ q2[m][j] = n
            BY <1>9, <1>10, <2>1, <3>2
        <3>3. CASE /\ i \in 1 .. Len(q[k]) /\ q2[k][i] = q[k][i]
                   /\ j \in 1 .. Len(q[m]) /\ q2[m][j] = q[m][j]
            BY <1>1, <2>1, <3>3 DEF Apart
        <3> QED BY <1>10, <3>1, <3>2, <3>3
    <2>2. ASSUME NEW k \in Queue, NEW i \in 1 .. Len(q2[k]) PROVE q2[k][i] \notin Hand' \cup fresh'
        <3>1. CASE q2[k][i] = n
            BY <1>1, <1>6, <1>8, <3>1 DEF Apart
        <3>2. CASE i \in 1 .. Len(q[k]) /\ q2[k][i] = q[k][i]
            BY <1>1, <1>8, <3>2 DEF Apart
        <3> QED BY <1>10, <3>1, <3>2
    <2>3. Hand' \cap fresh' = {}
        BY <1>1, <1>8 DEF Apart
    <2>4. ASSUME NEW u \in Thread, NEW v \in Thread, CarriesOf(op'[u].todo), CarriesOf(op'[v].todo),
                 op'[u].n = op'[v].n
          PROVE  u = v
        <3>1. u # t /\ v # t
            BY <1>5, <2>4, IdleType, Carrying
        <3> QED BY <1>1, <1>5, <2>4, <3>1 DEF Apart
    <2> QED BY <2>1, <2>2, <2>3, <2>4 DEF Apart
<1>12. \A k \in Queue : (Linked(b, k) <=> k = K) /\ (Backed(b, k) <=> k = K)
    BY <1>2 DEF Linked, Backed
<1>13. next'[n] = Null /\ \A m \in Node : m # n => next'[m] = next[m]
    BY <1>1 DEF Typed
<1>14. Lists(q2, Idle)'
    <2>1. ASSUME NEW k \in Queue, k = K PROVE Leads(k, q2[k], Null)'
        <3>1. Leads(K, s, n)
            BY <1>1, <1>12 DEF Lists
        <3>2. ASSUME NEW j \in Nat, 1 <= j, j <= Len(s) + 1 PROVE Ptr(s, j, n) = Ptr(Append(s, n), j, Null)
            <4>1. (j = Len(s) + 1 /\ ~(j <= Len(s))) \/ (j \in 1 .. Len(s) /\ j <= Len(s))
                BY <1>3, <3>2, SMT
            <4>2. j <= Len(Append(s, n))
                BY <1>3, <3>2, SMT
            <4>3. CASE j = Len(s) + 1 /\ ~(j <= Len(s))
                BY <1>3, <4>2, <4>3 DEF Ptr
            <4>4. CASE j \in 1 .. Len(s) /\ j <= Len(s)
                BY <1>3, <4>2, <4>4 DEF Ptr
            <4> QED BY <4>1, <4>3, <4>4
        <3>3. front'[k] = Ptr(Append(s, n), 1, Null)
            <4>1. 1 \in Nat /\ 1 <= 1 /\ 1 <= Len(s) + 1
                BY <1>3, SMT
            <4>2. Ptr(s, 1, n) = Ptr(Append(s, n), 1, Null)
                BY <3>2, <4>1
            <4> QED BY <2>1, <3>1, <4>2 DEF Leads
        <3>4. ASSUME NEW j \in 1 .. Len(s) + 1
              PROVE  next'[Append(s, n)[j]] = Ptr(Append(s, n), j + 1, Null)
            <4>1. CASE j = Len(s) + 1
                <5>1. ~(j + 1 <= Len(Append(s, n)))
                    BY <1>3, <4>1, SMT
                <5> QED BY <1>3, <1>13, <4>1, <5>1 DEF Ptr
            <4>2. CASE j # Len(s) + 1
                <5>1. j \in 1 .. Len(s) /\ j + 1 \in Nat /\ 1 <= j + 1 /\ j + 1 <= Len(s) + 1
                    BY <1>3, <3>4, <4>2, SMT
                <5>2. s[j] # n /\ s[j] \in Node
                    BY <1>9, <5>1
                <5>3. next[s[j]] = Ptr(s, j + 1, n)
                    BY <3>1, <5>1 DEF Leads
                <5>4. Ptr(s, j + 1, n) = Ptr(Append(s, n), j + 1, Null)
                    BY <3>2, <5>1
                <5> QED BY <1>3, <1>13, <5>1, <5>2, <5>3, <5>4
            <4> QED BY <4>1, <4>2
        <3> QED BY <1>3, <1>4, <2>1, <3>3, <3>4 DEF Leads
    <2>2. ASSUME NEW k \in Queue, k # K PROVE Leads(k, q2[k], Null)'
        <3>1. Leads(k, q[k], Null)
            BY <1>1, <1>12, <2>2 DEF Lists
        <3>2. \A j \in 1 .. Len(q[k]) : next'[q[k][j]] = next[q[k][j]]
            BY <1>9, <1>13
        <3> QED BY <1>4, <2>2, <3>1, <3>2 DEF Leads
    <2>3. ASSUME NEW k \in Queue, q2[k] # << >> PROVE back'[k] = q2[k][Len(q2[k])]
        <3>1. CASE k = K
            <4>1. back[k] = n
                BY <1>1, <1>2, <1>12, <3>1 DEF Lists
            <4> QED BY <1>3, <1>4, <3>1, <4>1
        <3>2. CASE k # K
            BY <1>1, <1>4, <1>12, <2>3, <3>2 DEF Lists
        <3> QED BY <3>1, <3>2
    <2>4. \A k \in Queue : ~Linked(Idle, k) /\ ~Backed(Idle, k)
        BY IdleType, Beginnings DEF Linked, Backed
    <2> QED BY <2>1, <2>2, <2>3, <2>4 DEF Lists
<1>15. Good(q2)'
    <2>1. Phase(q2, Idle) /\ Idle \in CallType
        BY IdleType DEF Phase
    <2>2. next' \in [Node -> Node \cup {Null}]
        BY <1>1 DEF Typed
    <2> QED BY <1>1, <1>4, <1>11, <1>14, <2>1, <2>2, GoodNext DEF Typed
<1>16. Good([q EXCEPT ![K] = Append(@, n)])'
    <2>1. q2 = [q EXCEPT ![K] = Append(@, n)]
        OBVIOUS
    <2> QED BY <1>15, <2>1
<1> QED BY <1>6, <1>8, <1>16

\* n->next = NULL.
LEMMA OwnKeeps ==
  ASSUME NEW q, Good(q), NEW t \in Thread, Preemptible \subseteq {"put"}, Own(t)
  PROVE  \E n \in Hand, k \in Queue :
           Good([q EXCEPT ![k] = Append(@, n)])' /\ Hand' = Hand \ {n}
<1>1. /\ Alone(t) /\ At(t) = "own" /\ Done(t) /\ next' = [next EXCEPT ![op[t].n] = Null]
      /\ front' = front /\ back' = back /\ fresh' = fresh
    BY DEF Own
<1>2. Phase(q, op[t]) /\ AtOf(op[t].todo) = "own"
    BY <1>1, Acting
<1>3. IntoEmpty(q, op[t]) /\ op[t].todo = <<"own">>
    BY <1>2, Beginnings
       DEF Phase, Taking, Holding, IntoEmpty, IntoFull, Splices, Clearing, Counts
<1>4. op[t].Q \in Queue /\ op[t].n \in Node
    BY <1>3 DEF IntoEmpty
<1>5. op' = [op EXCEPT ![t] = Idle]
    BY <1>1, <1>3, Tails, Beginnings, OneOf
<1> QED BY <1>1, <1>3, <1>4, <1>5, Entered

\* Q->back->next = NULL.
LEMMA EndKeeps ==
  ASSUME NEW q, Good(q), NEW t \in Thread, Preemptible \subseteq {"put"}, End(t)
  PROVE  \E n \in Hand, k \in Queue :
           Good([q EXCEPT ![k] = Append(@, n)])' /\ Hand' = Hand \ {n}
<1>1. /\ Alone(t) /\ At(t) = "end" /\ Done(t) /\ next' = [next EXCEPT ![back[op[t].Q]] = Null]
      /\ front' = front /\ back' = back /\ fresh' = fresh
    BY DEF End
<1>2. Phase(q, op[t]) /\ Lists(q, op[t]) /\ AtOf(op[t].todo) = "end"
    BY <1>1, Acting
<1>3. IntoFull(q, op[t]) /\ op[t].todo = <<"end">>
    BY <1>2, Beginnings
       DEF Phase, Taking, Holding, IntoEmpty, IntoFull, Splices, Clearing, Counts
<1>4. op[t].Q \in Queue /\ op[t].n \in Node
    BY <1>3 DEF IntoFull
<1>5. op' = [op EXCEPT ![t] = Idle]
    BY <1>1, <1>3, Tails, Beginnings, OneOf
<1>6. back[op[t].Q] = op[t].n
    BY <1>2, <1>3, <1>4, InSplice DEF Lists, Backed
<1> QED BY <1>1, <1>3, <1>4, <1>5, <1>6, Entered

\* The splice takes effect: the lowest level is left empty, and its nodes are those behind
\* the highest.
LEMMA ClearKeeps ==
  ASSUME NEW q, Good(q), NEW t \in Thread, Preemptible \subseteq {"put"}, Clear(t)
  PROVE  Good([q EXCEPT ![highest] = @ \o q[lowest], ![lowest] = << >>])' /\ Hand' = Hand
<1> PICK b : b = op[t]
    OBVIOUS
<1> PICK c : c = After(op[t])
    OBVIOUS
<1> PICK r : r = q[highest]
    OBVIOUS
<1> PICK s : s = q[lowest]
    OBVIOUS
<1>x. PICK x : x = Len(r)
    OBVIOUS
<1>y. PICK y : y = Len(s)
    OBVIOUS
<1>w. PICK w : w = r \o s
    OBVIOUS
<1>q2. PICK q2 : q2 = [q EXCEPT ![highest] = @ \o q[lowest], ![lowest] = << >>]
    OBVIOUS
<1>1. /\ Alone(t) /\ At(t) = "clear" /\ Done(t) /\ front' = [front EXCEPT ![lowest] = Null]
      /\ back' = back /\ next' = next /\ fresh' = fresh
    BY DEF Clear
<1>2. /\ Typed /\ Apart(q) /\ q \in [Queue -> Seq(Node)] /\ b \in CallType /\ Sole(t)
      /\ Phase(q, b) /\ Lists(q, b) /\ AtOf(b.todo) = "clear"
    BY <1>1, Acting
<1>3. Splices(q, b) /\ b.todo = <<"clear", "clearBack">>
    BY <1>2, Beginnings
       DEF Phase, Taking, Holding, IntoEmpty, IntoFull, Splices, Clearing, Counts
<1>4. b.Q = highest /\ highest \in Queue /\ lowest \in Queue /\ highest # lowest /\ s # << >> /\ b.n = s[1]
    BY <1>3, Names DEF Splices
<1>5. /\ r \in Seq(Node) /\ s \in Seq(Node) /\ Len(r) = x /\ Len(s) = y /\ x \in Nat /\ y \in Nat /\ 1 <= y
      /\ w \in Seq(Node) /\ Len(w) = x + y
      /\ \A i \in 1 .. x + y : w[i] = IF i <= x THEN r[i] ELSE s[i - x]
    <2>1. r \in Seq(Node) /\ s \in Seq(Node)
        BY <1>2, <1>4
    <2>2. x \in Nat /\ y \in Nat /\ y # 0
        BY <1>4, <1>x, <1>y, <2>1, LenProperties, EmptySeq
    <2>3. 1 <= y
        BY <2>2, SMT
    <2>4. /\ r \o s \in Seq(Node) /\ Len(r \o s) = Len(r) + Len(s)
          /\ \A i \in 1 .. Len(r) + Len(s) : (r \o s)[i] = IF i <= Len(r) THEN r[i] ELSE s[i - Len(r)]
        BY <2>1, ConcatProperties
    <2> QED BY <1>x, <1>y, <1>w, <2>1, <2>2, <2>3, <2>4, Zenon
<1>6. /\ q2 \in [Queue -> Seq(Node)] /\ q2[highest] = w /\ q2[lowest] = << >>
      /\ \A k \in Queue : k # highest /\ k # lowest => q2[k] = q[k]
    <2>1. << >> \in Seq(Node)
        OBVIOUS
    <2> QED BY <1>2, <1>4, <1>5, <1>w, <1>q2, <2>1
<1>7. /\ op' = [op EXCEPT ![t] = c] /\ c \in CallType
      /\ op'[t] = c /\ \A u \in Thread \ {t} : op'[u] = op[u]
      /\ c.todo = <<"clearBack">>
    <2>1. b.todo # << >> /\ Len(b.todo) # 1 /\ Tail(b.todo) = <<"clearBack">>
        BY <1>3, Tails, Beginnings
    <2> QED BY <1>1, <2>1, OneOf
<1>8. Phase(q2, c)
    BY <1>6, <1>7 DEF Phase, Clearing
<1>9. Hand' = Hand
    BY <1>3, <1>7, Carrying, HandNext
<1>10. ASSUME NEW k \in Queue, NEW i \in 1 .. Len(q2[k])
       PROVE  \/ k = highest /\ i \in 1 .. x /\ q2[k][i] = r[i]
              \/ /\ k = highest /\ i - x \in 1 .. y /\ i \in Nat
                 /\ q2[k][i] = s[i - x]
              \/ k # highest /\ k # lowest /\ i \in 1 .. Len(q[k]) /\ q2[k][i] = q[k][i]
    <2>1. CASE k = highest
        <3>1. i \in 1 .. x + y /\ i \in Nat
            BY <1>5, <1>6, <1>10, <2>1, SMT
        <3>2. CASE i <= x
            <4>1. i \in 1 .. x
                BY <1>5, <3>1, <3>2, SMT
            <4> QED BY <1>5, <1>6, <2>1, <3>1, <3>2, <4>1
        <3>3. CASE ~(i <= x)
            <4>1. i - x \in 1 .. y
                BY <1>5, <3>1, <3>3, SMT
            <4> QED BY <1>5, <1>6, <2>1, <3>1, <3>3, <4>1
        <3> QED BY <3>2, <3>3
    <2>2. CASE k = lowest
        <3>1. Len(q2[k]) = 0
            BY <1>6, <2>2
        <3> QED BY <1>10, <3>1, SMT
    <2>3. CASE k # highest /\ k # lowest
        BY <1>6, <1>10, <2>3
    <2> QED BY <2>1, <2>2, <2>3
<1>11. /\ \A i \in 1 .. x, j \in 1 .. x : r[i] = r[j] => i = j
       /\ \A i \in 1 .. y, j \in 1 .. y : s[i] = s[j] => i = j
       /\ \A i \in 1 .. x, j \in 1 .. y : r[i] # s[j]
       /\ \A k \in Queue : k # highest => \A i \in 1 .. Len(q[k]), j \in 1 .. x : q[k][i] # r[j]
       /\ \A k \in Queue : k # lowest => \A i \in 1 .. Len(q[k]), j \in 1 .. y : q[k][i] # s[j]
       /\ \A i \in 1 .. x : r[i] \notin Hand \cup fresh
       /\ \A i \in 1 .. y : s[i] \notin Hand \cup fresh
    <2>1. Len(q[highest]) = x /\ Len(q[lowest]) = y
        BY <1>5
    <2>2. \A k \in Queue : k # highest => \A i \in 1 .. Len(q[k]), j \in 1 .. x : q[k][i] # r[j]
        BY <1>2, <1>4, <2>1 DEF Apart
    <2>3. \A k \in Queue : k # lowest => \A i \in 1 .. Len(q[k]), j \in 1 .. y : q[k][i] # s[j]
        BY <1>2, <1>4, <2>1 DEF Apart
    <2>4. \A i \in 1 .. x, j \in 1 .. y : r[i] # s[j]
        BY <1>4, <2>1, <2>3
    <2>5. /\ \A i \in 1 .. x, j \in 1 .. x : r[i] = r[j] => i = j
          /\ \A i \in 1 .. y, j \in 1 .. y : s[i] = s[j] => i = j
        BY <1>2, <1>4, <2>1 DEF Apart
    <2>6. /\ \A i \in 1 .. x : r[i] \notin Hand \cup fresh
          /\ \A i \in 1 .. y : s[i] \notin Hand \cup fresh
        BY <1>2, <1>4, <2>1 DEF Apart
    <2> QED BY <2>2, <2>3, <2>4, <2>5, <2>6
<1>12. Apart(q2)'
    <2>1. ASSUME NEW k \in Queue, NEW m \in Queue, NEW i \in 1 .. Len(q2[k]), NEW j \in 1 .. Len(q2[m]),
                 q2[k][i] = q2[m][j]
          PROVE  k = m /\ i = j
        <3> DEFINE InR(l, h) == l = highest /\ h \in 1 .. x /\ q2[l][h] = r[h]
                   InS(l, h) == /\ l = highest /\ h - x \in 1 .. y /\ h \in Nat
                                /\ q2[l][h] = s[h - x]
                   Other(l, h) == l # highest /\ l # lowest /\ h \in 1 .. Len(q[l]) /\ q2[l][h] = q[l][h]
        <3>1. InR(k, i) \/ InS(k, i) \/ Other(k, i)
            BY <1>10
        <3>2. InR(m, j) \/ InS(m, j) \/ Other(m, j)
            BY <1>10
        <3>3. CASE InR(k, i) /\ InR(m, j)
            BY <1>11, <2>1, <3>3
        <3>4. CASE InS(k, i) /\ InS(m, j)
            <4>1. k = m /\ i - x = j - x /\ i \in Nat /\ j \in Nat
                BY <1>11, <2>1, <3>4
            <4> QED BY <1>5, <4>1
        <3>5. CASE Other(k, i) /\ Other(m, j)
            <4>1. i \in 1 .. Len(q[k]) /\ j \in 1 .. Len(q[m]) /\ q[k][i] = q[m][j]
                BY <2>1, <3>5
            <4>2. \A g \in 1 .. Len(q[k]), p \in 1 .. Len(q[m]) : q[k][g] = q[m][p] => k = m /\ g = p
                BY <1>2 DEF Apart
            <4> QED BY <4>1, <4>2
        <3>6. ~(InR(k, i) /\ InS(m, j)) /\ ~(InS(k, i) /\ InR(m, j))
            BY <1>11, <2>1
        <3>7. ~(Other(k, i) /\ InR(m, j)) /\ ~(InR(k, i) /\ Other(m, j))
            BY <1>11, <2>1
        <3>8. ~(Other(k, i) /\ InS(m, j)) /\ ~(InS(k, i) /\ Other(m, j))
            BY <1>11, <2>1
        <3> HIDE DEF InR, InS, Other
        <3> QED BY <3>1, <3>2, <3>3, <3>4, <3>5, <3>6, <3>7, <3>8
    <2>2. ASSUME NEW k \in Queue, NEW i \in 1 .. Len(q2[k]) PROVE q2[k][i] \notin Hand \cup fresh
        <3>1. CASE k = highest /\ i \in 1 .. x /\ q2[k][i] = r[i]
            BY <1>11, <3>1
        <3>2. CASE /\ k = highest /\ i - x \in 1 .. y /\ i \in Nat
                   /\ q2[k][i] = s[i - x]
            BY <1>11, <3>2
        <3>3. CASE k # highest /\ k # lowest /\ i \in 1 .. Len(q[k]) /\ q2[k][i] = q[k][i]
            BY <1>2, <3>3 DEF Apart
        <3> QED BY <1>10, <3>1, <3>2, <3>3
    <2>3. ASSUME NEW u \in Thread, NEW v \in Thread, CarriesOf(op'[u].todo), CarriesOf(op'[v].todo),
                 op'[u].n = op'[v].n
          PROVE  u = v
        <3>1. u # t /\ v # t
            BY <1>7, <2>3, Carrying
        <3> QED BY <1>2, <1>7, <2>3, <3>1 DEF Apart
    <2>4. Hand \cap fresh = {}
        BY <1>2 DEF Apart
    <2> QED BY <1>1, <1>9, <2>1, <2>2, <2>3, <2>4 DEF Apart
<1>13. \A k \in Queue : (Linked(b, k) <=> k = highest) /\ (Backed(b, k) <=> k = highest)
    BY <1>2, <1>4 DEF Linked, Backed
<1>14. /\ Leads(highest, r, b.n) /\ back[highest] = back[lowest]
       /\ Leads(lowest, s, Null) /\ back[lowest] = s[y]
       /\ \A k \in Queue : k # highest => Leads(k, q[k], Null)
       /\ \A k \in Queue : k # highest /\ q[k] # << >> => back[k] = q[k][Len(q[k])]
    <2>1. SplicingOf(b.todo)
        BY <1>3, InSplice
    <2>2. Leads(highest, r, b.n) /\ back[highest] = back[lowest]
        BY <1>2, <1>4, <1>13, <2>1 DEF Lists
    <2>3. \A k \in Queue : k # highest => Leads(k, q[k], Null)
        BY <1>2, <1>13 DEF Lists
    <2>4. \A k \in Queue : k # highest /\ q[k] # << >> => back[k] = q[k][Len(q[k])]
        BY <1>2, <1>13 DEF Lists
    <2>5. Leads(lowest, s, Null) /\ back[lowest] = s[y]
        BY <1>4, <1>5, <2>3, <2>4
    <2> QED BY <2>2, <2>3, <2>4, <2>5
<1>15. Lists(q2, c)'
    <2>1. Leads(highest, q2[highest], Null)'
        <3>1. ASSUME NEW j \in Nat, 1 <= j, j <= x + 1 PROVE Ptr(r, j, b.n) = Ptr(w, j, Null)
            <4>1. j <= Len(w) /\ j \in 1 .. x + y
                BY <1>5, <3>1, SMT
            <4>2. CASE j <= x
                <5>1. Ptr(r, j, b.n) = r[j] /\ Ptr(w, j, Null) = w[j]
                    BY <1>5, <4>1, <4>2 DEF Ptr
                <5>2. w[j] = r[j]
                    BY <1>5, <4>1, <4>2
                <5> QED BY <5>1, <5>2
            <4>3. CASE ~(j <= x)
                <5>1. j - x = 1
                    BY <1>5, <3>1, <4>3, SMT
                <5>2. w[j] = s[1]
                    BY <1>5, <4>1, <4>3, <5>1
                <5>3. Ptr(r, j, b.n) = b.n /\ Ptr(w, j, Null) = w[j]
                    BY <1>5, <4>1, <4>3 DEF Ptr
                <5> QED BY <1>4, <5>2, <5>3
            <4> QED BY <4>2, <4>3
        <3>2. ASSUME NEW j \in Nat, 1 <= j PROVE Ptr(s, j, Null) = Ptr(w, x + j, Null)
            <4>1. CASE j <= y
                <5>1. /\ x + j <= Len(w) /\ x + j \in 1 .. x + y
                      /\ ~(x + j <= x) /\ x + j - x = j
                    BY <1>5, <3>2, <4>1, SMT
                <5>2. w[x + j] = s[j]
                    BY <1>5, <5>1
                <5>3. Ptr(s, j, Null) = s[j] /\ Ptr(w, x + j, Null) = w[x + j]
                    BY <1>5, <4>1, <5>1 DEF Ptr
                <5> QED BY <5>2, <5>3
            <4>2. CASE ~(j <= y)
                <5>1. ~(x + j <= Len(w))
                    BY <1>5, <3>2, <4>2, SMT
                <5> QED BY <1>5, <4>2, <5>1 DEF Ptr
            <4> QED BY <4>1, <4>2
        <3>3. front'[highest] = Ptr(w, 1, Null)
            <4>1. 1 \in Nat /\ 1 <= 1 /\ 1 <= x + 1
                BY <1>5, SMT
            <4>2. front[highest] = Ptr(w, 1, Null)
                BY <1>14, <3>1, <4>1 DEF Leads
            <4> QED BY <1>1, <1>2, <1>4, <4>2 DEF Typed
        <3>4. ASSUME NEW j \in 1 .. Len(w) PROVE next'[w[j]] = Ptr(w, j + 1, Null)
            <4>1. j \in 1 .. x + y
                BY <1>5, <3>4
            <4>2. CASE j <= x
                <5>1. j \in 1 .. x /\ j + 1 \in Nat /\ 1 <= j + 1 /\ j + 1 <= x + 1
                    BY <1>5, <4>1, <4>2, SMT
                <5>2. next[r[j]] = Ptr(r, j + 1, b.n)
                    BY <1>5, <1>14, <5>1 DEF Leads
                <5>3. next[r[j]] = Ptr(w, j + 1, Null)
                    BY <3>1, <5>1, <5>2
                <5> QED BY <1>1, <1>5, <4>1, <4>2, <5>3
            <4>3. CASE ~(j <= x)
                <5>i. PICK i : i = j - x
                    OBVIOUS
                <5>1. i \in 1 .. y /\ i + 1 \in Nat /\ 1 <= i + 1 /\ x + (i + 1) = j + 1
                    BY <1>5, <4>1, <4>3, <5>i, SMT
                <5>2. next[s[i]] = Ptr(s, i + 1, Null)
                    BY <1>5, <1>14, <5>1 DEF Leads
                <5>3. Ptr(s, i + 1, Null) = Ptr(w, j + 1, Null)
                    BY <3>2, <5>1
                <5>4. w[j] = s[i]
                    BY <1>5, <4>1, <4>3, <5>i
                <5> QED BY <1>1, <5>2, <5>3, <5>4
            <4> QED BY <4>2, <4>3
        <3> QED BY <1>6, <3>3, <3>4 DEF Leads
    <2>2. Leads(lowest, q2[lowest], Null)'
        <3>1. front'[lowest] = Null
            BY <1>1, <1>2, <1>4 DEF Typed
        <3> QED BY <1>6, <3>1 DEF Leads, Ptr
    <2>3. ASSUME NEW k \in Queue, k # highest, k # lowest PROVE Leads(k, q2[k], Null)'
        <3>1. Leads(k, q[k], Null) /\ front'[k] = front[k]
            BY <1>1, <1>2, <1>14, <2>3 DEF Typed
        <3> QED BY <1>1, <1>6, <2>3, <3>1 DEF Leads
    <2>4. ASSUME NEW k \in Queue, q2[k] # << >> PROVE back'[k] = q2[k][Len(q2[k])]
        <3>1. CASE k = highest
            <4>1. x + y \in 1 .. x + y /\ ~(x + y <= x)
                  /\ x + y - x = y
                BY <1>5, SMT
            <4>2. w[Len(w)] = s[y]
                BY <1>5, <4>1
            <4> QED BY <1>1, <1>6, <1>14, <3>1, <4>2
        <3>2. CASE k # highest
            BY <1>1, <1>6, <1>14, <2>4, <3>2
        <3> QED BY <3>1, <3>2
    <2>5. \A k \in Queue : ~Linked(c, k) /\ ~Backed(c, k)
        BY <1>7, Beginnings DEF Linked, Backed
    <2> QED BY <2>1, <2>2, <2>3, <2>4, <2>5 DEF Lists
<1>16. Good(q2)'
    <2>1. front' \in [Queue -> Node \cup {Null}]
        BY <1>1, <1>2, <1>4 DEF Typed
    <2> QED BY <1>1, <1>2, <1>6, <1>7, <1>8, <1>12, <1>15, <2>1, GoodNext DEF Typed
<1> QED BY <1>9, <1>16, <1>q2

\* The back of the lowest level is reset.
LEMMA ClearBackKeeps ==
  ASSUME NEW q, Good(q), NEW t \in Thread, Preemptible \subseteq {"put"}, ClearBack(t)
  PROVE  Good(q)' /\ Hand' = Hand
<1>1. /\ Alone(t) /\ At(t) = "clearBack" /\ Done(t) /\ back' = [back EXCEPT ![lowest] = Null]
      /\ front' = front /\ next' = next /\ fresh' = fresh
    BY DEF ClearBack
<1>2. /\ Typed /\ Apart(q) /\ q \in [Queue -> Seq(Node)] /\ op[t] \in CallType /\ Sole(t)
      /\ Phase(q, op[t]) /\ Lists(q, op[t]) /\ AtOf(op[t].todo) = "clearBack"
    BY <1>1, Acting
<1>3. op[t].todo = <<"clearBack">> /\ q[lowest] = << >>
    BY <1>2, Beginnings
       DEF Phase, Taking, Holding, IntoEmpty, IntoFull, Splices, Clearing, Counts
<1>4. op[t].todo # << >> /\ Len(op[t].todo) = 1
    BY <1>3, Tails, Beginnings
<1>5. After(op[t]) = Idle /\ Idle \in CallType /\ Idle.todo = << >>
    BY <1>1, <1>4, OneOf, IdleType
<1>6. op' = [op EXCEPT ![t] = Idle] /\ op'[t] = Idle /\ \A u \in Thread \ {t} : op'[u] = op[u]
    BY <1>1, <1>4, <1>5, OneOf
<1>7. Apart(q)' /\ Hand' = Hand
    <2>1. ~CarriesOf(Idle.todo) /\ ~CarriesOf(op[t].todo)
        BY <1>3, <1>5, Carrying
    <2> QED BY <1>1, <1>2, <1>6, <2>1, ApartKept
<1>8. Lists(q, Idle)'
    <2>1. \A k \in Queue : ~Linked(op[t], k) /\ ~Backed(op[t], k) /\ ~Linked(Idle, k) /\ ~Backed(Idle, k)
        BY <1>2, <1>5, Beginnings DEF Linked, Backed
    <2>2. \A k \in Queue : Leads(k, q[k], Null) /\ (q[k] # << >> => back[k] = q[k][Len(q[k])])
        BY <1>2, <2>1 DEF Lists
    <2>3. \A k \in Queue : q[k] # << >> => back'[k] = q[k][Len(q[k])]
        BY <1>1, <1>2, <1>3, <2>2 DEF Typed
    <2>4. \A k \in Queue : ~Linked(Idle, k) /\ ~Backed(Idle, k)
        BY <2>1
    <2> QED BY <1>1, <2>2, <2>3, <2>4 DEF Lists, Leads
<1> QED
    <2>1. Phase(q, Idle)
        BY <1>5 DEF Phase
    <2>2. back' \in [Queue -> Node \cup {Null}]
        BY <1>1, <1>2 DEF Typed
    <2> QED BY <1>1, <1>2, <1>5, <1>6, <1>7, <1>8, <2>1, <2>2, GoodNext DEF Typed

\* get_specific_count goes on to the next node, or has come to the end.
LEMMA WalkKeeps ==
  ASSUME NEW q, Good(q), NEW t \in Thread, Preemptible \subseteq {"put"}, Walk(t)
  PROVE  Good(q)' /\ Hand' = Hand
<1> PICK b : b = op[t]
    OBVIOUS
<1> PICK s : s = q[b.Q]
    OBVIOUS
<1>1. /\ Alone(t) /\ At(t) = "walk" /\ front' = front /\ back' = back /\ next' = next /\ fresh' = fresh
    BY DEF Walk
<1>2. /\ Typed /\ Apart(q) /\ q \in [Queue -> Seq(Node)] /\ b \in CallType /\ Sole(t)
      /\ Phase(q, b) /\ Lists(q, b) /\ AtOf(b.todo) = "walk"
    BY <1>1, Acting
<1>3. Counts(q, b) /\ b.todo = <<"walk">>
    BY <1>2, Beginnings
       DEF Phase, Taking, Holding, IntoEmpty, IntoFull, Splices, Clearing, Counts
<1>4. Plain(b) /\ ~CarriesOf(b.todo)
    BY <1>3, Beginnings, Carrying DEF Plain
<1>5. CASE b.n = Null
    <2>1. op' = [op EXCEPT ![t] = Idle]
        BY <1>5 DEF Walk, WalkEnds
    <2>2. Idle \in CallType /\ Plain(Idle) /\ ~CarriesOf(Idle.todo) /\ Phase(q, Idle)
        BY IdleType, Beginnings, Carrying DEF Plain, Phase
    <2> QED BY <1>1, <1>4, <2>1, <2>2, PlainStep
<1>6. CASE b.n # Null
    <2>1. s \in Seq(Node) /\ Len(s) \in Nat /\ b.count \in Nat /\ b.Q \in Queue /\ Leads(b.Q, s, Null)
        <3>1. b.Q \in Queue
            BY <1>3 DEF Counts
        <3>2. ~Linked(b, b.Q)
            BY <1>4 DEF Plain, Linked
        <3> QED BY <1>2, <3>1, <3>2, LenProperties DEF CallType, Lists
    <2>2. b.count + 1 <= Len(s) /\ b.n = s[b.count + 1]
        BY <1>3, <1>6 DEF Counts, Ptr
    <2>3. b.count + 1 \in 1 .. Len(s) /\ b.count + 1 \in Nat
        BY <2>1, <2>2, SMT
    <2>4. b.n \in Node /\ next[b.n] = Ptr(s, b.count + 1 + 1, Null) /\ next[b.n] \in Node \cup {Null}
        BY <1>2, <2>1, <2>2, <2>3, ElementOfSeq DEF Leads, Typed
    <2>5. b.count < MaxCount
        <3>1. Simple(s)
            BY <1>2, <2>1 DEF Simple, Apart
        <3>2. Len(s) < Cardinality(Node) + 1 /\ Cardinality(Node) + 1 \in Nat
            BY <3>1, FewListed
        <3>3. b.count < Cardinality(Node) + 1
            BY <2>1, <2>2, <3>2, SMT
        <3> QED BY <3>3 DEF MaxCount
    <2> PICK c : c = [b EXCEPT !.n = next[b.n], !.count = b.count + 1]
        OBVIOUS
    <2>6. op' = [op EXCEPT ![t] = c]
        <3>1. ~WalkEnds(op[t].n) /\ op[t].count < MaxCount
            BY <1>6, <2>5 DEF WalkEnds
        <3> QED BY <1>2, <3>1 DEF Walk, Typed, CallType
    <2>7. c \in CallType /\ c.todo = <<"walk">> /\ c.Q = b.Q /\ c.n = next[b.n] /\ c.count = b.count + 1
        BY <1>2, <1>3, <2>3, <2>4 DEF CallType
    <2>8. Phase(q, c)
        BY <2>1, <2>2, <2>4, <2>7 DEF Phase, Counts
    <2>9. Plain(c) /\ ~CarriesOf(c.todo)
        BY <2>7, Beginnings, Carrying DEF Plain
    <2> QED BY <1>1, <1>4, <2>6, <2>7, <2>8, <2>9, PlainStep
<1> QED BY <1>5, <1>6

-----------------------------------------------------------------------------
(* The theorems.                                                           *)

\* What is listed, which is what the refinement puts for q.
Rep == [k \in Queue |-> Listed(k)]

\* What a step does to the lists that the pointers represent.
LEMMA StepGood ==
  ASSUME NEW q, Good(q), Next, Preemptible \subseteq {"put"}
  PROVE  \/ Good(q)' /\ Hand' = Hand
         \/ \E n \in fresh : Good(q)' /\ Hand' = Hand \cup {n} /\ n \notin Hand
         \/ \E n \in Hand, k \in Queue : Good([q EXCEPT ![k] = Append(@, n)])' /\ Hand' = Hand \ {n}
         \/ \E k \in Queue : /\ q[k] # << >> /\ Good([q EXCEPT ![k] = Tail(@)])'
                             /\ Hand' \in {Hand, Hand \cup {Head(q[k])}}
         \/ Good([q EXCEPT ![highest] = @ \o q[lowest], ![lowest] = << >>])' /\ Hand' = Hand
<1>1. PICK t \in Thread : Begin(t) \/ Step(t)
    BY DEF Next
<1>2. CASE Begin(t)
    <2>1. ASSUME NEW k \in Queue, Create(t, k)
          PROVE  \E n \in fresh : Good(q)' /\ Hand' = Hand \cup {n} /\ n \notin Hand
        BY <2>1, CreateKeeps
    <2>2. ASSUME NEW k \in Queue, Count(t, k) PROVE Good(q)' /\ Hand' = Hand
        BY <2>2, CountKeeps
    <2>3. ASSUME NEW k \in Queue, NEW to \in Queue \cup {Null}, Move(t, k, to)
          PROVE  Good(q)' /\ Hand' = Hand
        BY <2>3, MoveKeeps
    <2>4. ASSUME Splice(t) PROVE Good(q)' /\ Hand' = Hand
        BY <2>4, SpliceKeeps
    <2> QED BY <1>2, <2>1, <2>2, <2>3, <2>4 DEF Begin
<1>3. CASE Step(t)
    <2>1. CASE Unhook(t)
        BY <2>1, UnhookKeeps
    <2>2. CASE Own(t) \/ End(t)
        BY <2>2, OwnKeeps, EndKeeps
    <2>3. CASE Clear(t)
        BY <2>3, ClearKeeps
    <2>4. CASE Put(t) \/ First(t) \/ Link(t) \/ Last(t) \/ ClearBack(t) \/ Walk(t)
        BY <2>4, PutKeeps, FirstKeeps, LinkKeeps, LastKeeps, ClearBackKeeps, WalkKeeps
    <2> QED BY <1>3, <2>1, <2>2, <2>3, <2>4 DEF Step
<1> QED BY <1>1, <1>2, <1>3

\* GoodInv of every q.
GoodIsListed == \A q : Good(q) => Inv /\ q = Rep

\* It says so in every state.
LEMMA ListedNow == GoodIsListed
BY GoodInv DEF GoodIsListed, Rep

\* In the next state too.
LEMMA ListedNext == GoodIsListed'
BY ListedNow, PTL

\* What is listed after a step.
LEMMA GoodThen ==
  ASSUME NEW q, Good(q)'
  PROVE  Inv' /\ Rep' = q
BY ListedNext DEF GoodIsListed

\* A step of the lists, in the words of Queues.
RepStep ==
  \/ Rep' = Rep /\ Hand' = Hand
  \/ \E n \in Node \ (Fifo!Queued \cup Hand) : Rep' = Rep /\ Hand' = Hand \cup {n}
  \/ \E n \in Hand, k \in Queue : Rep' = [Rep EXCEPT ![k] = Append(@, n)] /\ Hand' = Hand \ {n}
  \/ \E k \in Queue : /\ Rep[k] # << >> /\ Rep' = [Rep EXCEPT ![k] = Tail(@)]
                      /\ Hand' \in {Hand, Hand \cup {Head(Rep[k])}}
  \/ Rep' = [Rep EXCEPT ![highest] = @ \o Rep[lowest], ![lowest] = << >>] /\ Hand' = Hand

\* The invariant is kept, and the lists make a step of Queues or none.
LEMMA StepKept ==
  ASSUME Inv, Next, Preemptible \subseteq {"put"}
  PROVE  Inv' /\ RepStep
<1>1. PICK q : q = Rep
    OBVIOUS
<1>2. Good(q) /\ q \in [Queue -> Seq(Node)] /\ Apart(q) /\ fresh \subseteq Node
    BY <1>1 DEF Inv, Rep, Good, Typed
<1>3. CASE Good(q)' /\ Hand' = Hand
    BY <1>1, <1>3, GoodThen DEF RepStep
<1>4. ASSUME NEW n \in fresh, Good(q)', Hand' = Hand \cup {n}, n \notin Hand
      PROVE  Inv' /\ RepStep
    <2>1. n \notin Fifo!Queued
        <3>1. Fifo!Queued = UNION {{q[k][i] : i \in DOMAIN q[k]} : k \in Queue}
            BY <1>1 DEF Fifo!Queued, Fifo!Members, Rep
        <3>2. ASSUME NEW k \in Queue PROVE DOMAIN q[k] = 1 .. Len(q[k])
            <4>1. q[k] \in Seq(Node)
                BY <1>2
            <4> QED BY <4>1, LenProperties
        <3>3. \A k \in Queue : \A i \in DOMAIN q[k] : q[k][i] # n
            BY <1>2, <3>2 DEF Apart
        <3> QED BY <3>1, <3>3
    <2>2. n \in Node \ (Fifo!Queued \cup Hand)
        BY <1>2, <1>4, <2>1
    <2> QED BY <1>1, <1>4, <2>2, GoodThen DEF RepStep
<1>5. ASSUME NEW n \in Hand, NEW k \in Queue, Good([q EXCEPT ![k] = Append(@, n)])', Hand' = Hand \ {n}
      PROVE  Inv' /\ RepStep
    BY <1>1, <1>5, GoodThen DEF RepStep
<1>6. ASSUME NEW k \in Queue, q[k] # << >>, Good([q EXCEPT ![k] = Tail(@)])',
             Hand' \in {Hand, Hand \cup {Head(q[k])}}
      PROVE  Inv' /\ RepStep
    BY <1>1, <1>6, GoodThen DEF RepStep
<1>7. CASE Good([q EXCEPT ![highest] = @ \o q[lowest], ![lowest] = << >>])' /\ Hand' = Hand
    BY <1>1, <1>7, GoodThen DEF RepStep
<1> QED BY <1>2, <1>3, <1>4, <1>5, <1>6, <1>7, StepGood

\* A step that changes none of the variables.
LEMMA StutterKept ==
  ASSUME Inv, UNCHANGED vars
  PROVE  Inv' /\ RepStep
<1>1. PICK q : q = Rep
    OBVIOUS
<1>2. Good(q)
    BY <1>1 DEF Inv, Rep
<1>3. front' = front /\ back' = back /\ next' = next /\ fresh' = fresh /\ op' = op
    BY DEF vars
<1>4. Good(q)' /\ Hand' = Hand
    <2>1. Hand' = Hand
        BY <1>3 DEF Hand, Carries, At
    <2>2. Typed' /\ Single' /\ \A t \in Thread : Phase(q, op[t])'
        BY <1>2, <1>3 DEF Good, Typed, Single, Phase
    <2>3. Apart(q)'
        BY <1>2, <1>3, <2>1 DEF Good, Apart
    <2>4. \A t \in Thread : Sole(t)' => Lists(q, op[t])'
        BY <1>2, <1>3 DEF Good, Sole, Lists, Leads
    <2> QED BY <1>2, <2>1, <2>2, <2>3, <2>4 DEF Good
<1> QED BY <1>1, <1>4, GoodThen DEF RepStep

\* At first the queues are empty.
LEMMA InitKept ==
  ASSUME Init
  PROVE  Inv /\ Fifo!Init
<1>1. PICK q : q = [k \in Queue |-> << >>]
    OBVIOUS
<1>2. /\ q \in [Queue -> Seq(Node)] /\ \A k \in Queue : q[k] = << >> /\ Len(q[k]) = 0
    BY <1>1
<1>3. Typed
    BY IdleType DEF Init, Typed
<1>4. \A t \in Thread : op[t] = Idle /\ op[t].todo = << >>
    BY IdleType DEF Init
<1>5. Hand = {}
    BY <1>4, InCall, Carrying
<1>6. Apart(q)
    BY <1>2, <1>4, <1>5, Carrying, SMT DEF Apart
<1>7. Single /\ \A t \in Thread : Phase(q, op[t])
    BY <1>4, Beginnings DEF Single, Waits, Phase
<1>8. ASSUME NEW t \in Thread PROVE Lists(q, op[t])
    <2>1. \A k \in Queue : ~Linked(op[t], k) /\ ~Backed(op[t], k)
        BY <1>4, Beginnings DEF Linked, Backed
    <2>2. \A k \in Queue : Leads(k, << >>, Null)
        BY DEF Leads, Ptr, Init
    <2> QED BY <1>2, <2>1, <2>2 DEF Lists
<1>9. Good(q)
    BY <1>2, <1>3, <1>6, <1>7, <1>8 DEF Good
<1> QED BY <1>1, <1>5, <1>9, GoodInv DEF Fifo!Init

\* A thread that has come to the end of its walk has counted the nodes of the queue.
LEMMA CountedAll ==
  ASSUME Inv
  PROVE  CountTrue
<1>1. PICK q : q = Rep
    OBVIOUS
<1>2. Good(q)
    BY <1>1 DEF Inv, Rep
<1>3. SUFFICES ASSUME NEW t \in Thread, At(t) = "walk", WalkEnds(op[t].n)
               PROVE  op[t].count = Len(Listed(op[t].Q))
    BY DEF CountTrue
<1> PICK b : b = op[t]
    OBVIOUS
<1>4. Phase(q, b) /\ AtOf(b.todo) = "walk" /\ b \in CallType /\ q \in [Queue -> Seq(Node)] /\ b.n = Null
    BY <1>2, <1>3, InCall DEF Good, Typed, WalkEnds
<1>5. Counts(q, b)
    BY <1>4, Beginnings
       DEF Phase, Taking, Holding, IntoEmpty, IntoFull, Splices, Clearing, Counts
<1>6. b.Q \in Queue /\ q[b.Q] \in Seq(Node) /\ Len(q[b.Q]) \in Nat /\ b.count \in Nat
    BY <1>4, <1>5, LenProperties DEF Counts, CallType
<1>7. ~(b.count + 1 <= Len(q[b.Q]))
    <2>1. SUFFICES ASSUME b.count + 1 <= Len(q[b.Q]) PROVE FALSE
        OBVIOUS
    <2>2. b.count + 1 \in 1 .. Len(q[b.Q])
        BY <1>6, <2>1, SMT
    <2>3. b.n = q[b.Q][b.count + 1] /\ b.n \in Node
        BY <1>5, <1>6, <2>1, <2>2, ElementOfSeq DEF Counts, Ptr
    <2> QED BY <1>4, <2>3, Names
<1>8. b.count = Len(q[b.Q])
    BY <1>5, <1>6, <1>7, SMT DEF Counts
<1> QED BY <1>2, <1>6, <1>8, GoodListed

\* A step of the lists is one of Queues, or leaves its variables as they are.
LEMMA RepStepIsFifo ==
  ASSUME RepStep
  PROVE  [Fifo!Next]_Fifo!queueVars
BY DEF RepStep, Rep, Fifo!Next, Fifo!queueVars, Fifo!Create, Fifo!Enter, Fifo!Leave, Fifo!Splice

\* As long as a thread is interrupted only between dequeuee and enqueuee, the pointers
\* represent the queues at every assignment, whatever dequeuee leaves in next and back.
THEOREM PointersSound ==
  ASSUME Preemptible \subseteq {"put"}
  PROVE  Spec => []Inv
<1>1. Init => Inv
    BY InitKept
<1>2. Inv /\ [Next]_vars => Inv'
    BY StepKept, StutterKept
<1> QED BY <1>1, <1>2, PTL DEF Spec

\* get_specific_count then counts the nodes of the queue, on which the loop of
\* my_pthread_exit relies.
THEOREM CountsTrue ==
  ASSUME Preemptible \subseteq {"put"}
  PROVE  Spec => []CountTrue
<1>1. Inv => CountTrue
    BY CountedAll
<1> QED BY <1>1, PointersSound, PTL

\* The lists of my_pthread.c implement first-in-first-out queues: no stale back or next
\* ever loses, repeats or reorders a node.
THEOREM QueuesImplemented ==
  ASSUME Preemptible \subseteq {"put"}
  PROVE  Spec => ImplementsQueues
<1>1. Init => Fifo!Init
    BY InitKept
<1>2. Inv /\ [Next]_vars => [Fifo!Next]_Fifo!queueVars
    BY StepKept, StutterKept, RepStepIsFifo
<1> QED BY <1>1, <1>2, PointersSound, PTL DEF Spec, ImplementsQueues, Fifo!Spec

================================================================================

------------------------------ MODULE LinkedQueues ------------------------------
(***************************************************************************)
(* The linked queues of my_pthread.c, pointer by pointer: enqueuee,        *)
(* dequeuee, get_specific_count and the splice in updateQueue.             *)
(*                                                                         *)
(* A call is the list of its assignments, decided by the test at its       *)
(* beginning; each assignment is an action, because SIGALRM may come       *)
(* between two of them and another thread then use the queues: Preemptible *)
(* names the assignments before which it does.  dequeuee leaves next and,  *)
(* when the queue becomes empty, back as they are.                         *)
(***************************************************************************)
EXTENDS Naturals, Sequences, FiniteSets

CONSTANTS
  Node,              \* context nodes
  Queue,             \* the levels, waiting_queue and join_queue
  highest, lowest,   \* levels 0 and NUM_PRIORITIES - 1
  Thread,            \* those who use the queues
  Preemptible,
  Null

Steps == {"unhook", "put", "first", "link", "last", "own", "end", "clear", "clearBack",
          "walk"}

ASSUME QueuesAssumption ==
  /\ highest \in Queue /\ lowest \in Queue /\ highest # lowest
  /\ Null \notin Node \cup Queue
  /\ IsFiniteSet(Node) /\ Thread # {}
  /\ Preemptible \subseteq Steps

VARIABLES
  front, back,   \* [Queue -> Node or Null]
  next,          \* [Node -> Node or Null]
  fresh,         \* nodes that no thread was created for yet
  op             \* [Thread -> the call it is in]

vars == <<front, back, next, fresh, op>>

\* A call: the assignments left, the queue, the node in hand (the walk of
\* get_specific_count: the node it has reached), the queue that the node is moved to,
\* and the count.
Idle == [todo |-> << >>, Q |-> Null, n |-> Null, to |-> Null, count |-> 0]

Init ==
  /\ front = [k \in Queue |-> Null]
  /\ back = [k \in Queue |-> Null]
  /\ next = [n \in Node |-> Null]
  /\ fresh = Node
  /\ op = [t \in Thread |-> Idle]

\* The next assignment of a thread's call.
At(t) == IF op[t].todo = << >> THEN "idle" ELSE Head(op[t].todo)
After(c) == IF Len(c.todo) = 1 THEN Idle ELSE [c EXCEPT !.todo = Tail(c.todo)]
Done(t) == op' = [op EXCEPT ![t] = After(@)]

\* No other thread was interrupted where it does not expect it.
Alone(t) == \A u \in Thread \ {t} : At(u) \in Preemptible \cup {"idle"}

-----------------------------------------------------------------------------
(* enqueuee(n, k) and dequeuee(k).                                         *)

\* Mutant: next is not reset, and still points to the successor in the queue that the
\* node comes from.
EnqueueeStale(k) == IF front[k] = Null THEN <<"first", "last", "own">> ELSE <<"link", "last">>

enqueuee(k) == IF front[k] = Null THEN <<"first", "last", "own">> ELSE <<"link", "last", "end">>

\* my_pthread_create: the node of a new thread, memory never used before, is entered.
NewNode == CHOOSE n \in fresh : TRUE
Create(t, k) ==
  /\ At(t) = "idle" /\ Alone(t) /\ fresh # {}
  /\ op' = [op EXCEPT ![t] = [Idle EXCEPT !.todo = enqueuee(k), !.Q = k, !.n = NewNode]]
  /\ fresh' = fresh \ {NewNode}
  /\ UNCHANGED <<front, back, next>>

\* enqueuee(dequeuee(k), to) of updateQueue, my_pthread_exit and unlock; an exiting
\* thread's node is not entered again.  (With an empty queue there is no change, or
\* a NULL dereference.)
Move(t, k, to) ==
  /\ At(t) = "idle" /\ Alone(t) /\ front[k] # Null
  /\ op' = [op EXCEPT ![t] =
       [Idle EXCEPT !.todo = IF to = Null THEN <<"unhook">> ELSE <<"unhook", "put">>,
                    !.Q = k, !.n = front[k], !.to = to]]
  /\ UNCHANGED <<front, back, next, fresh>>

Unhook(t) ==
  /\ At(t) = "unhook" /\ Alone(t)
  /\ front' = [front EXCEPT ![op[t].Q] = next[op[t].n]]
  /\ Done(t)
  /\ UNCHANGED <<back, next, fresh>>

Put(t) ==
  /\ At(t) = "put" /\ Alone(t)
  /\ op' = [op EXCEPT ![t].todo = enqueuee(op[t].to), ![t].Q = op[t].to, ![t].to = Null]
  /\ UNCHANGED <<front, back, next, fresh>>

First(t) ==
  /\ At(t) = "first" /\ Alone(t)
  /\ front' = [front EXCEPT ![op[t].Q] = op[t].n]
  /\ Done(t)
  /\ UNCHANGED <<back, next, fresh>>

\* Q->back->next = n.  (Without a back there is a NULL dereference, and no step.)
Link(t) ==
  /\ At(t) = "link" /\ Alone(t)
  /\ back[op[t].Q] # Null
  /\ next' = [next EXCEPT ![back[op[t].Q]] = op[t].n]
  /\ Done(t)
  /\ UNCHANGED <<front, back, fresh>>

\* n->next = NULL, in a queue that was empty.
Own(t) ==
  /\ At(t) = "own" /\ Alone(t)
  /\ next' = [next EXCEPT ![op[t].n] = Null]
  /\ Done(t)
  /\ UNCHANGED <<front, back, fresh>>

Splicing(t) == "clear" \in {op[t].todo[i] : i \in DOMAIN op[t].todo}

Last(t) ==
  /\ At(t) = "last" /\ Alone(t)
  /\ back' = [back EXCEPT ![op[t].Q] = IF Splicing(t) THEN back[lowest] ELSE op[t].n]
  /\ Done(t)
  /\ UNCHANGED <<front, next, fresh>>

\* Q->back->next = NULL.
End(t) ==
  /\ At(t) = "end" /\ Alone(t)
  /\ back[op[t].Q] # Null
  /\ next' = [next EXCEPT ![back[op[t].Q]] = Null]
  /\ Done(t)
  /\ UNCHANGED <<front, back, fresh>>

-----------------------------------------------------------------------------
(* The maintenance of updateQueue: the lowest level goes behind the highest. *)

\* Mutant: the level is taken for empty when it never had a node.
SpliceByBack == IF back[highest] # Null THEN "link" ELSE "first"

SpliceBegins == IF front[highest] # Null THEN "link" ELSE "first"

Splice(t) ==
  /\ At(t) = "idle" /\ Alone(t) /\ front[lowest] # Null
  /\ op' = [op EXCEPT ![t] =
       [Idle EXCEPT !.todo = <<SpliceBegins, "last", "clear", "clearBack">>,
                    !.Q = highest, !.n = front[lowest]]]
  /\ UNCHANGED <<front, back, next, fresh>>

Clear(t) ==
  /\ At(t) = "clear" /\ Alone(t)
  /\ front' = [front EXCEPT ![lowest] = Null]
  /\ Done(t)
  /\ UNCHANGED <<back, next, fresh>>

ClearBack(t) ==
  /\ At(t) = "clearBack" /\ Alone(t)
  /\ back' = [back EXCEPT ![lowest] = Null]
  /\ Done(t)
  /\ UNCHANGED <<front, next, fresh>>

-----------------------------------------------------------------------------
(* get_specific_count.                                                     *)

Count(t, k) ==
  /\ At(t) = "idle" /\ Alone(t)
  /\ op' = [op EXCEPT ![t] = [Idle EXCEPT !.todo = <<"walk">>, !.Q = k, !.n = front[k]]]
  /\ UNCHANGED <<front, back, next, fresh>>

\* Mutant: the last node is not counted.
Ends(n) == n = Null \/ next[n] = Null

WalkEnds(n) == n = Null

\* A bound on the count: a walk that is longer leads back to where it was.
MaxCount == Cardinality(Node) + 1

Walk(t) ==
  /\ At(t) = "walk" /\ Alone(t)
  /\ IF WalkEnds(op[t].n) THEN op' = [op EXCEPT ![t] = Idle]
     ELSE op' = [op EXCEPT ![t].n = next[@], ![t].count = IF @ < MaxCount THEN @ + 1 ELSE @]
  /\ UNCHANGED <<front, back, next, fresh>>

-----------------------------------------------------------------------------

Begin(t) ==
  \/ \E k \in Queue : Create(t, k) \/ Count(t, k) \/ \E to \in Queue \cup {Null} : Move(t, k, to)
  \/ Splice(t)

Step(t) ==
  \/ Unhook(t) \/ Put(t) \/ First(t) \/ Link(t) \/ Last(t) \/ Own(t) \/ End(t)
  \/ Clear(t) \/ ClearBack(t) \/ Walk(t)

Next == \E t \in Thread : Begin(t) \/ Step(t)

\* A call that was begun is continued.
Fairness == \A t \in Thread : WF_vars(Step(t))

Spec     == Init /\ [][Next]_vars
FairSpec == Spec /\ Fairness

-----------------------------------------------------------------------------
(* Properties.                                                             *)

\* The node that a thread has taken out of a queue, or is about to enter for the
\* first time: until the last assignment of enqueuee it is in no queue.
Carries(t) ==
  op[t].todo # << >> /\ At(t) # "walk"
  /\ \A i \in DOMAIN op[t].todo : op[t].todo[i] \notin {"unhook", "clear", "clearBack"}
Hand == {op[t].n : t \in {u \in Thread : Carries(u)}}

\* Where a walk through queue k stops: at a node that is just being entered, or at
\* those of the lowest level until it is emptied.
Stops(k) ==
  {Null} \cup Hand \cup {op[t].n : t \in {u \in Thread : Splicing(u) /\ k = highest}}

\* The nodes that are found from the front of queue k, at most as many as there are.
Listed(k) ==
  LET stops == Stops(k)
      walk[i \in Nat] ==
        IF i = 0 THEN [nodes |-> << >>, at |-> front[k]]
        ELSE LET w == walk[i - 1]
             IN IF w.at \in stops THEN w
                ELSE [nodes |-> Append(w.nodes, w.at), at |-> next[w.at]]
  IN walk[Cardinality(Node) + 1].nodes

\* The lists are first-in-first-out queues, each call taking effect at one of its
\* assignments: no stale back or next ever loses, repeats or reorders a node.
Fifo == INSTANCE Queues WITH q <- [k \in Queue |-> Listed(k)], hand <- Hand
ImplementsQueues == Fifo!Spec

\* get_specific_count, on which the loop of my_pthread_exit relies, counts the nodes
\* of the queue.
CountTrue ==
  \A t \in Thread : At(t) = "walk" /\ WalkEnds(op[t].n) => op[t].count = Len(Listed(op[t].Q))

\* A call on a queue ends, unless it is interrupted between dequeuee and enqueuee: no
\* list ever leads back into itself.
CallEnds == \A t \in Thread : At(t) \notin {"idle", "put"} ~> At(t) \in {"idle", "put"}

=================================================================================

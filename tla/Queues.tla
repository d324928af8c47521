--------------------------------- MODULE Queues ---------------------------------
(***************************************************************************)
(* What the queues of the scheduler promise: first in, first out.  A node  *)
(* is entered behind the others and taken from the front; the maintenance  *)
(* puts the lowest level behind the highest.  Nothing else ever happens    *)
(* to the order or the members of a queue.                                 *)
(***************************************************************************)
EXTENDS Sequences

CONSTANTS Node, Queue, highest, lowest

VARIABLES
  q,     \* [Queue -> its nodes, in order]
  hand   \* the nodes that the callers have in hand, and that are in no queue

queueVars == <<q, hand>>

Members(s) == {s[i] : i \in DOMAIN s}
Queued == UNION {Members(q[k]) : k \in Queue}

Init ==
  /\ q = [k \in Queue |-> << >>]
  /\ hand = {}

Create ==
  /\ \E n \in Node \ (Queued \cup hand) : hand' = hand \cup {n}
  /\ UNCHANGED q

Enter ==
  \E n \in hand, k \in Queue :
    /\ q' = [q EXCEPT ![k] = Append(@, n)]
    /\ hand' = hand \ {n}

\* The node taken is kept in hand, or its thread has exited.
Leave ==
  \E k \in Queue :
    /\ q[k] # << >>
    /\ q' = [q EXCEPT ![k] = Tail(@)]
    /\ hand' \in {hand, hand \cup {Head(q[k])}}

Splice ==
  /\ q' = [q EXCEPT ![highest] = @ \o q[lowest], ![lowest] = << >>]
  /\ UNCHANGED hand

Next == Create \/ Enter \/ Leave \/ Splice
Spec == Init /\ [][Next]_queueVars

=================================================================================

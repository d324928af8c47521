--------------------------------- MODULE Heap ---------------------------------
(***************************************************************************)
(* What mymalloc promises of one region (a page, a chunk of pages or the   *)
(* shared pages): every request is granted a place that nobody else has,   *)
(* header included, and is refused only if there is no such place; nothing *)
(* but a release ends a grant.                                             *)
(***************************************************************************)
EXTENDS Integers

CONSTANTS
  Caller,      \* who asks
  Requests,    \* the sizes asked for
  Region,      \* size of the region
  HeaderSize,  \* what every place needs besides the bytes asked for
  None         \* not a size: no request is pending

VARIABLES
  live,        \* the places granted, as pairs <<first byte, byte after the last>>
  request      \* [Caller -> the size asked for, or None]

heapVars == <<live, request>>

Place == {e \in (0 .. Region) \X (0 .. Region) : e[1] < e[2]}
Apart(d, e) == d[2] <= e[1] \/ e[2] <= d[1]

\* The places that a request of x bytes could be given now.
Room(x) == {e \in Place : /\ e[2] - e[1] >= HeaderSize + x
                          /\ \A d \in live : Apart(d, e)}

Init ==
  /\ live = {}
  /\ request = [c \in Caller |-> None]

Ask(c) ==
  /\ request[c] = None
  /\ \E x \in Requests : request' = [request EXCEPT ![c] = x]
  /\ UNCHANGED live

Grant(c) ==
  /\ request[c] # None
  /\ \E e \in Room(request[c]) : live' = live \cup {e}
  /\ request' = [request EXCEPT ![c] = None]

Refuse(c) ==
  /\ request[c] # None
  /\ Room(request[c]) = {}
  /\ request' = [request EXCEPT ![c] = None]
  /\ UNCHANGED live

Release ==
  /\ \E e \in live : live' = live \ {e}
  /\ UNCHANGED request

Next == (\E c \in Caller : Ask(c) \/ Grant(c) \/ Refuse(c)) \/ Release

Spec == Init /\ [][Next]_heapVars

===============================================================================

---------------------------- MODULE PrivateMemory ----------------------------
(***************************************************************************)
(* What the memory manager promises its threads: pages of their own.  A    *)
(* step of the running thread may give it new pages and may change one     *)
(* page of its own; nothing else ever changes what a page contains, and no *)
(* page is lost.                                                           *)
(***************************************************************************)
CONSTANTS
  Thread,
  Home,      \* where in a thread's memory a page stands
  Content,
  Absent     \* the thread has no page there

VARIABLES
  page,      \* [Thread -> [Home -> Content, or Absent]]
  running    \* the thread that has the processor

memoryVars == <<page, running>>

Memory == [Thread -> [Home -> Content \cup {Absent}]]

Init ==
  /\ page = [t \in Thread |-> [h \in Home |-> Absent]]
  /\ running \in Thread

\* The running thread is given pages.
Give ==
  /\ page' \in Memory
  /\ \A t \in Thread, h \in Home :
       page'[t][h] = page[t][h] \/ (t = running /\ page[t][h] = Absent)
  /\ UNCHANGED running

\* The running thread changes a page of its own.
Write ==
  /\ \E h \in Home :
       /\ page[running][h] # Absent
       /\ \E c \in Content : page' = [page EXCEPT ![running][h] = c]
  /\ UNCHANGED running

Switch == running' \in Thread /\ UNCHANGED page

Next == Give \/ Write \/ Switch
Spec == Init /\ [][Next]_memoryVars

==============================================================================

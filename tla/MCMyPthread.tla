----------------------------- MODULE MCMyPthread -----------------------------
(* Constants for model-checking MyPthread.                                  *)
EXTENDS MyPthread

\* Who joins whom.  A chain: main waits for thread 1, which waits for thread 2.
ChainOfJoins == {<<0, 1>>, <<1, 2>>}
\* Two threads wait for each other.
CrossedJoins == {<<0, 1>>, <<1, 0>>}
OneJoin      == {<<0, 1>>}
NoJoins      == {}

==============================================================================

SPECIFICATION FairSpec
CONSTANTS
  Node = {n1, n2, n3}
  Queue = {high, low}
  highest = high
  lowest = low
  high = high
  low = low
  Thread = {t1, t2}
  Preemptible = {"put"}
  Null = Null
INVARIANT CountTrue
PROPERTIES ImplementsQueues CallEnds

SPECIFICATION FairSpec
CONSTANTS
  Thread = {t1, t2}
  NumFrames = 4
  TotalPages = 5
  PageUnits = 1
  Requests = {1}
  ChunkPages = {2, 3}
  PageBytes = 4
  WriteStride = 4
  ReadStride = 5
  Datum = {d1}
  Preemptible = {"user"}
  Careless = {"giveUp"}
INVARIANTS ChainComplete 
PROPERTY CallsReturn

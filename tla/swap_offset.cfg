SPECIFICATION Spec
CONSTANTS
  Thread = {t1, t2, t3}
  NumFrames = 2
  TotalPages = 5
  PageUnits = 2
  Requests = {1}
  ChunkPages = {}
  PageBytes = 4
  WriteStride = 4
  ReadStride = 5
  Datum = {d1, d2}
  Preemptible = {"user"}
  Careless = {}
PROPERTY ImplementsPrivateMemory

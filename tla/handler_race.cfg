SPECIFICATION Spec
CONSTANTS
  Thread = {t1, t2}
  NumFrames = 2
  TotalPages = 4
  PageUnits = 2
  Requests = {1}
  ChunkPages = {}
  PageBytes = 4
  WriteStride = 4
  ReadStride = 5
  Datum = {d1, d2}
  Preemptible = {"user", "unprotect"}
  Careless = {}
INVARIANT Isolation

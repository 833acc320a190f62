SPECIFICATION Spec
CONSTANTS
  system = system
  gps = gps
  Callers <- MCCallers
  Reader = Reader
  NULL = NULL
  Ops = {"execute"}
  Urcs = {"RING"}
  Timely = TRUE
  QueueCap = 8
  MaxChunks = 6
  MaxSync = 1
INVARIANT TimeoutMeansStranded
PROPERTY StrandedForever

SPECIFICATION Spec
CONSTANTS
  system = system
  gps = gps
  Callers <- MCCallers
  Reader = Reader
  NULL = NULL
  Ops = {"execute", "isconnected", "togglepower"}
  Urcs = {"INVALID"}
  Timely = TRUE
  QueueCap = 1
  MaxChunks = 5
  MaxSync = 2
SYMMETRY Symmetry
INVARIANT FreshAnswer
INVARIANT TimeoutMeansOff
INVARIANT GuardTimeKept
PROPERTY ServiceImplemented

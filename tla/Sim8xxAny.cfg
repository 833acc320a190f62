SPECIFICATION FairSpec
CONSTANTS
  system = system
  gps = gps
  Callers <- MCCallers
  Reader = Reader
  NULL = NULL
  Ops = {"isconnected", "togglepower"}
  Urcs = {}
  Timely = FALSE
  QueueCap = 1
  MaxChunks = 3
  MaxSync = 1
INVARIANT TypeOK
INVARIANT TokenNotLost
INVARIANT AnswerIntact
INVARIANT ReferencesSound
INVARIANT NoLostWakeup
INVARIANT DeafForGood
PROPERTY ServiceImplemented
PROPERTY CallReturns

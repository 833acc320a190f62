SPECIFICATION FairSpec
CONSTANTS
  Debounce = 2
  MboxSize = 2
  Callers = {"system", "gps"}
  Reliable = TRUE
  MaxSem = 2
INVARIANT TrackingTypeOK
INVARIANT StaticsExclusive
INVARIANT OnComesFirst
INVARIANT PositionMatchesError
PROPERTY LostForGood
PROPERTY RidesInTheEnd
PROPERTY PollsForever

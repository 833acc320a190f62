SPECIFICATION FairSpec
CONSTANTS
  Debounce = 2
  MboxSize = 1
  Prompt = TRUE
  CardOK = TRUE
INVARIANT PeripheralsFollow
INVARIANT NoStopWhenStopped
PROPERTY RemovalHandled

SPECIFICATION Spec
CONSTANTS
  Debounce = 2
  MboxSize = 1
  Prompt = TRUE
  CardOK = FALSE
CHECK_DEADLOCK FALSE
INVARIANT MmcDisconnectAllowed

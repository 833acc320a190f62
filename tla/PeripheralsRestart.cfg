SPECIFICATION Spec
CONSTANTS
  Debounce = 2
  MboxSize = 1
  Prompt = FALSE
  CardOK = TRUE
CHECK_DEADLOCK FALSE
INVARIANT MmcStartAllowed

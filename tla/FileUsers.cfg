SPECIFICATION FileSpec
CONSTANTS
  Debounce = 2
  MboxSize = 2
  Prompt = TRUE
  CardOK = TRUE
INVARIANT VolumeExclusive
CHECK_DEADLOCK FALSE

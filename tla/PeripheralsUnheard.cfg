SPECIFICATION FairSpec
CONSTANTS
  Debounce = 2
  MboxSize = 1
  Prompt = TRUE
  CardOK = TRUE
PROPERTY TerminationHeard

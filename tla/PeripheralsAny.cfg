SPECIFICATION Spec
CONSTANTS
  Debounce = 2
  MboxSize = 1
  Prompt = FALSE
  CardOK = FALSE
CHECK_DEADLOCK FALSE
INVARIANT TypeOK
INVARIANT InsertionOvertakesRemoval
INVARIANT OneShell
INVARIANT TerminationUnheard

SPECIFICATION MonitorFairSpec
CONSTANTS
  Debounce = 3
  MboxSize = 4
INVARIANT MonitorTypeOK
INVARIANT Debounced
INVARIANT IgnitionAlternates
PROPERTY LineReported

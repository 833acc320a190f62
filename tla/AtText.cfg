SPECIFICATION Spec
CONSTANTS
  MaxLost = 1
  MaxTyped = 6
INVARIANT StatusIsLastLine
 
INVARIANT WholeResponseRead
INVARIANT NumbersExact
CHECK_DEADLOCK FALSE

CONSTANTS
  File = {f1, f2, f3}
  MaxChanges = 2
SPECIFICATION Spec
INVARIANT SelectionIsWanted
CHECK_DEADLOCK FALSE

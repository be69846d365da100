CONSTANTS
  Id = {t1}
  Loop = loop
  p1 = p1
  Slot = {loop, p1}
  Gone = Gone
  MaxUserOps = 2
SPECIFICATION Spec
INVARIANT RatioPausedOnce
CHECK_DEADLOCK FALSE

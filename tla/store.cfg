CONSTANTS
  Id = {t1}
  Loop = loop
  p1 = p1
  Slot = {loop, p1}
  Gone = Gone
  MaxUserOps = 1
SPECIFICATION FairSpec
INVARIANTS Inv NoticesMatchCompletions RatioPausedOnceUnlessRefused
PROPERTIES NeverOlder Converges CompletionNoticed RatioEnforced
CHECK_DEADLOCK FALSE

CONSTANTS
  PieceSize = 3
  MaxSize = 8
  TrueSize = 7
  InfoSafe = TRUE
  Sizes = {0, 1, 6, 7, 9}
  Window = 2
  MaxMessages = 5
SPECIFICATION Spec
INVARIANTS Inv
PROPERTIES KeepsProgress HonestDelivers
CHECK_DEADLOCK FALSE

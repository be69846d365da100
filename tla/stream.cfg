CONSTANTS
  Frames = 4
  Body <- MCBody
  Kind <- MCKind
  Start <- MCStart
  HandshakeLen = 5
  PrefixLen = 4
  MaxFrame = 3
  Capacity = 2
  MaxChunk = 9
SPECIFICATION StreamSpec
INVARIANTS NothingLeftBehind FailureHasCause
PROPERTY DeliversInOrder
CHECK_DEADLOCK FALSE

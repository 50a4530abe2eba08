CONSTANTS
  Co = {c1, c2}
  Main = Main
  None = None
  Capacity = 4
SPECIFICATION FreeSpec
INVARIANT WaitReturnsAfterEnd
CHECK_DEADLOCK FALSE

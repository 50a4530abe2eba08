CONSTANTS
  Co = {c1, c2, c3}
  Main = Main
  None = None
  Capacity = 4
SYMMETRY Blocks
SPECIFICATION FreeSpec
INVARIANTS StackListsLive DeadIffOver
PROPERTY FreedByItsWaiter
\* A processor gone wild takes no step of the model.
CHECK_DEADLOCK FALSE

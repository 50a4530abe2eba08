CONSTANTS
  Co = {c1, c2, c3}
  Main = Main
  None = None
  Capacity = 2
SYMMETRY Blocks
SPECIFICATION FreeSpec
INVARIANT WildOnlyByOverflow
CHECK_DEADLOCK FALSE

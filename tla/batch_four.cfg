CONSTANTS
  c1 = c1
  c2 = c2
  c3 = c3
  c4 = c4
  Co = {c1, c2, c3, c4}
  Main = Main
  None = None
  Capacity = 5
  Workers = 4
SYMMETRY Blocks
SPECIFICATION Spec
INVARIANT NeverWild

CONSTANTS
  c1 = c1
  c2 = c2
  c3 = c3
  c4 = c4
  Co = {c1, c2}
  Main = Main
  None = None
  Capacity = 3
  Workers = 2
SPECIFICATION Spec
PROPERTY DeadIsNotReleased

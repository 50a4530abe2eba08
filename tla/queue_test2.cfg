CONSTANTS
  p1 = p1
  p2 = p2
  c1 = c1
  c2 = c2
  Co = {p1, p2, c1, c2}
  Main = Main
  None = None
  Capacity = 6
  Producers = 2
  Consumers = 2
  Items = 3
  Cap = 2
SPECIFICATION Spec
INVARIANT TypeOK PrintedInOrder SizeAgrees ConsumersOutlastProducers
PROPERTY Terminates
\* The program stops when test_2 has returned.
CHECK_DEADLOCK FALSE

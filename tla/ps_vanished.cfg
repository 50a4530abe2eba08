CONSTANTS
  Pid = {1, 2, 3}
  Gone = Gone
  Roots = {1}
  Jobs <- Numeric
  Spaced = {}
  MaxPids = 5
  MaxEvents = 1
  MaxCalls = 5
SPECIFICATION Spec
INVARIANT NoNullDereference
\* The program stops when it has printed the tree.
CHECK_DEADLOCK FALSE

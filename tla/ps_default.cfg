CONSTANTS
  Pid = {1, 2, 3, 4}
  Gone = Gone
  Roots = {1}
  Jobs <- Default
  Spaced = {}
  MaxPids = 5
  MaxEvents = 0
  MaxCalls = 5
SPECIFICATION Spec
INVARIANT NoNodeLost
\* The program stops when it has printed the tree.
CHECK_DEADLOCK FALSE

CONSTANTS
  Pid = {1, 2, 3, 4, 5}
  Gone = Gone
  Roots = {1, 2}
  Jobs <- Numeric
  Spaced = {2}
  MaxPids = 5
  MaxEvents = 2
  MaxCalls = 6
SPECIFICATION FairSpec
INVARIANTS TypeOK NoNodeLost SteadyShown ShownOnce SiblingsSorted CrashHasCause
PROPERTY Terminates
\* The program stops when it has printed the tree.
CHECK_DEADLOCK FALSE

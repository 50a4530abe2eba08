CONSTANTS
  c1 = c1
  c2 = c2
  c3 = c3
  c4 = c4
  Co = {c1, c2, c3}
  Main = Main
  None = None
  Capacity = 4
  Workers = 3
SPECIFICATION FairSpec
INVARIANTS TypeOK NeverWild WaitReturnsAfterEnd BatchInv SavedShallow
PROPERTIES KeepsPromise EveryoneIsJoined

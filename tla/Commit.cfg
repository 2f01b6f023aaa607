SPECIFICATION FairSpec
CONSTANTS
  Thread = {t1, t2}
  Node = {1, 2, 3}
  Terminal = {1, 3}
  MaxPhase = 2
INVARIANTS
  PreparedInOrder
  ResolvedWhenFinished
  NoUseAfterFree
PROPERTIES
  ImplementsPhasedCommit
  EventuallyResolved
  EventuallyFreed

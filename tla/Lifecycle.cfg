SPECIFICATION FairSpec
CONSTANTS
  Thread = {t1, t2}
  MaxHandles = 1
  MaxOpen = 2
  MaxBlocks = 1
  MaxFutures = 1
  MaxNodes = 1
INVARIANTS
  TypeOK
  ClosedForWrites
  NoUseAfterFree
  ReadyMeansDone
  ReferencesCounted
  NoLeak
PROPERTIES
  DecisionsAreFinal
  RequestLeadsToReady
